--------------------------- MODULE TenantGrantsProofs ---------------------------
(***************************************************************************)
(* A tenant appears complete, a repair that succeeds leaves it complete,   *)
(* and an assigned role holds its base: for any number of tenants,         *)
(* workers, processes, modules, codes and versions.                        *)
(*                                                                         *)
(* What a bootstrap has inserted is not what the catalogue holds when it   *)
(* commits: codes come and go while it works.  The argument follows the    *)
(* codes that have been valid all along (firme), of which there are fewer  *)
(* and fewer, while the rows of a tenant only become more; so what a task  *)
(* has reached at one of its steps (Bien) it keeps, whatever others do.    *)
(***************************************************************************)
EXTENDS TenantGrantsProps, PermissionSyncProofs

Estados == {"no", "activo", "inactivo"}
Contratos == [Clientes -> [Modulos -> Estados]]
Concesiones == [Clientes -> [Roles -> SUBSET Codigos]]
Respuestas == {"none", "ok", "failed"}
Firmas == [codigos : SUBSET Codigos, parejas : SUBSET (Codigos \X (Modulos \cup {Ninguno}))]

Bootstrap == {"alta", "reparar"}
Tablero == {"ver", "validar", "poner", "fin"}
Tras == Tablero \cup {"exigir", "sincronizar"}

\* The functions of a worker's task, for any task.
De(f, m) == {k \in Codigos : <<k, m>> \in f.parejas}
Da(t, r) == grants[t.cliente][r] \cup t.dados[r]
Con(t, m) == contrato[t.cliente][m] # "no" \/ m \in t.filas

Situado(t) ==
    /\ t.op \in {"libre", "quitar"} => t.cliente = Ninguno
    /\ t.op \notin {"libre", "quitar"} => t.cliente \in Clientes
    /\ t.op = "alta" => t.cliente \notin clientes
    /\ t.op \in Ops \ {"libre", "quitar", "alta"} => t.cliente \in clientes
    /\ t.paso \in {"catalogo", "modulos", "activar", "exigir", "sincronizar"} => t.op \in Bootstrap
    /\ t.paso \in Tablero => /\ t.op \in Bootstrap \cup {"asegurar"} /\ t.rol \in Operativos
                            /\ t.lote \in {"base", "estandar"}
    /\ t.op \in {"contratar", "cancelar", "quitar"} \/ t.paso = "sincronizar" =>
           t.modulo \in Modulos

\* The modules and the owner's permissions that a bootstrap has seen to.
Equipado(t, f) ==
    t.op \in Bootstrap =>
        /\ t.paso = "activar" => \A m \in Plan \ t.pend : Con(t, m)
        /\ t.paso \in Tras => /\ \A m \in Plan : Con(t, m)
                              /\ Globales \cap De(f, Ninguno) \subseteq Da(t, "ADMIN")
        /\ t.paso \in {"exigir", "sincronizar"} =>
               \A m \in Plan \ t.pend : De(f, m) \subseteq Da(t, "ADMIN")
        /\ t.paso \in Tablero => \A m \in Plan : De(f, m) \subseteq Da(t, "ADMIN")

\* The bootstrap has given role r its base.
Pasada(t, r) == t.lote = "estandar" \/ t.paso = "fin" \/ (r = "MANAGER" /\ t.rol = "USER")

Basado(t, f) ==
    LET base == Base \cap f.codigos IN
    /\ t.op \in Bootstrap /\ t.paso \in Tablero =>
           \A r \in Operativos : Pasada(t, r) => base \subseteq Da(t, r)
    /\ t.op = "asegurar" /\ t.lote = "estandar" => base \subseteq grants[t.cliente][t.rol]
    /\ t.op = "asegurar" /\ t.paso = "fin" => base \subseteq Da(t, t.rol)
    /\ t.paso \in {"validar", "poner"} /\ t.lote = "base" =>
           base \subseteq t.faltan \cup Da(t, t.rol)

Bien(t, f) == Situado(t) /\ Equipado(t, f) /\ Basado(t, f)

Todos == \A w \in Workers : Bien(tarea[w], firme[w])

\* Nobody else works on a tenant that is being created.
Unicos ==
    \A v, w \in Workers : v # w /\ tarea[v].op = "alta" => tarea[w].cliente # tarea[v].cliente

FirmeOK ==
    \A w \in Workers : /\ firme[w].codigos \subseteq Activos
                       /\ firme[w].parejas \subseteq Vigentes.parejas

Inv == TypeOK /\ FirmeOK /\ Unicos /\ Todos

\* Rows of tenants are never taken back.
Crece ==
    /\ \A c \in Clientes, m \in Modulos : contrato[c][m] # "no" => contrato'[c][m] # "no"
    /\ \A c \in Clientes, r \in Roles : grants[c][r] \subseteq grants'[c][r]

Menos(g, f) == g.codigos \subseteq f.codigos /\ g.parejas \subseteq f.parejas

-----------------------------------------------------------------------------
LEMMA VigentesType ==
    ASSUME SyncTypeOK PROVE Vigentes \in Firmas
  <1>1. Activos \in SUBSET Codigos
    BY DEF Activos
  <1>2. Vigentes.parejas \in SUBSET (Codigos \X (Modulos \cup {Ninguno}))
    BY <1>1 DEF Vigentes, SyncTypeOK
  <1> QED BY <1>1, <1>2 DEF Vigentes, Firmas

LEMMA VigentesTypeP ==
    ASSUME SyncTypeOK' PROVE Vigentes' \in Firmas
  <1>1. Activos' \in SUBSET Codigos
    BY DEF Activos
  <1>2. Vigentes'.parejas \in SUBSET (Codigos \X (Modulos \cup {Ninguno}))
    BY <1>1 DEF Vigentes, SyncTypeOK
  <1> QED BY <1>1, <1>2 DEF Vigentes, Firmas

LEMMA FirmeSigue ==
    ASSUME TypeOK, SyncTypeOK', Recordar
    PROVE  /\ firme' \in [Workers -> Firmas]
           /\ FirmeOK'
           /\ \A w \in Workers : tarea'[w] # Libre => Menos(firme'[w], firme[w])
  <1>1. PICK V : V = Vigentes'
    OBVIOUS
  <1>2. V \in Firmas
    BY <1>1, VigentesTypeP
  <1>3. firme \in [Workers -> Firmas]
    BY DEF TypeOK, Firmas
  <1>4. \A w \in Workers :
          firme'[w] = IF tarea'[w] = Libre THEN V
                      ELSE [codigos |-> firme[w].codigos \cap V.codigos,
                            parejas |-> firme[w].parejas \cap V.parejas]
    BY <1>1 DEF Recordar
  <1>5. ASSUME NEW w \in Workers
        PROVE  /\ firme'[w] \in Firmas
               /\ firme'[w].codigos \subseteq V.codigos /\ firme'[w].parejas \subseteq V.parejas
               /\ tarea'[w] # Libre => Menos(firme'[w], firme[w])
    <2>1. PICK f \in Firmas : f = firme[w]
      BY <1>3
    <2>2. CASE tarea'[w] = Libre
      BY <1>2, <1>4, <2>2
    <2>3. CASE tarea'[w] # Libre
      <3>1. firme'[w] = [codigos |-> f.codigos \cap V.codigos,
                         parejas |-> f.parejas \cap V.parejas]
        BY <1>4, <2>1, <2>3
      <3>2. /\ f.codigos \cap V.codigos \in SUBSET Codigos
            /\ f.parejas \cap V.parejas \in SUBSET (Codigos \X (Modulos \cup {Ninguno}))
        BY DEF Firmas
      <3>3. firme'[w] \in Firmas
        BY <3>1, <3>2 DEF Firmas
      <3> QED BY <2>1, <3>1, <3>3 DEF Menos
    <2> QED BY <2>2, <2>3
  <1>6. V.codigos = Activos' /\ V.parejas = Vigentes'.parejas
    BY <1>1 DEF Vigentes
  <1>7. firme' \in [Workers -> Firmas]
    <2>1. DOMAIN firme' = Workers /\ firme' = [w \in Workers |-> firme'[w]]
      BY DEF Recordar
    <2> QED BY <1>5, <2>1
  <1> QED BY <1>5, <1>6, <1>7 DEF FirmeOK

\* A task keeps what it has reached: rows become more, firm codes become fewer.
LEMMA BienSigue ==
    ASSUME NEW t \in Tareas, NEW f \in Firmas, NEW g \in Firmas, Menos(g, f), Crece, Bien(t, f),
           t.cliente \in clientes' <=> t.cliente \in clientes
    PROVE  Bien(t, g)'
  <1>1. /\ t.op \in Ops /\ t.pend \subseteq Modulos /\ t.filas \subseteq Modulos
        /\ t.rol \in Roles
    BY DEF Tareas
  <1>2. Situado(t)'
    BY DEF Bien, Situado
  <1>3. t.op \in Bootstrap \cup {"asegurar"} => t.cliente \in Clientes
    BY DEF Bien, Situado, Bootstrap
  <1>4. ASSUME t.cliente \in Clientes
        PROVE  /\ \A m \in Plan : Con(t, m) => Con(t, m)'
               /\ \A r \in Roles : Da(t, r) \subseteq Da(t, r)'
               /\ \A r \in Roles : grants[t.cliente][r] \subseteq grants'[t.cliente][r]
    BY <1>4, PlanAssumption DEF Con, Da, Crece
  <1>5. \A m : De(g, m) \subseteq De(f, m)
    BY DEF De, Menos
  <1>6. "ADMIN" \in Roles /\ Operativos \subseteq Roles
    BY DEF Roles, Operativos
  <1>7. Equipado(t, g)'
    BY <1>3, <1>4, <1>5, <1>6 DEF Bien, Equipado
  <1>8. Basado(t, g)'
    <2>1. Base \cap g.codigos \subseteq Base \cap f.codigos
      BY DEF Menos
    <2>2. t.paso \in Tablero => t.op \in Bootstrap \cup {"asegurar"}
      BY DEF Bien, Situado
    <2>3. {"validar", "poner"} \subseteq Tablero
      BY DEF Tablero
    <2> QED BY <1>1, <1>3, <1>4, <1>6, <2>1, <2>2, <2>3 DEF Bien, Basado, Pasada
  <1> QED BY <1>2, <1>7, <1>8 DEF Bien

LEMMA BienMenos ==
    ASSUME NEW t, NEW f, NEW g, Menos(g, f), Bien(t, f)'
    PROVE  Bien(t, g)'
  <1>1. \A m : De(g, m) \subseteq De(f, m)
    BY DEF De, Menos
  <1>2. Equipado(t, g)'
    BY <1>1 DEF Bien, Equipado
  <1>3. Basado(t, g)'
    BY DEF Bien, Basado, Menos
  <1> QED BY <1>2, <1>3 DEF Bien

LEMMA LibreType == Libre \in Tareas
  BY Zenon DEF Libre, Tareas, Ops, Pasos, Roles

LEMMA LibreBien == ASSUME NEW f PROVE Bien(Libre, f)'
  BY DEF Libre, Bien, Situado, Equipado, Basado, Bootstrap, Tablero, Tras

-----------------------------------------------------------------------------
\* A step that leaves worker w with the task t, and the catalogue as it likes.
LEMMA UnPaso ==
    ASSUME Inv, Recordar, SyncTypeOK', Crece,
           NEW w \in Workers, NEW t \in Tareas, NEW f \in Firmas, f = firme[w],
           tarea' = [tarea EXCEPT ![w] = t], told' \in [Workers -> Respuestas],
           clientes' \in SUBSET Clientes, contrato' \in Contratos, grants' \in Concesiones,
           \A v \in Workers \ {w} : tarea[v].cliente \in clientes' <=> tarea[v].cliente \in clientes,
           \A v \in Workers \ {w} : t.op = "alta" \/ tarea[v].op = "alta" =>
               tarea[v].cliente # t.cliente,
           t = Libre \/ Bien(t, f)'
    PROVE  Inv'
  <1>1. /\ firme' \in [Workers -> Firmas] /\ FirmeOK'
        /\ \A v \in Workers : tarea'[v] # Libre => Menos(firme'[v], firme[v])
    BY FirmeSigue DEF Inv
  <1>2. tarea \in [Workers -> Tareas] /\ firme \in [Workers -> Firmas]
    BY DEF Inv, TypeOK, Firmas
  <1>3. tarea' \in [Workers -> Tareas]
    BY <1>2
  <1>4. TypeOK'
    BY <1>1, <1>3 DEF TypeOK, Firmas, Contratos, Concesiones, Respuestas, Estados
  <1>5. Unicos'
    BY <1>2 DEF Inv, Unicos
  <1>6. ASSUME NEW v \in Workers PROVE Bien(tarea[v], firme[v])'
    <2>1. PICK x \in Tareas : x = tarea'[v]
      BY <1>3
    <2>2. PICK g \in Firmas : g = firme'[v]
      BY <1>1
    <2>3. CASE x = Libre
      <3>1. Bien(Libre, g)'
        BY LibreBien
      <3> QED BY <2>1, <2>2, <2>3, <3>1
    <2>4. CASE x # Libre /\ v = w
      <3>1. x = t /\ Bien(t, f)' /\ Menos(g, f)
        BY <1>1, <1>2, <2>1, <2>2, <2>4
      <3>2. Bien(t, g)'
        BY <3>1, BienMenos
      <3> QED BY <2>1, <2>2, <3>1, <3>2
    <2>5. CASE x # Libre /\ v # w
      <3>1. PICK h \in Firmas : h = firme[v]
        BY <1>2
      <3>2. x = tarea[v] /\ Bien(x, h) /\ Menos(g, h)
        BY <1>1, <1>2, <2>1, <2>2, <2>5, <3>1 DEF Inv, Todos
      <3>3. x.cliente \in clientes' <=> x.cliente \in clientes
        BY <2>5, <3>2
      <3>4. Bien(x, g)'
        BY <3>2, <3>3, BienSigue
      <3> QED BY <2>1, <2>2, <3>4
    <2> QED BY <2>3, <2>4, <2>5
  <1> QED BY <1>1, <1>4, <1>5, <1>6 DEF Inv, Todos

\* A step of a process, or of the catalogue of modules.
LEMMA Ajeno ==
    ASSUME Inv, Recordar, SyncTypeOK', UNCHANGED <<tenantVars, tarea, told>>
    PROVE  Inv'
  <1> USE DEF tenantVars
  <1>1. /\ firme' \in [Workers -> Firmas] /\ FirmeOK'
        /\ \A v \in Workers : tarea'[v] # Libre => Menos(firme'[v], firme[v])
    BY FirmeSigue DEF Inv
  <1>2. tarea \in [Workers -> Tareas] /\ firme \in [Workers -> Firmas]
    BY DEF Inv, TypeOK, Firmas
  <1>3. TypeOK'
    BY <1>1 DEF Inv, TypeOK, Firmas
  <1>4. Unicos'
    BY DEF Inv, Unicos
  <1>5. ASSUME NEW v \in Workers PROVE Bien(tarea[v], firme[v])'
    <2>1. PICK x \in Tareas : x = tarea[v] /\ x = tarea'[v]
      BY <1>2
    <2>2. PICK g \in Firmas : g = firme'[v]
      BY <1>1
    <2>3. PICK h \in Firmas : h = firme[v]
      BY <1>2
    <2>4. CASE x = Libre
      <3>1. Bien(Libre, g)'
        BY LibreBien
      <3> QED BY <2>1, <2>2, <2>4, <3>1
    <2>5. CASE x # Libre
      <3>1. Bien(x, h) /\ Menos(g, h)
        BY <1>1, <2>1, <2>2, <2>3, <2>5 DEF Inv, Todos
      <3>2. Crece
        BY DEF Crece
      <3>3. Bien(x, g)'
        BY <3>1, <3>2, BienSigue
      <3> QED BY <2>1, <2>2, <3>3
    <2> QED BY <2>4, <2>5
  <1> QED BY <1>1, <1>3, <1>4, <1>5 DEF Inv, Todos

\* A step of a worker in its own transaction.
LEMMA PasoPropio ==
    ASSUME Inv, Recordar, UNCHANGED <<syncVars, tenantVars>>,
           NEW w \in Workers, NEW s \in Tareas, s = tarea[w],
           NEW f \in Firmas, f = firme[w], NEW t \in Tareas,
           tarea' = [tarea EXCEPT ![w] = t], told' \in [Workers -> Respuestas],
           t.op = s.op, t.cliente = s.cliente, Bien(t, f)
    PROVE  Inv'
  <1> USE DEF syncVars, tenantVars, tablas, arranque
  <1>1. SyncTypeOK'
    BY DEF Inv, TypeOK, SyncTypeOK
  <1>2. /\ clientes' \in SUBSET Clientes /\ contrato' \in Contratos /\ grants' \in Concesiones
    BY DEF Inv, TypeOK, Contratos, Concesiones, Estados
  <1>3. Crece
    BY DEF Crece
  <1>4. Bien(t, f)'
    BY DEF Bien, Situado, Equipado, Basado, Da, Con
  <1>5. \A v \in Workers \ {w} : t.op = "alta" \/ tarea[v].op = "alta" =>
               tarea[v].cliente # t.cliente
    BY DEF Inv, Unicos
  <1> QED BY <1>1, <1>2, <1>3, <1>4, <1>5, UnPaso

LEMMA TareaDe ==
    ASSUME Inv, NEW w \in Workers
    PROVE  /\ tarea[w] \in Tareas /\ firme[w] \in Firmas
           /\ Bien(tarea[w], firme[w])
           /\ firme[w].codigos \subseteq Activos /\ firme[w].parejas \subseteq Vigentes.parejas
           /\ told \in [Workers -> Respuestas]
  BY DEF Inv, TypeOK, Todos, FirmeOK, Firmas, Respuestas

-----------------------------------------------------------------------------
(***************************************************************************)
(* The modules and the owner.                                              *)
(***************************************************************************)
LEMMA ValidarCatalogoSigue ==
    ASSUME Inv, Recordar, UNCHANGED syncVars, NEW w \in Workers, ValidarCatalogo(w)
    PROVE  Inv'
  <1>1. PICK s \in Tareas : s = tarea[w]
    BY TareaDe
  <1>2. PICK f \in Firmas : f = firme[w]
    BY TareaDe
  <1> DEFINE t == [s EXCEPT !.paso = "modulos"]
  <1>3. t \in Tareas /\ t.op = s.op /\ t.cliente = s.cliente
    BY ZenonT(60) DEF Tareas, Pasos
  <1>4. Bien(t, f)
    BY <1>1, <1>2, TareaDe
    DEF ValidarCatalogo, T, Bien, Situado, Equipado, Basado, Tareas, Tablero, Tras, Bootstrap
  <1>5. tarea' = [tarea EXCEPT ![w] = t] /\ told' = told /\ UNCHANGED tenantVars
    BY <1>1 DEF ValidarCatalogo, Avanza, T
  <1> HIDE DEF t
  <1> QED BY <1>1, <1>2, <1>3, <1>4, <1>5, TareaDe, PasoPropio

LEMMA BuscarModulosSigue ==
    ASSUME Inv, Recordar, UNCHANGED syncVars, NEW w \in Workers, BuscarModulos(w)
    PROVE  Inv'
  <1>1. PICK s \in Tareas : s = tarea[w]
    BY TareaDe
  <1>2. PICK f \in Firmas : f = firme[w]
    BY TareaDe
  <1> DEFINE t == [s EXCEPT !.paso = "activar", !.pend = Plan]
  <1>3. t \in Tareas /\ t.op = s.op /\ t.cliente = s.cliente
    BY PlanAssumption, ZenonT(60) DEF Tareas, Pasos
  <1>4. Bien(t, f)
    BY <1>1, <1>2, TareaDe
    DEF BuscarModulos, T, Bien, Situado, Equipado, Basado, Tareas, Tablero, Tras, Bootstrap
  <1>5. tarea' = [tarea EXCEPT ![w] = t] /\ told' = told /\ UNCHANGED tenantVars
    BY <1>1 DEF BuscarModulos, Avanza, T
  <1> HIDE DEF t
  <1> QED BY <1>1, <1>2, <1>3, <1>4, <1>5, TareaDe, PasoPropio

LEMMA ActivarModuloSigue ==
    ASSUME Inv, Recordar, UNCHANGED syncVars, NEW w \in Workers, NEW m \in Modulos,
           ActivarModulo(w, m)
    PROVE  Inv'
  <1>1. PICK s \in Tareas : s = tarea[w]
    BY TareaDe
  <1>2. PICK f \in Firmas : f = firme[w]
    BY TareaDe
  <1> DEFINE F == IF Con(s, m) THEN s.filas ELSE s.filas \cup {m}
             t == [s EXCEPT !.pend = @ \ {m}, !.filas = F]
  <1>3. t \in Tareas /\ t.op = s.op /\ t.cliente = s.cliente
    <2>1. F \in SUBSET Modulos /\ s.pend \ {m} \in SUBSET Modulos
      BY DEF Tareas
    <2> HIDE DEF F
    <2> QED BY <2>1, ZenonT(60) DEF Tareas
  <1>4. Bien(t, f)
    <2>1. /\ t.pend = s.pend \ {m} /\ t.filas = F /\ t.dados = s.dados /\ t.paso = s.paso
          /\ t.rol = s.rol /\ t.lote = s.lote /\ t.modulo = s.modulo /\ t.faltan = s.faltan
      BY DEF Tareas
    <2>2. s.paso = "activar" /\ Bien(s, f)
      BY <1>1, <1>2, TareaDe DEF ActivarModulo, T
    <2>3. \A n : Con(s, n) => Con(t, n)
      BY <1>3, <2>1 DEF Con
    <2>4. Con(t, m)
      BY <1>3, <2>1 DEF Con
    <2> HIDE DEF t
    <2>5. Situado(t) /\ Basado(t, f)
      BY <1>3, <2>1, <2>2 DEF Bien, Situado, Basado, Tablero, Bootstrap
    <2>6. Equipado(t, f)
      BY <1>3, <2>1, <2>2, <2>3, <2>4 DEF Bien, Equipado, Tablero, Tras
    <2> QED BY <2>5, <2>6 DEF Bien
  <1>5. tarea' = [tarea EXCEPT ![w] = t] /\ told' = told /\ UNCHANGED tenantVars
    BY <1>1 DEF ActivarModulo, Avanza, T, Tiene, Con
  <1> HIDE DEF t
  <1> QED BY <1>1, <1>2, <1>3, <1>4, <1>5, TareaDe, PasoPropio

\* What Dar adds to a task.
LEMMA DarDa ==
    ASSUME NEW s \in Tareas, NEW t \in Tareas, NEW r \in Roles, NEW ks \in SUBSET Codigos,
           t.cliente = s.cliente,
           t.dados = [s.dados EXCEPT ![r] = @ \cup (ks \ grants[s.cliente][r])]
    PROVE  /\ \A q \in Roles : Da(s, q) \subseteq Da(t, q)
           /\ ks \subseteq Da(t, r)
  <1>1. s.dados \in [Roles -> SUBSET Codigos]
    BY DEF Tareas
  <1> QED BY <1>1 DEF Da

LEMMA DarType ==
    ASSUME NEW s \in Tareas, NEW r \in Roles, NEW ks \in SUBSET Codigos
    PROVE  [s.dados EXCEPT ![r] = @ \cup (ks \ grants[s.cliente][r])]
               \in [Roles -> SUBSET Codigos]
  <1>1. s.dados \in [Roles -> SUBSET Codigos]
    BY DEF Tareas
  <1> QED BY <1>1

LEMMA DarGlobalesSigue ==
    ASSUME Inv, Recordar, UNCHANGED syncVars, NEW w \in Workers, DarGlobales(w)
    PROVE  Inv'
  <1>1. PICK s \in Tareas : s = tarea[w]
    BY TareaDe
  <1>2. PICK f \in Firmas : f = firme[w]
    BY TareaDe
  <1> DEFINE ks == {k \in Globales \cap Activos : modulo_id[k] = Ninguno}
             D == [s.dados EXCEPT !["ADMIN"] = @ \cup (ks \ grants[s.cliente]["ADMIN"])]
             t == [s EXCEPT !.paso = "exigir", !.pend = Plan, !.dados = D]
  <1>3. ks \in SUBSET Codigos /\ "ADMIN" \in Roles
    BY DEF Activos, Roles
  <1>4. D \in [Roles -> SUBSET Codigos]
    BY <1>3, DarType
  <1>5. t \in Tareas /\ t.op = s.op /\ t.cliente = s.cliente
    <2> HIDE DEF D
    <2> QED BY <1>4, PlanAssumption, ZenonT(60) DEF Tareas, Pasos
  <1>6. Globales \cap De(f, Ninguno) \subseteq ks
    BY <1>2, TareaDe DEF De, Vigentes
  <1>7. Bien(t, f)
    <2>1. /\ t.pend = Plan /\ t.filas = s.filas /\ t.dados = D /\ t.paso = "exigir"
          /\ t.rol = s.rol /\ t.lote = s.lote /\ t.modulo = s.modulo /\ t.faltan = s.faltan
      BY DEF Tareas
    <2>2. s.paso = "activar" /\ s.pend = {} /\ Bien(s, f)
      BY <1>1, <1>2, TareaDe DEF DarGlobales, T
    <2> HIDE DEF t, D, ks
    <2>3. ks \subseteq Da(t, "ADMIN")
      BY <1>3, <1>5, <2>1, DarDa DEF D
    <2>4. \A n : Con(s, n) => Con(t, n)
      BY <1>5, <2>1 DEF Con
    <2>5. Situado(t) /\ Basado(t, f)
      BY <1>5, <2>1, <2>2 DEF Bien, Situado, Basado, Tablero, Bootstrap
    <2>6. Equipado(t, f)
      BY <1>5, <1>6, <2>1, <2>2, <2>3, <2>4 DEF Bien, Equipado, Tablero, Tras
    <2> QED BY <2>5, <2>6 DEF Bien
  <1>8. tarea' = [tarea EXCEPT ![w] = t] /\ told' = told /\ UNCHANGED tenantVars
    BY <1>1 DEF DarGlobales, Avanza, T, Dar
  <1> HIDE DEF t
  <1> QED BY <1>1, <1>2, <1>5, <1>7, <1>8, TareaDe, PasoPropio

LEMMA ExigirSigue ==
    ASSUME Inv, Recordar, UNCHANGED syncVars, NEW w \in Workers, NEW m \in Modulos,
           Exigir(w, m)
    PROVE  Inv'
  <1>1. PICK s \in Tareas : s = tarea[w]
    BY TareaDe
  <1>2. PICK f \in Firmas : f = firme[w]
    BY TareaDe
  <1> DEFINE t == [s EXCEPT !.paso = "sincronizar", !.modulo = m]
  <1>3. t \in Tareas /\ t.op = s.op /\ t.cliente = s.cliente
    BY ZenonT(60) DEF Tareas, Pasos
  <1>4. Bien(t, f)
    <2>1. /\ t.pend = s.pend /\ t.filas = s.filas /\ t.dados = s.dados
          /\ t.paso = "sincronizar" /\ t.rol = s.rol /\ t.lote = s.lote
          /\ t.modulo = m /\ t.faltan = s.faltan
      BY DEF Tareas
    <2>2. s.paso = "exigir" /\ Bien(s, f)
      BY <1>1, <1>2, TareaDe DEF Exigir, T
    <2> HIDE DEF t
    <2>3. Situado(t) /\ Basado(t, f)
      BY <1>3, <2>1, <2>2 DEF Bien, Situado, Basado, Tablero, Bootstrap
    <2>4. Equipado(t, f)
      BY <1>3, <2>1, <2>2 DEF Bien, Equipado, Tablero, Tras, Da, Con
    <2> QED BY <2>3, <2>4 DEF Bien
  <1>5. tarea' = [tarea EXCEPT ![w] = t] /\ told' = told /\ UNCHANGED tenantVars
    BY <1>1 DEF Exigir, Avanza, T
  <1> HIDE DEF t
  <1> QED BY <1>1, <1>2, <1>3, <1>4, <1>5, TareaDe, PasoPropio

\* Every code that has been valid with the module all along is in the join.
LEMMA SincronizarModuloSigue ==
    ASSUME Inv, Recordar, UNCHANGED syncVars, NEW w \in Workers, SincronizarModulo(w)
    PROVE  Inv'
  <1>1. PICK s \in Tareas : s = tarea[w]
    BY TareaDe
  <1>2. PICK f \in Firmas : f = firme[w]
    BY TareaDe
  <1> DEFINE ks == DeModulo(s.modulo)
             D == [s.dados EXCEPT !["ADMIN"] = @ \cup (ks \ grants[s.cliente]["ADMIN"])]
             t == [s EXCEPT !.paso = "exigir", !.pend = @ \ {s.modulo}, !.modulo = Ninguno,
                            !.dados = D]
  <1>3. ks \in SUBSET Codigos /\ "ADMIN" \in Roles
    BY DEF DeModulo, Activos, Roles
  <1>4. D \in [Roles -> SUBSET Codigos]
    BY <1>3, DarType
  <1>5. t \in Tareas /\ t.op = s.op /\ t.cliente = s.cliente
    <2>1. s.pend \ {s.modulo} \in SUBSET Modulos
      BY DEF Tareas
    <2> HIDE DEF D
    <2> QED BY <1>4, <2>1, ZenonT(60) DEF Tareas, Pasos
  <1>6. s.paso = "sincronizar" /\ Bien(s, f) /\ s.modulo \in Modulos
    BY <1>1, <1>2, TareaDe DEF SincronizarModulo, T, Bien, Situado
  <1>7. De(f, s.modulo) \subseteq ks
    BY <1>2, <1>6, TareaDe, CodigosAssumption DEF De, DeModulo, Vigentes
  <1>8. Bien(t, f)
    <2>1. /\ t.pend = s.pend \ {s.modulo} /\ t.filas = s.filas /\ t.dados = D
          /\ t.paso = "exigir" /\ t.rol = s.rol /\ t.lote = s.lote /\ t.faltan = s.faltan
      BY DEF Tareas
    <2> HIDE DEF t, D, ks
    <2>2. ks \subseteq Da(t, "ADMIN") /\ Da(s, "ADMIN") \subseteq Da(t, "ADMIN")
      BY <1>3, <1>5, <2>1, DarDa DEF D
    <2>3. \A n : Con(s, n) => Con(t, n)
      BY <1>5, <2>1 DEF Con
    <2>4. Situado(t) /\ Basado(t, f)
      BY <1>5, <1>6, <2>1 DEF Bien, Situado, Basado, Tablero, Bootstrap
    <2>5. ASSUME s.op \in Bootstrap, NEW m \in Plan \ t.pend
          PROVE  De(f, m) \subseteq Da(t, "ADMIN")
      <3>1. CASE m = s.modulo
        BY <1>7, <2>2, <3>1
      <3>2. CASE m # s.modulo
        <4>1. m \in Plan \ s.pend
          BY <2>1, <3>2
        <4>2. De(f, m) \subseteq Da(s, "ADMIN")
          BY <1>6, <2>5, <4>1 DEF Bien, Equipado
        <4> QED BY <2>2, <4>2
      <3> QED BY <3>1, <3>2
    <2>6. s.op \in Bootstrap => /\ \A m \in Plan : Con(t, m)
                               /\ Globales \cap De(f, Ninguno) \subseteq Da(t, "ADMIN")
      BY <1>6, <2>2, <2>3 DEF Bien, Equipado, Tras
    <2>7. Equipado(t, f)
      BY <1>5, <2>1, <2>5, <2>6 DEF Equipado, Tablero
    <2> QED BY <2>4, <2>7 DEF Bien
  <1>9. tarea' = [tarea EXCEPT ![w] = t] /\ told' = told /\ UNCHANGED tenantVars
    BY <1>1 DEF SincronizarModulo, Avanza, T, Dar
  <1> HIDE DEF t
  <1> QED BY <1>1, <1>2, <1>5, <1>8, <1>9, TareaDe, PasoPropio

LEMMA SincronizadosTodosSigue ==
    ASSUME Inv, Recordar, UNCHANGED syncVars, NEW w \in Workers, SincronizadosTodos(w)
    PROVE  Inv'
  <1>1. PICK s \in Tareas : s = tarea[w]
    BY TareaDe
  <1>2. PICK f \in Firmas : f = firme[w]
    BY TareaDe
  <1> DEFINE t == [s EXCEPT !.paso = "ver", !.lote = "base", !.rol = "MANAGER"]
  <1>3. t \in Tareas /\ t.op = s.op /\ t.cliente = s.cliente
    BY ZenonT(60) DEF Tareas, Pasos, Roles
  <1>4. Bien(t, f)
    <2>1. /\ t.pend = s.pend /\ t.filas = s.filas /\ t.dados = s.dados
          /\ t.paso = "ver" /\ t.rol = "MANAGER" /\ t.lote = "base"
      BY DEF Tareas
    <2>2. s.paso = "exigir" /\ s.pend = {} /\ Bien(s, f)
      BY <1>1, <1>2, TareaDe DEF SincronizadosTodos, T
    <2> HIDE DEF t
    <2>3. Situado(t)
      BY <1>3, <2>1, <2>2 DEF Bien, Situado, Tablero, Bootstrap, Operativos
    <2>4. Basado(t, f)
      BY <1>3, <2>1, <2>2 DEF Bien, Situado, Basado, Pasada, Operativos, Bootstrap
    <2>5. Equipado(t, f)
      BY <1>3, <2>1, <2>2 DEF Bien, Equipado, Tablero, Tras, Da, Con
    <2> QED BY <2>3, <2>4, <2>5 DEF Bien
  <1>5. tarea' = [tarea EXCEPT ![w] = t] /\ told' = told /\ UNCHANGED tenantVars
    BY <1>1 DEF SincronizadosTodos, Avanza, T
  <1> HIDE DEF t
  <1> QED BY <1>1, <1>2, <1>3, <1>4, <1>5, TareaDe, PasoPropio

-----------------------------------------------------------------------------
(***************************************************************************)
(* The bundles.                                                            *)
(***************************************************************************)
\* Where a task goes after a bundle, with everything it has.
LEMMA SiguienteCasos ==
    ASSUME NEW s \in Tareas, s.op \in Bootstrap \cup {"asegurar"}, s.rol \in Operativos,
           s.lote \in {"base", "estandar"}
    PROVE  /\ Siguiente(s) \in Tareas
           /\ Siguiente(s).op = s.op /\ Siguiente(s).cliente = s.cliente
           /\ Siguiente(s).filas = s.filas /\ Siguiente(s).dados = s.dados
           /\ \/ s.op = "asegurar" /\ Siguiente(s).paso = "fin"
                 /\ Siguiente(s).rol = s.rol /\ Siguiente(s).lote = s.lote
              \/ s.op \in Bootstrap /\ s.rol = "MANAGER" /\ Siguiente(s).paso = "ver"
                 /\ Siguiente(s).rol = "USER" /\ Siguiente(s).lote = s.lote
              \/ s.op \in Bootstrap /\ s.rol = "USER" /\ s.lote = "base"
                 /\ Siguiente(s).paso = "ver"
                 /\ Siguiente(s).rol = "MANAGER" /\ Siguiente(s).lote = "estandar"
              \/ s.op \in Bootstrap /\ s.rol = "USER" /\ s.lote = "estandar"
                 /\ Siguiente(s).paso = "fin"
                 /\ Siguiente(s).rol = s.rol /\ Siguiente(s).lote = s.lote
  <1>1. CASE s.op = "asegurar"
    <2>1. Siguiente(s) = [s EXCEPT !.paso = "fin", !.faltan = {}]
      BY <1>1 DEF Siguiente
    <2>2. [s EXCEPT !.paso = "fin", !.faltan = {}] \in Tareas
      BY ZenonT(60) DEF Tareas, Pasos
    <2> QED BY <1>1, <2>1, <2>2 DEF Tareas
  <1>2. CASE s.op # "asegurar" /\ s.rol = "MANAGER"
    <2>1. Siguiente(s) = [s EXCEPT !.paso = "ver", !.lote = s.lote, !.rol = "USER", !.faltan = {}]
      BY <1>2 DEF Siguiente
    <2>2. s.lote \in {"", "base", "estandar"}
      BY DEF Tareas
    <2>3. [s EXCEPT !.paso = "ver", !.lote = s.lote, !.rol = "USER", !.faltan = {}] \in Tareas
      BY <2>2, ZenonT(60) DEF Tareas, Pasos, Roles
    <2> QED BY <1>2, <2>1, <2>3 DEF Tareas
  <1>3. CASE s.op # "asegurar" /\ s.rol = "USER" /\ s.lote = "base"
    <2>1. Siguiente(s) = [s EXCEPT !.paso = "ver", !.lote = "estandar", !.rol = "MANAGER",
                                   !.faltan = {}]
      BY <1>3 DEF Siguiente
    <2>2. [s EXCEPT !.paso = "ver", !.lote = "estandar", !.rol = "MANAGER", !.faltan = {}]
              \in Tareas
      BY ZenonT(60) DEF Tareas, Pasos, Roles
    <2> QED BY <1>3, <2>1, <2>2 DEF Tareas
  <1>4. CASE s.op # "asegurar" /\ s.rol = "USER" /\ s.lote = "estandar"
    <2>1. Siguiente(s) = [s EXCEPT !.paso = "fin", !.faltan = {}]
      BY <1>4 DEF Siguiente
    <2>2. [s EXCEPT !.paso = "fin", !.faltan = {}] \in Tareas
      BY ZenonT(60) DEF Tareas, Pasos
    <2> QED BY <1>4, <2>1, <2>2 DEF Tareas
  <1> QED BY <1>1, <1>2, <1>3, <1>4 DEF Operativos

\* A task that has given (or may skip) its bundle is as good at the next one.
LEMMA SiguienteBien ==
    ASSUME NEW s \in Tareas, NEW f \in Firmas, s.paso \in Tablero \ {"fin"},
           Situado(s), Equipado(s, f),
           s.op \in Bootstrap =>
               \A r \in Operativos : Pasada(s, r) => Base \cap f.codigos \subseteq Da(s, r),
           s.lote = "base" => Base \cap f.codigos \subseteq Da(s, s.rol),
           s.op = "asegurar" /\ s.lote = "estandar" =>
               Base \cap f.codigos \subseteq grants[s.cliente][s.rol]
    PROVE  /\ Siguiente(s) \in Tareas
           /\ Siguiente(s).op = s.op /\ Siguiente(s).cliente = s.cliente
           /\ Bien(Siguiente(s), f)
  <1>1. /\ s.op \in Bootstrap \cup {"asegurar"} /\ s.rol \in Operativos
        /\ s.lote \in {"base", "estandar"}
    BY DEF Situado
  <1>2. PICK t : t = Siguiente(s)
    OBVIOUS
  <1>3. /\ t \in Tareas /\ t.op = s.op /\ t.cliente = s.cliente
        /\ t.filas = s.filas /\ t.dados = s.dados /\ t.paso \in {"ver", "fin"}
        /\ t.rol \in Operativos /\ t.lote \in {"base", "estandar"}
    BY <1>1, <1>2, SiguienteCasos DEF Operativos
  <1>4. Situado(t)
    BY <1>1, <1>3 DEF Situado, Tablero, Bootstrap
  <1>5. Equipado(t, f)
    BY <1>3 DEF Equipado, Tablero, Tras, Da, Con
  <1>6. \A r \in Operativos : Da(t, r) = Da(s, r)
    BY <1>3 DEF Da
  <1>7. CASE s.op = "asegurar"
    <2>1. t.paso = "fin" /\ t.rol = s.rol /\ t.lote = s.lote
      BY <1>1, <1>2, <1>7, SiguienteCasos DEF Bootstrap
    <2>2. Base \cap f.codigos \subseteq Da(t, t.rol)
      BY <1>1, <1>3, <1>6, <1>7, <2>1 DEF Da
    <2> QED BY <1>2, <1>3, <1>4, <1>5, <1>7, <2>1, <2>2 DEF Bien, Basado, Bootstrap
  <1>8. CASE s.op \in Bootstrap
    <2>1. ASSUME NEW r \in Operativos, Pasada(t, r)
          PROVE  Pasada(s, r) \/ (s.lote = "base" /\ r = s.rol)
      BY <1>1, <1>2, <1>8, <2>1, SiguienteCasos DEF Pasada, Operativos, Bootstrap
    <2>2. \A r \in Operativos : Pasada(t, r) => Base \cap f.codigos \subseteq Da(t, r)
      BY <1>6, <1>8, <2>1
    <2> QED BY <1>2, <1>3, <1>4, <1>5, <1>8, <2>2 DEF Bien, Basado, Bootstrap
  <1> QED BY <1>1, <1>7, <1>8

LEMMA VerLoteSigue ==
    ASSUME Inv, Recordar, UNCHANGED syncVars, NEW w \in Workers, VerLote(w)
    PROVE  Inv'
  <1>1. PICK s \in Tareas : s = tarea[w]
    BY TareaDe
  <1>2. PICK f \in Firmas : f = firme[w]
    BY TareaDe
  <1>3. PICK ks : ks = Faltan(w)
    OBVIOUS
  <1>4. ks \in SUBSET Codigos
    BY <1>3, PlanAssumption DEF Faltan, Activos
  <1> DEFINE p == IF s.lote = "base" THEN "validar" ELSE "poner"
             t == [s EXCEPT !.paso = p, !.faltan = ks]
  <1>5. t \in Tareas /\ t.op = s.op /\ t.cliente = s.cliente
    <2>1. p \in Pasos
      BY DEF Pasos
    <2> HIDE DEF p
    <2> QED BY <1>4, <2>1, ZenonT(60) DEF Tareas
  <1>6. Bien(t, f)
    <2>1. /\ t.pend = s.pend /\ t.filas = s.filas /\ t.dados = s.dados /\ t.modulo = s.modulo
          /\ t.paso = p /\ t.rol = s.rol /\ t.lote = s.lote /\ t.faltan = ks
      BY DEF Tareas
    <2>2. s.paso = "ver" /\ Bien(s, f)
      BY <1>1, <1>2, TareaDe DEF VerLote, T
    <2>3. s.lote = "base" => Base \cap f.codigos \subseteq ks \cup Da(s, s.rol)
      BY <1>1, <1>3 DEF Faltan, T, Otorgados, Da
    <2>4. p \in {"validar", "poner"}
      OBVIOUS
    <2> HIDE DEF t, p
    <2>5. Situado(t)
      BY <1>5, <2>1, <2>2, <2>4 DEF Bien, Situado, Tablero, Bootstrap
    <2>6. Equipado(t, f)
      BY <1>5, <2>1, <2>2, <2>4 DEF Bien, Equipado, Tablero, Tras, Da, Con
    <2>7. Basado(t, f)
      BY <1>5, <2>1, <2>2, <2>3, <2>4 DEF Bien, Basado, Pasada, Tablero, Da
    <2> QED BY <2>5, <2>6, <2>7 DEF Bien
  <1>7. tarea' = [tarea EXCEPT ![w] = t] /\ told' = told /\ UNCHANGED tenantVars
    BY <1>1, <1>3 DEF VerLote, Avanza, T
  <1> HIDE DEF t
  <1> QED BY <1>1, <1>2, <1>5, <1>6, <1>7, TareaDe, PasoPropio

LEMMA ValidarLoteSigue ==
    ASSUME Inv, Recordar, UNCHANGED syncVars, NEW w \in Workers, ValidarLote(w)
    PROVE  Inv'
  <1>1. PICK s \in Tareas : s = tarea[w]
    BY TareaDe
  <1>2. PICK f \in Firmas : f = firme[w]
    BY TareaDe
  <1> DEFINE t == [s EXCEPT !.paso = "poner"]
  <1>3. t \in Tareas /\ t.op = s.op /\ t.cliente = s.cliente
    BY ZenonT(60) DEF Tareas, Pasos
  <1>4. Bien(t, f)
    <2>1. /\ t.pend = s.pend /\ t.filas = s.filas /\ t.dados = s.dados /\ t.modulo = s.modulo
          /\ t.paso = "poner" /\ t.rol = s.rol /\ t.lote = s.lote /\ t.faltan = s.faltan
      BY DEF Tareas
    <2>2. s.paso = "validar" /\ Bien(s, f)
      BY <1>1, <1>2, TareaDe DEF ValidarLote, T
    <2> HIDE DEF t
    <2>3. Situado(t)
      BY <1>3, <2>1, <2>2 DEF Bien, Situado, Tablero, Bootstrap
    <2>4. Equipado(t, f)
      BY <1>3, <2>1, <2>2 DEF Bien, Equipado, Tablero, Tras, Da, Con
    <2>5. Basado(t, f)
      BY <1>3, <2>1, <2>2 DEF Bien, Basado, Pasada, Tablero, Da
    <2> QED BY <2>3, <2>4, <2>5 DEF Bien
  <1>5. tarea' = [tarea EXCEPT ![w] = t] /\ told' = told /\ UNCHANGED tenantVars
    BY <1>1 DEF ValidarLote, Avanza, T
  <1> HIDE DEF t
  <1> QED BY <1>1, <1>2, <1>3, <1>4, <1>5, TareaDe, PasoPropio

\* Of the codes that were lacking, the ones active all along are inserted.
LEMMA PonerLoteSigue ==
    ASSUME Inv, Recordar, UNCHANGED syncVars, NEW w \in Workers, PonerLote(w)
    PROVE  Inv'
  <1>1. PICK s \in Tareas : s = tarea[w]
    BY TareaDe
  <1>2. PICK f \in Firmas : f = firme[w]
    BY TareaDe
  <1> DEFINE ks == s.faltan \cap Activos
             D == [s.dados EXCEPT ![s.rol] = @ \cup (ks \ grants[s.cliente][s.rol])]
             u == [s EXCEPT !.dados = D]
  <1>3. ks \in SUBSET Codigos /\ s.rol \in Roles
    BY DEF Activos, Tareas
  <1>4. D \in [Roles -> SUBSET Codigos]
    BY <1>3, DarType
  <1>5. u \in Tareas /\ u.op = s.op /\ u.cliente = s.cliente
    <2> HIDE DEF D
    <2> QED BY <1>4, ZenonT(60) DEF Tareas
  <1>6. /\ u.pend = s.pend /\ u.filas = s.filas /\ u.dados = D /\ u.modulo = s.modulo
        /\ u.paso = s.paso /\ u.rol = s.rol /\ u.lote = s.lote /\ u.faltan = s.faltan
    BY DEF Tareas
  <1>7. s.paso = "poner" /\ Bien(s, f) /\ f.codigos \subseteq Activos
    BY <1>1, <1>2, TareaDe DEF PonerLote, T
  <1>8. tarea' = [tarea EXCEPT ![w] = Siguiente(u)] /\ told' = told /\ UNCHANGED tenantVars
    BY <1>1 DEF PonerLote, Avanza, T, Dar
  <1>9. s.faltan \cap f.codigos \subseteq ks
    BY <1>7
  <1> HIDE DEF u, D, ks
  <1>10. /\ \A q \in Roles : Da(s, q) \subseteq Da(u, q)
         /\ ks \subseteq Da(u, s.rol)
    BY <1>3, <1>5, <1>6, DarDa DEF D
  <1>11. Situado(u)
    BY <1>5, <1>6, <1>7 DEF Bien, Situado
  <1>12. Equipado(u, f)
    <2>1. "ADMIN" \in Roles
      BY DEF Roles
    <2> QED BY <1>5, <1>6, <1>7, <1>10, <2>1 DEF Bien, Equipado, Con
  <1>13. s.op \in Bootstrap =>
             \A r \in Operativos : Pasada(u, r) => Base \cap f.codigos \subseteq Da(u, r)
    <2>1. Operativos \subseteq Roles
      BY DEF Operativos, Roles
    <2> QED BY <1>6, <1>7, <1>10, <2>1 DEF Bien, Basado, Pasada, Tablero
  <1>14. s.lote = "base" => Base \cap f.codigos \subseteq Da(u, s.rol)
    BY <1>3, <1>7, <1>9, <1>10 DEF Bien, Basado
  <1>15. s.op = "asegurar" /\ s.lote = "estandar" =>
             Base \cap f.codigos \subseteq grants[s.cliente][s.rol]
    BY <1>7 DEF Bien, Basado
  <1>16. u.paso \in Tablero \ {"fin"}
    BY <1>6, <1>7 DEF Tablero
  <1>17. PICK t : t = Siguiente(u)
    OBVIOUS
  <1>18. t \in Tareas /\ t.op = s.op /\ t.cliente = s.cliente /\ Bien(t, f)
    BY <1>5, <1>6, <1>11, <1>12, <1>13, <1>14, <1>15, <1>16, <1>17, SiguienteBien
  <1> QED BY <1>1, <1>2, <1>8, <1>17, <1>18, TareaDe, PasoPropio

LEMMA SaltarLoteSigue ==
    ASSUME Inv, Recordar, UNCHANGED syncVars, NEW w \in Workers, SaltarLote(w)
    PROVE  Inv'
  <1>1. PICK s \in Tareas : s = tarea[w]
    BY TareaDe
  <1>2. PICK f \in Firmas : f = firme[w]
    BY TareaDe
  <1>3. /\ s.paso \in {"ver", "poner"} /\ s.lote = "estandar" /\ Bien(s, f)
        /\ s.op # "asegurar"
    BY <1>1, <1>2, TareaDe DEF SaltarLote, T
  <1>4. s.paso \in Tablero \ {"fin"}
    BY <1>3 DEF Tablero
  <1>5. PICK t : t = Siguiente(s)
    OBVIOUS
  <1>6. t \in Tareas /\ t.op = s.op /\ t.cliente = s.cliente /\ Bien(t, f)
    BY <1>3, <1>4, <1>5, SiguienteBien DEF Bien, Basado
  <1>7. tarea' = [tarea EXCEPT ![w] = t] /\ told' = told /\ UNCHANGED tenantVars
    BY <1>1, <1>5 DEF SaltarLote, Avanza, T
  <1> QED BY <1>1, <1>2, <1>6, <1>7, TareaDe, PasoPropio

-----------------------------------------------------------------------------
(***************************************************************************)
(* How transactions end.                                                   *)
(***************************************************************************)
LEMMA EscritoSigue ==
    ASSUME Inv, NEW w \in Workers, NEW s \in Tareas, s = tarea[w], s.cliente \in Clientes,
           s.op = "alta" \/ s.cliente \in clientes, Escrito(w)
    PROVE  /\ clientes' \in SUBSET Clientes /\ contrato' \in Contratos /\ grants' \in Concesiones
           /\ Crece
           /\ clientes' = clientes \cup {s.cliente}
           /\ \A m \in Modulos : Con(s, m) => contrato'[s.cliente][m] # "no"
           /\ \A r \in Roles : grants'[s.cliente][r] = Da(s, r)
           /\ \A v \in Workers \ {w} : tarea[v].cliente \in clientes' <=> tarea[v].cliente \in clientes
  <1>1. /\ clientes \in SUBSET Clientes /\ contrato \in Contratos /\ grants \in Concesiones
    BY DEF Inv, TypeOK, Contratos, Concesiones, Estados
  <1>2. /\ clientes' = clientes \cup {s.cliente}
        /\ contrato' = [contrato EXCEPT ![s.cliente] =
                           [m \in Modulos |-> IF m \in s.filas THEN "activo" ELSE @[m]]]
        /\ grants' = [grants EXCEPT ![s.cliente] = [r \in Roles |-> @[r] \cup s.dados[r]]]
    BY DEF Escrito, T
  <1>3. s.dados \in [Roles -> SUBSET Codigos]
    BY DEF Tareas
  <1>4. contrato' \in Contratos
    <2>1. [m \in Modulos |-> IF m \in s.filas THEN "activo" ELSE contrato[s.cliente][m]]
              \in [Modulos -> Estados]
      BY <1>1 DEF Contratos, Estados
    <2> QED BY <1>1, <1>2, <2>1 DEF Contratos
  <1>5. grants' \in Concesiones
    <2>1. [r \in Roles |-> grants[s.cliente][r] \cup s.dados[r]] \in [Roles -> SUBSET Codigos]
      BY <1>1, <1>3 DEF Concesiones
    <2> QED BY <1>1, <1>2, <2>1 DEF Concesiones
  <1>6. \A m \in Modulos :
            contrato'[s.cliente][m] = IF m \in s.filas THEN "activo" ELSE contrato[s.cliente][m]
    BY <1>1, <1>2 DEF Contratos
  <1>7. \A r \in Roles : grants'[s.cliente][r] = grants[s.cliente][r] \cup s.dados[r]
    BY <1>1, <1>2 DEF Concesiones
  <1>8. \A c \in Clientes \ {s.cliente} : contrato'[c] = contrato[c] /\ grants'[c] = grants[c]
    BY <1>1, <1>2 DEF Contratos, Concesiones
  <1>9. Crece
    BY <1>6, <1>7, <1>8 DEF Crece
  <1>10. \A v \in Workers \ {w} : tarea[v].cliente \in clientes' <=> tarea[v].cliente \in clientes
    BY <1>2 DEF Inv, Unicos
  <1> QED BY <1>1, <1>2, <1>4, <1>5, <1>6, <1>7, <1>9, <1>10 DEF Con, Da

\* A worker that is through with its task.
LEMMA Acaba ==
    ASSUME Inv, Recordar, SyncTypeOK', Crece, NEW w \in Workers,
           tarea' = [tarea EXCEPT ![w] = Libre], told' \in [Workers -> Respuestas],
           clientes' \in SUBSET Clientes, contrato' \in Contratos, grants' \in Concesiones,
           \A v \in Workers \ {w} : tarea[v].cliente \in clientes' <=> tarea[v].cliente \in clientes
    PROVE  Inv'
  <1>1. PICK f \in Firmas : f = firme[w]
    BY TareaDe
  <1>2. Libre.op # "alta" /\ Libre.cliente = Ninguno
    BY DEF Libre
  <1>3. \A v \in Workers \ {w} : Libre.op = "alta" \/ tarea[v].op = "alta" =>
               tarea[v].cliente # Libre.cliente
    BY <1>2, PlanAssumption DEF Inv, Todos, Bien, Situado
  <1> QED BY <1>1, <1>3, LibreType, UnPaso

LEMMA Quieto ==
    ASSUME Inv, UNCHANGED tenantVars
    PROVE  /\ Crece
           /\ clientes' \in SUBSET Clientes /\ contrato' \in Contratos /\ grants' \in Concesiones
           /\ \A v \in Workers : tarea[v].cliente \in clientes' <=> tarea[v].cliente \in clientes
  BY DEF tenantVars, Crece, Inv, TypeOK, Contratos, Concesiones, Estados

LEMMA ToldType ==
    ASSUME Inv, NEW w \in Workers, NEW a \in Respuestas,
           told' = [told EXCEPT ![w] = a] \/ told' = told
    PROVE  told' \in [Workers -> Respuestas]
  BY TareaDe DEF Inv, TypeOK, Respuestas

LEMMA SyncQuieto ==
    ASSUME SyncTypeOK, UNCHANGED syncVars PROVE SyncTypeOK'
  BY DEF SyncTypeOK, syncVars, tablas, arranque

LEMMA ConfirmarSigue ==
    ASSUME Inv, Recordar, UNCHANGED syncVars, NEW w \in Workers, Confirmar(w)
    PROVE  Inv'
  <1>1. PICK s \in Tareas : s = tarea[w]
    BY TareaDe
  <1>2. PICK f \in Firmas : f = firme[w]
    BY TareaDe
  <1>3. s.paso = "fin" /\ Bien(s, f) /\ Escrito(w)
    BY <1>1, <1>2, TareaDe DEF Confirmar, T
  <1>4. /\ s.op \in Bootstrap \cup {"asegurar"} /\ s.rol \in Operativos
        /\ s.cliente \in Clientes /\ (s.op = "alta" \/ s.cliente \in clientes)
    BY <1>3 DEF Bien, Situado, Tablero, Bootstrap, Ops
  <1>5. /\ clientes' \in SUBSET Clientes /\ contrato' \in Contratos /\ grants' \in Concesiones
        /\ Crece
        /\ clientes' = clientes \cup {s.cliente}
        /\ \A r \in Roles : grants'[s.cliente][r] = Da(s, r)
        /\ \A v \in Workers \ {w} : tarea[v].cliente \in clientes' <=> tarea[v].cliente \in clientes
    BY <1>1, <1>3, <1>4, EscritoSigue
  <1>6. SyncTypeOK'
    BY SyncQuieto DEF Inv, TypeOK
  <1>7. CASE s.op = "asegurar" /\ s.lote = "base"
    <2> DEFINE t == [Libre EXCEPT !.op = "asegurar", !.cliente = s.cliente, !.paso = "ver",
                                  !.lote = "estandar", !.rol = s.rol]
    <2>1. /\ t.op = "asegurar" /\ t.cliente = s.cliente /\ t.paso = "ver"
          /\ t.lote = "estandar" /\ t.rol = s.rol
      BY DEF Libre
    <2>2. t \in Tareas
      <3>1. s.rol \in Roles
        BY DEF Tareas
      <3> QED BY <1>4, <3>1, LibreType, ZenonT(60) DEF Tareas, Ops, Pasos
    <2>3. tarea' = [tarea EXCEPT ![w] = t] /\ told' = told
      BY <1>1, <1>7 DEF Confirmar, Avanza, T
    <2> HIDE DEF t
    <2>4. s.rol \in Roles /\ Base \cap f.codigos \subseteq Da(s, s.rol)
      BY <1>3, <1>4, <1>7 DEF Bien, Basado, Tareas
    <2>5. Bien(t, f)'
      <3>1. Situado(t)'
        BY <1>4, <1>5, <2>1 DEF Situado, Tablero, Bootstrap
      <3>2. Base \cap f.codigos \subseteq grants'[t.cliente][t.rol]
        BY <1>5, <2>1, <2>4
      <3> QED BY <2>1, <3>1, <3>2 DEF Bien, Equipado, Basado, Bootstrap
    <2>6. \A v \in Workers \ {w} : t.op = "alta" \/ tarea[v].op = "alta" =>
               tarea[v].cliente # t.cliente
      BY <1>1, <2>1 DEF Inv, Unicos
    <2>7. told' \in [Workers -> Respuestas]
      BY <2>3, TareaDe
    <2> QED BY <1>2, <1>5, <1>6, <2>2, <2>3, <2>5, <2>6, <2>7, UnPaso
  <1>8. CASE ~(s.op = "asegurar" /\ s.lote = "base")
    <2>1. tarea' = [tarea EXCEPT ![w] = Libre] /\ told' = [told EXCEPT ![w] = "ok"]
      BY <1>1, <1>8 DEF Confirmar, Terminar, Avanza, T
    <2>2. told' \in [Workers -> Respuestas]
      BY <2>1, ToldType DEF Respuestas
    <2> QED BY <1>5, <1>6, <2>1, <2>2, Acaba
  <1> QED BY <1>7, <1>8

LEMMA FallarSigue ==
    ASSUME Inv, Recordar, UNCHANGED syncVars, NEW w \in Workers, Fallar(w)
    PROVE  Inv'
  <1>1. SyncTypeOK'
    BY SyncQuieto DEF Inv, TypeOK
  <1>2. tarea' = [tarea EXCEPT ![w] = Libre] /\ UNCHANGED tenantVars
    BY DEF Fallar, Terminar, Avanza
  <1>3. told' \in [Workers -> Respuestas]
    BY ToldType DEF Fallar, Terminar, Respuestas
  <1> QED BY <1>1, <1>2, <1>3, Quieto, Acaba

LEMMA FallarReparandoSigue ==
    ASSUME Inv, Recordar, UNCHANGED syncVars, NEW w \in Workers, FallarReparando(w)
    PROVE  Inv'
  <1>1. PICK s \in Tareas : s = tarea[w]
    BY TareaDe
  <1>2. s.op = "reparar" /\ Escrito(w) /\ Bien(s, firme[w])
    BY <1>1, TareaDe DEF FallarReparando, T
  <1>3. s.cliente \in Clientes /\ s.cliente \in clientes
    BY <1>2 DEF Bien, Situado, Ops
  <1>4. SyncTypeOK'
    BY SyncQuieto DEF Inv, TypeOK
  <1>5. tarea' = [tarea EXCEPT ![w] = Libre] /\ told' = [told EXCEPT ![w] = "failed"]
    BY DEF FallarReparando, Terminar, Avanza
  <1>6. told' \in [Workers -> Respuestas]
    BY <1>5, ToldType DEF Respuestas
  <1>7. /\ clientes' \in SUBSET Clientes /\ contrato' \in Contratos /\ grants' \in Concesiones
        /\ Crece
        /\ \A v \in Workers \ {w} : tarea[v].cliente \in clientes' <=> tarea[v].cliente \in clientes
    BY <1>1, <1>2, <1>3, EscritoSigue
  <1> QED BY <1>4, <1>5, <1>6, <1>7, Acaba

\* A contract is written: never "no".
LEMMA FijaSigue ==
    ASSUME Inv, Recordar, UNCHANGED syncVars, NEW w \in Workers,
           tarea[w].op \in {"contratar", "cancelar"}, NEW e \in {"activo", "inactivo"},
           Fija(w, e), Terminar(w, "ok"), UNCHANGED <<clientes, grants>>
    PROVE  Inv'
  <1>1. PICK s \in Tareas : s = tarea[w]
    BY TareaDe
  <1>2. s.cliente \in Clientes /\ s.modulo \in Modulos
    BY <1>1, TareaDe DEF Bien, Situado
  <1>3. contrato \in Contratos /\ grants \in Concesiones /\ clientes \in SUBSET Clientes
    BY DEF Inv, TypeOK, Contratos, Concesiones, Estados
  <1>4. contrato' = [contrato EXCEPT ![s.cliente][s.modulo] = e]
    BY <1>1 DEF Fija, T
  <1>5. contrato' \in Contratos
    BY <1>2, <1>3, <1>4 DEF Contratos, Estados
  <1>6. Crece
    BY <1>2, <1>3, <1>4 DEF Crece, Contratos
  <1>7. SyncTypeOK'
    BY SyncQuieto DEF Inv, TypeOK
  <1>8. tarea' = [tarea EXCEPT ![w] = Libre] /\ told' \in [Workers -> Respuestas]
    BY ToldType DEF Terminar, Avanza, Respuestas
  <1> QED BY <1>3, <1>5, <1>6, <1>7, <1>8, Acaba

LEMMA QuitarSigue ==
    ASSUME Inv, Recordar, NEW w \in Workers, Quitar(w)
    PROVE  Inv'
  <1>1. SyncTypeOK'
    BY DEF Inv, TypeOK, SyncTypeOK, Quitar, tablas, arranque
  <1>2. tarea' = [tarea EXCEPT ![w] = Libre] /\ UNCHANGED tenantVars
    BY DEF Quitar, Terminar, Avanza
  <1>3. told' \in [Workers -> Respuestas]
    BY ToldType DEF Quitar, Terminar, Respuestas
  <1> QED BY <1>1, <1>2, <1>3, Quieto, Acaba

-----------------------------------------------------------------------------
(***************************************************************************)
(* How they begin.                                                         *)
(***************************************************************************)
LEMMA BeginSigue ==
    ASSUME Inv, Recordar, UNCHANGED <<syncVars, tenantVars>>, NEW w \in Workers,
           NEW t \in Tareas, Begin(w, t), Situado(t),
           t.paso \in {"", "catalogo", "insertar", "actualizar"}
               \/ (t.op = "asegurar" /\ t.paso = "ver" /\ t.lote = "base"),
           t.op = "alta" => \A v \in Workers : tarea[v].cliente # t.cliente,
           t.op \in Bootstrap => t.paso = "catalogo",
           t.op = "asegurar" => t.lote = "base"
    PROVE  Inv'
  <1> USE DEF syncVars, tenantVars, tablas, arranque
  <1>1. PICK f \in Firmas : f = firme[w]
    BY TareaDe
  <1>2. Bien(t, f)
    BY DEF Bien, Equipado, Basado, Tablero, Tras, Bootstrap
  <1>3. Bien(t, f)'
    BY <1>2 DEF Bien, Situado, Equipado, Basado, Da, Con
  <1>4. SyncTypeOK'
    BY DEF Inv, TypeOK, SyncTypeOK
  <1>5. tarea' = [tarea EXCEPT ![w] = t] /\ told' \in [Workers -> Respuestas]
    BY ToldType DEF Begin, Avanza, Respuestas
  <1>6. \A v \in Workers \ {w} : t.op = "alta" \/ tarea[v].op = "alta" =>
               tarea[v].cliente # t.cliente
    <2>1. ASSUME NEW v \in Workers, tarea[v].op = "alta", t.op # "alta"
          PROVE  tarea[v].cliente # t.cliente
      <3>1. tarea[v].cliente \notin clientes /\ tarea[v].cliente # Ninguno
        BY <2>1, TareaDe, PlanAssumption DEF Bien, Situado
      <3>2. t.cliente = Ninguno \/ t.cliente \in clientes
        BY <2>1 DEF Situado, Tareas
      <3> QED BY <3>1, <3>2
    <2> QED BY <2>1
  <1> QED BY <1>1, <1>3, <1>4, <1>5, <1>6, Quieto, UnPaso

LEMMA EmpezarSigue ==
    ASSUME Inv, Recordar, UNCHANGED syncVars, NEW w \in Workers, Empezar(w)
    PROVE  Inv'
  <1> USE DEF Libre, Situado, Bootstrap, Tablero, Ops
  <1>0. clientes \subseteq Clientes
    BY DEF Inv, TypeOK
  <1>1. ASSUME NEW c \in Clientes, BeginAlta(w, c) PROVE Inv'
    <2> DEFINE t == [Libre EXCEPT !.op = "alta", !.cliente = c, !.paso = "catalogo"]
    <2>1. t \in Tareas
      BY LibreType, ZenonT(60) DEF Tareas, Pasos
    <2>2. Begin(w, t) /\ UNCHANGED tenantVars /\ c \notin clientes
          /\ \A v \in Workers : tarea[v].cliente # c
      BY <1>1 DEF BeginAlta, T
    <2>3. Situado(t)
      BY <2>2
    <2>4. t.op = "alta" /\ t.cliente = c /\ t.paso = "catalogo"
      OBVIOUS
    <2> HIDE DEF t
    <2> QED BY <2>1, <2>2, <2>3, <2>4, BeginSigue
  <1>2. ASSUME NEW c \in Clientes, BeginReparar(w, c) PROVE Inv'
    <2> DEFINE t == [Libre EXCEPT !.op = "reparar", !.cliente = c, !.paso = "catalogo"]
    <2>1. t \in Tareas
      BY LibreType, ZenonT(60) DEF Tareas, Pasos
    <2>2. Begin(w, t) /\ UNCHANGED tenantVars /\ c \in clientes
      BY <1>2 DEF BeginReparar
    <2>3. Situado(t)
      BY <2>2
    <2>4. t.op = "reparar" /\ t.paso = "catalogo"
      OBVIOUS
    <2> HIDE DEF t
    <2> QED BY <2>1, <2>2, <2>3, <2>4, BeginSigue
  <1>3. ASSUME NEW c \in Clientes, NEW r \in Operativos, BeginAsegurar(w, c, r) PROVE Inv'
    <2> DEFINE t == [Libre EXCEPT !.op = "asegurar", !.cliente = c, !.paso = "ver",
                                  !.lote = "base", !.rol = r]
    <2>1. t \in Tareas
      <3>1. r \in Roles
        BY DEF Operativos, Roles
      <3> QED BY <3>1, LibreType, ZenonT(60) DEF Tareas, Pasos
    <2>2. Begin(w, t) /\ UNCHANGED tenantVars /\ c \in clientes
      BY <1>3 DEF BeginAsegurar
    <2>3. Situado(t)
      BY <2>2
    <2>4. t.op = "asegurar" /\ t.paso = "ver" /\ t.lote = "base"
      OBVIOUS
    <2> HIDE DEF t
    <2> QED BY <2>1, <2>2, <2>3, <2>4, BeginSigue
  <1>4. ASSUME NEW c \in Clientes, NEW m \in Modulos, BeginContratar(w, c, m) PROVE Inv'
    <2> DEFINE p == IF contrato[c][m] = "no" THEN "insertar" ELSE "actualizar"
               t == [Libre EXCEPT !.op = "contratar", !.cliente = c, !.modulo = m, !.paso = p]
    <2>1. t \in Tareas
      <3>1. p \in Pasos
        BY DEF Pasos
      <3> HIDE DEF p
      <3> QED BY <3>1, LibreType, ZenonT(60) DEF Tareas
    <2>2. Begin(w, t) /\ UNCHANGED tenantVars /\ c \in clientes
      BY <1>4 DEF BeginContratar
    <2>3. /\ t.op = "contratar" /\ t.cliente = c /\ t.modulo = m
          /\ t.paso \in {"insertar", "actualizar"}
      OBVIOUS
    <2> HIDE DEF t, p
    <2>4. Situado(t)
      BY <2>2, <2>3
    <2> QED BY <2>1, <2>2, <2>3, <2>4, BeginSigue
  <1>5. ASSUME NEW c \in Clientes, NEW m \in Modulos, BeginCancelar(w, c, m) PROVE Inv'
    <2> DEFINE t == [Libre EXCEPT !.op = "cancelar", !.cliente = c, !.modulo = m]
    <2>1. t \in Tareas
      BY LibreType, ZenonT(60) DEF Tareas
    <2>2. Begin(w, t) /\ UNCHANGED tenantVars /\ c \in clientes
      BY <1>5 DEF BeginCancelar
    <2>3. Situado(t)
      BY <2>2
    <2>4. t.op = "cancelar" /\ t.paso = ""
      OBVIOUS
    <2> HIDE DEF t
    <2> QED BY <2>1, <2>2, <2>3, <2>4, BeginSigue
  <1>6. ASSUME NEW m \in Modulos, BeginQuitar(w, m) PROVE Inv'
    <2> DEFINE t == [Libre EXCEPT !.op = "quitar", !.modulo = m]
    <2>1. t \in Tareas
      BY LibreType, ZenonT(60) DEF Tareas
    <2>2. Begin(w, t) /\ UNCHANGED tenantVars
      BY <1>6 DEF BeginQuitar
    <2>3. Situado(t)
      OBVIOUS
    <2>4. t.op = "quitar" /\ t.paso = ""
      OBVIOUS
    <2> HIDE DEF t
    <2> QED BY <2>1, <2>2, <2>3, <2>4, BeginSigue
  <1> QED BY <1>1, <1>2, <1>3, <1>4, <1>5, <1>6 DEF Empezar

-----------------------------------------------------------------------------
LEMMA ProvisionarSigue ==
    ASSUME Inv, Recordar, UNCHANGED syncVars, NEW w \in Workers, Provisionar(w)
    PROVE  Inv'
  BY ValidarCatalogoSigue, BuscarModulosSigue, ActivarModuloSigue, DarGlobalesSigue,
     ExigirSigue, SincronizarModuloSigue, SincronizadosTodosSigue, VerLoteSigue,
     ValidarLoteSigue, PonerLoteSigue, SaltarLoteSigue
  DEF Provisionar

LEMMA AcabarSigue ==
    ASSUME Inv, Recordar, UNCHANGED syncVars, NEW w \in Workers, Acabar(w)
    PROVE  Inv'
  <1>1. CASE Contratar(w)
    BY <1>1, FijaSigue DEF Contratar, T
  <1>2. CASE Cancelar(w)
    BY <1>2, FijaSigue DEF Cancelar, T
  <1> QED BY <1>1, <1>2, ConfirmarSigue, FallarSigue, FallarReparandoSigue DEF Acabar

LEMMA SyncSigue ==
    ASSUME Inv, Recordar, SyncNext, UNCHANGED <<tenantVars, tarea, told>>
    PROVE  Inv'
  <1>1. SyncTypeOK'
    BY SyncStepTypes DEF SyncNext, Inv, TypeOK
  <1> QED BY <1>1, Ajeno

LEMMA CatalogarSigue ==
    ASSUME Inv, Recordar, NEW m \in Modulos, Catalogar(m)
    PROVE  Inv'
  <1>1. SyncTypeOK'
    BY DEF Inv, TypeOK, SyncTypeOK, Catalogar, tablas, arranque
  <1>2. UNCHANGED <<tenantVars, tarea, told>>
    BY DEF Catalogar
  <1> QED BY <1>1, <1>2, Ajeno

LEMMA InvInductive == Inv /\ [Next]_vars => Inv'
  <1> SUFFICES ASSUME Inv, [Next]_vars PROVE Inv'
    OBVIOUS
  <1>1. CASE UNCHANGED vars
    <2>1. UNCHANGED <<syncVars, clientes, contrato, grants, tarea, told, firme>>
      BY <1>1 DEF vars, tenantVars
    <2>2. TypeOK'
      BY <2>1 DEF Inv, TypeOK, SyncTypeOK, syncVars, tablas, arranque
    <2>3. FirmeOK'
      BY <2>1 DEF Inv, FirmeOK, Vigentes, Activos, syncVars, tablas
    <2>4. Unicos' /\ Todos'
      BY <2>1 DEF Inv, Unicos, Todos, Bien, Situado, Equipado, Basado, Da, Con
    <2> QED BY <2>2, <2>3, <2>4 DEF Inv
  <1>2. CASE Next
    <2>1. Recordar
      BY <1>2 DEF Next
    <2>2. CASE SyncNext /\ UNCHANGED <<tenantVars, tarea, told>>
      BY <2>1, <2>2, SyncSigue
    <2>3. ASSUME NEW w \in Workers, Empezar(w) \/ Provisionar(w) \/ Acabar(w), UNCHANGED syncVars
          PROVE  Inv'
      BY <2>1, <2>3, EmpezarSigue, ProvisionarSigue, AcabarSigue
    <2>4. ASSUME NEW w \in Workers, Quitar(w) PROVE Inv'
      BY <2>1, <2>4, QuitarSigue
    <2>5. ASSUME NEW m \in Modulos, Catalogar(m) PROVE Inv'
      BY <2>1, <2>5, CatalogarSigue
    <2> QED BY <1>2, <2>2, <2>3, <2>4, <2>5 DEF Next
  <1> QED BY <1>1, <1>2

LEMMA InitInv == Init => Inv
  <1> SUFFICES ASSUME Init PROVE Inv
    OBVIOUS
  <1>1. SyncTypeOK
    BY SyncInitTypes DEF Init
  <1>2. tarea \in [Workers -> Tareas]
    BY LibreType DEF Init
  <1>3. firme \in [Workers -> Firmas]
    BY <1>1, VigentesType DEF Init
  <1>4. TypeOK
    <2>1. contrato \in Contratos
      BY DEF Init, Contratos, Estados
    <2>2. grants \in Concesiones
      BY DEF Init, Concesiones
    <2>3. told \in [Workers -> Respuestas]
      BY DEF Init, Respuestas
    <2> QED BY <1>1, <1>2, <1>3, <2>1, <2>2, <2>3
        DEF Init, TypeOK, Firmas, Contratos, Concesiones, Respuestas, Estados
  <1>5. FirmeOK
    BY DEF Init, FirmeOK, Vigentes
  <1>6. Unicos
    BY DEF Init, Unicos, Libre
  <1>7. Todos
    BY DEF Init, Todos, Libre, Bien, Situado, Equipado, Basado, Bootstrap, Tablero, Tras, Ops
  <1> QED BY <1>4, <1>5, <1>6, <1>7 DEF Inv

-----------------------------------------------------------------------------
(***************************************************************************)
(* Whose step it is that a tenant appears, or that a caller is answered.   *)
(***************************************************************************)
LEMMA ProvisionarOp ==
    ASSUME Inv, NEW w \in Workers, Provisionar(w)
    PROVE  tarea'[w].op = tarea[w].op /\ UNCHANGED tenantVars
  <1>1. PICK s \in Tareas : s = tarea[w]
    BY TareaDe
  <1>2. tarea \in [Workers -> Tareas] /\ Bien(s, firme[w])
    BY <1>1, TareaDe DEF Inv, TypeOK
  <1>3. CASE PonerLote(w)
    <2> DEFINE D == Dar(w, s.rol, s.faltan \cap Activos)
               u == [s EXCEPT !.dados = D]
    <2>1. tarea' = [tarea EXCEPT ![w] = Siguiente(u)] /\ UNCHANGED tenantVars
      BY <1>1, <1>3 DEF PonerLote, Avanza, T
    <2>2. s.rol \in Roles /\ s.faltan \cap Activos \in SUBSET Codigos
      BY DEF Tareas, Activos
    <2>3. D \in [Roles -> SUBSET Codigos]
      BY <1>1, <2>2, DarType DEF Dar, T
    <2>4. u \in Tareas /\ u.op = s.op /\ u.rol = s.rol /\ u.lote = s.lote
      <3>1. u \in Tareas
        <4> HIDE DEF D
        <4> QED BY <2>3, ZenonT(60) DEF Tareas
      <3> QED BY <3>1 DEF Tareas
    <2>5. /\ s.op \in Bootstrap \cup {"asegurar"} /\ s.rol \in Operativos
          /\ s.lote \in {"base", "estandar"}
      BY <1>1, <1>2, <1>3 DEF PonerLote, T, Bien, Situado, Tablero
    <2> HIDE DEF u
    <2> QED BY <1>1, <1>2, <2>1, <2>4, <2>5, SiguienteCasos
  <1>4. CASE SaltarLote(w)
    <2>1. /\ s.op \in Bootstrap \cup {"asegurar"} /\ s.rol \in Operativos
          /\ s.lote \in {"base", "estandar"}
      BY <1>1, <1>2, <1>4 DEF SaltarLote, T, Bien, Situado, Tablero
    <2>2. tarea' = [tarea EXCEPT ![w] = Siguiente(s)] /\ UNCHANGED tenantVars
      BY <1>1, <1>4 DEF SaltarLote, Avanza, T
    <2> QED BY <1>1, <1>2, <2>1, <2>2, SiguienteCasos
  <1>5. CASE ValidarCatalogo(w)
    BY <1>1, <1>2, <1>5 DEF ValidarCatalogo, Avanza, T, Tareas
  <1>6. CASE BuscarModulos(w)
    BY <1>1, <1>2, <1>6 DEF BuscarModulos, Avanza, T, Tareas
  <1>7. CASE DarGlobales(w)
    BY <1>1, <1>2, <1>7 DEF DarGlobales, Avanza, T, Tareas
  <1>8. CASE SincronizarModulo(w)
    BY <1>1, <1>2, <1>8 DEF SincronizarModulo, Avanza, T, Tareas
  <1>9. CASE SincronizadosTodos(w)
    BY <1>1, <1>2, <1>9 DEF SincronizadosTodos, Avanza, T, Tareas
  <1>10. CASE VerLote(w)
    BY <1>1, <1>2, <1>10 DEF VerLote, Avanza, T, Tareas
  <1>11. CASE ValidarLote(w)
    BY <1>1, <1>2, <1>11 DEF ValidarLote, Avanza, T, Tareas
  <1>12. ASSUME NEW m \in Modulos, ActivarModulo(w, m)
        PROVE  tarea'[w].op = tarea[w].op /\ UNCHANGED tenantVars
    BY <1>1, <1>2, <1>12 DEF ActivarModulo, Avanza, T, Tareas
  <1>13. ASSUME NEW m \in Modulos, Exigir(w, m)
        PROVE  tarea'[w].op = tarea[w].op /\ UNCHANGED tenantVars
    BY <1>1, <1>2, <1>13 DEF Exigir, Avanza, T, Tareas
  <1> QED BY <1>3, <1>4, <1>5, <1>6, <1>7, <1>8, <1>9, <1>10, <1>11, <1>12, <1>13
     DEF Provisionar

\* Another's step neither ends w's task nor creates its tenant.
LEMMA AjenoOp ==
    ASSUME Inv, NEW w \in Workers, NEW v \in Workers \ {w},
           Empezar(v) \/ Provisionar(v) \/ Acabar(v) \/ Quitar(v)
    PROVE  /\ tarea'[w] = tarea[w]
           /\ tarea[w].op = "alta" => tarea[w].cliente \notin clientes' \ clientes
  <1>1. tarea \in [Workers -> Tareas]
    BY DEF Inv, TypeOK
  <1>2. tarea'[w] = tarea[w]
    BY <1>1 DEF Empezar, BeginAlta, BeginReparar, BeginAsegurar, BeginContratar, BeginCancelar,
        BeginQuitar, Begin, Provisionar, ValidarCatalogo, BuscarModulos, DarGlobales,
        ActivarModulo, Exigir, SincronizarModulo, SincronizadosTodos, VerLote, ValidarLote,
        PonerLote, SaltarLote, Acabar, Confirmar, Fallar, FallarReparando, Contratar, Cancelar,
        Quitar, Terminar, Avanza
  <1>3. clientes' \subseteq clientes \cup {tarea[v].cliente}
    <2>1. CASE Empezar(v)
      BY <2>1 DEF Empezar, BeginAlta, BeginReparar, BeginAsegurar, BeginContratar, BeginCancelar,
                  BeginQuitar, tenantVars
    <2>2. CASE Provisionar(v)
      BY <2>2, ProvisionarOp DEF tenantVars
    <2>3. CASE Acabar(v) \/ Quitar(v)
      BY <2>3 DEF Acabar, Confirmar, Fallar, FallarReparando, Contratar, Cancelar, Quitar,
                  Escrito, tenantVars, T
    <2> QED BY <2>1, <2>2, <2>3
  <1> QED BY <1>2, <1>3 DEF Inv, Unicos

\* The step that creates w's tenant, or answers w with success, is w's own.
LEMMA Propio ==
    ASSUME Inv, Next, NEW w \in Workers, tarea[w].op \in {"alta", "reparar", "asegurar"},
           \/ tarea[w].op = "alta" /\ tarea[w].cliente \in clientes' \ clientes
           \/ tarea'[w] = Libre
    PROVE  Confirmar(w) \/ Fallar(w) \/ FallarReparando(w)
  <1>1. tarea[w] # Libre /\ Libre.op = "libre"
    <2>1. Libre.op = "libre"
      BY DEF Libre
    <2> HIDE DEF Libre
    <2> QED BY <2>1
  <1>2. ASSUME UNCHANGED <<tenantVars, tarea>> PROVE FALSE
    BY <1>1, <1>2 DEF tenantVars
  <1>3. PICK v \in Workers : Empezar(v) \/ Provisionar(v) \/ Acabar(v) \/ Quitar(v)
    BY <1>2 DEF Next, Catalogar
  <1>4. v = w
    BY <1>1, <1>3, AjenoOp
  <1>5. ~Empezar(w)
    BY <1>1 DEF Empezar, BeginAlta, BeginReparar, BeginAsegurar, BeginContratar, BeginCancelar,
                BeginQuitar, Begin, T
  <1>6. ~Provisionar(w)
    <2> SUFFICES ASSUME Provisionar(w) PROVE FALSE
      OBVIOUS
    <2>1. tarea'[w].op = tarea[w].op /\ clientes' = clientes
      BY ProvisionarOp DEF tenantVars
    <2> QED BY <1>1, <2>1
  <1>7. ~Contratar(w) /\ ~Cancelar(w) /\ ~Quitar(w)
    BY DEF Contratar, Cancelar, Quitar, T
  <1> QED BY <1>3, <1>4, <1>5, <1>6, <1>7 DEF Acabar

-----------------------------------------------------------------------------
LEMMA CompletoPaso ==
    ASSUME Inv, Next, NEW w \in Workers,
           \/ tarea[w].op = "alta" /\ tarea[w].cliente \in clientes' \ clientes
           \/ tarea[w].op = "reparar" /\ tarea'[w] = Libre /\ told'[w] = "ok"
    PROVE  Completo(w, tarea[w].cliente, contrato'[tarea[w].cliente], grants'[tarea[w].cliente])
  <1>1. PICK s \in Tareas : s = tarea[w]
    BY TareaDe
  <1>2. PICK f \in Firmas : f = firme[w]
    BY TareaDe
  <1>3. told \in [Workers -> Respuestas]
    BY TareaDe
  <1>4. Confirmar(w)
    <2>1. Confirmar(w) \/ Fallar(w) \/ FallarReparando(w)
      BY Propio
    <2>2. ~Fallar(w)
      BY <1>3 DEF Fallar, Terminar, T, tenantVars
    <2>3. ~FallarReparando(w)
      BY <1>3 DEF FallarReparando, Terminar, T
    <2> QED BY <2>1, <2>2, <2>3
  <1>5. s.paso = "fin" /\ Escrito(w) /\ Bien(s, f) /\ s.op \in Bootstrap
    BY <1>1, <1>2, <1>4, TareaDe DEF Confirmar, T, Bootstrap
  <1>6. s.cliente \in Clientes /\ (s.op = "alta" \/ s.cliente \in clientes)
    BY <1>5 DEF Bien, Situado, Bootstrap, Ops
  <1>7. /\ \A m \in Modulos : Con(s, m) => contrato'[s.cliente][m] # "no"
        /\ \A r \in Roles : grants'[s.cliente][r] = Da(s, r)
    BY <1>1, <1>5, <1>6, EscritoSigue
  <1>8. "ADMIN" \in Roles /\ Operativos \subseteq Roles
    BY DEF Roles, Operativos
  <1>9. /\ \A m \in Plan : Con(s, m) /\ De(f, m) \subseteq Da(s, "ADMIN")
        /\ Globales \cap De(f, Ninguno) \subseteq Da(s, "ADMIN")
        /\ \A r \in Operativos : Base \cap f.codigos \subseteq Da(s, r)
    BY <1>5 DEF Bien, Equipado, Basado, Pasada, Tablero, Tras
  <1>10. \A m : Firmes(w, m) = De(f, m)
    BY <1>2 DEF Firmes, De
  <1> QED BY <1>1, <1>2, <1>7, <1>8, <1>9, <1>10, PlanAssumption DEF Completo

LEMMA BasePaso ==
    ASSUME Inv, Next, NEW w \in Workers, tarea[w].op = "asegurar", tarea'[w] = Libre,
           told'[w] = "ok"
    PROVE  Base \cap firme[w].codigos \subseteq grants'[tarea[w].cliente][tarea[w].rol]
  <1>1. PICK s \in Tareas : s = tarea[w]
    BY TareaDe
  <1>2. PICK f \in Firmas : f = firme[w]
    BY TareaDe
  <1>3. told \in [Workers -> Respuestas] /\ tarea \in [Workers -> Tareas]
    BY TareaDe DEF Inv, TypeOK
  <1>4. Bien(s, f) /\ s.cliente \in Clientes /\ s.cliente \in clientes /\ s.rol \in Roles
    BY <1>1, <1>2, TareaDe DEF Bien, Situado, Ops, Tareas
  <1>5. CASE Fallar(w)
    <2>1. s.lote = "estandar" /\ grants' = grants
      BY <1>1, <1>3, <1>5 DEF Fallar, Terminar, T, tenantVars
    <2> QED BY <1>1, <1>2, <1>4, <2>1 DEF Bien, Basado
  <1>6. CASE Confirmar(w)
    <2>1. s.paso = "fin" /\ Escrito(w)
      BY <1>1, <1>6 DEF Confirmar, T
    <2>2. grants'[s.cliente][s.rol] = Da(s, s.rol)
      BY <1>1, <1>4, <2>1, EscritoSigue
    <2> QED BY <1>1, <1>2, <1>4, <2>1, <2>2 DEF Bien, Basado
  <1>7. ~FallarReparando(w)
    BY DEF FallarReparando, T
  <1> QED BY <1>5, <1>6, <1>7, Propio

\* Whoever is at work, every variable keeps its type.
THEOREM TenantsTypeCorrect == Spec => []TypeOK
  <1>1. Inv => TypeOK
    BY DEF Inv
  <1> QED BY <1>1, InitInv, InvInductive, PTL DEF Spec

\* cliente_onboarding_service.crear_cliente_con_onboarding and
\* legacy_tenant_rbac_repair_service.repair_one: a tenant that appears, or is
\* told repaired, has its modules, its owner's permissions and its base.
THEOREM TenantsAreCompleteAlways == Spec => TenantsAreComplete
  <1>1. ASSUME Inv, [Next]_vars
        PROVE  [\A w \in Workers :
                  LET c == T(w).cliente IN
                  \/ T(w).op = "alta" /\ c \in clientes' \ clientes
                  \/ T(w).op = "reparar" /\ tarea'[w] = Libre /\ told'[w] = "ok"
                  => Completo(w, c, contrato'[c], grants'[c])]_vars
    BY <1>1, CompletoPaso DEF T
  <1> QED BY <1>1, InitInv, InvInductive, PTL DEF Spec, TenantsAreComplete

\* user_service._ensure_base_operative_for_operative_role: an operative role
\* that was assigned with success holds every base code active all along.
THEOREM AssignedRolesHaveBaseAlways == Spec => AssignedRolesHaveBase
  <1>1. ASSUME Inv, [Next]_vars
        PROVE  [\A w \in Workers :
                  T(w).op = "asegurar" /\ tarea'[w] = Libre /\ told'[w] = "ok"
                  => Base \cap firme[w].codigos \subseteq grants'[T(w).cliente][T(w).rol]]_vars
    BY <1>1, BasePaso DEF T
  <1> QED BY <1>1, InitInv, InvInductive, PTL DEF Spec, AssignedRolesHaveBase
=============================================================================
