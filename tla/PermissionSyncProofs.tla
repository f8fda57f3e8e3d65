-------------------------- MODULE PermissionSyncProofs --------------------------
(***************************************************************************)
(* The catalogue converges, for any number of processes, versions, codes   *)
(* and modules.                                                            *)
(*                                                                         *)
(* SyncConverges speaks of the moment when every process has gone through  *)
(* its codes, but a process that has written a code does not own it: until *)
(* the others are done they may retire it or write another module_id.      *)
(* What is inductive is a promise kept by all processes together: a code   *)
(* that every one of them has settled (Hecho) is active, one that every    *)
(* one of them has settled to retire is not.  An INSERT that is going to   *)
(* fail as a duplicate counts as settled from the moment the other         *)
(* process's row is there.                                                 *)
(***************************************************************************)
EXTENDS PermissionSync, TLAPS

\* Process q declares k and has nothing left to do for it.
Hecho(q, k) ==
    /\ paso[q] = "escribiendo" /\ fallos[q] = 0 /\ k \in version[q]
    /\ k \notin porEscribir[q] \/ (k \notin vistos[q] /\ permiso[k] # "no")

\* Process q does not declare k and has nothing left to do for it.
Retirado(q, k) ==
    /\ paso[q] = "escribiendo" /\ fallos[q] = 0
    /\ k \notin version[q] /\ k \notin porRetirar[q]

Orden ==
    \A q \in Procesos :
        /\ porEscribir[q] \subseteq version[q]
        /\ porRetirar[q] \cap version[q] = {}
        /\ paso[q] # "escribiendo" => porEscribir[q] = {} /\ porRetirar[q] = {}
        /\ paso[q] = "escribiendo" => porBuscar[q] = {}

DeclaradosActivos ==
    \A k \in Codigos : (\A q \in Procesos : Hecho(q, k)) => permiso[k] = "activo"

OtrosInactivos ==
    \A k \in Codigos \ Protegidos :
        (\A q \in Procesos : Retirado(q, k)) => permiso[k] # "activo"

ModulosEscritos ==
    \A k \in Codigos :
        (\A q \in Procesos : Hecho(q, k) /\ Modulo(q, k) = ModuloDe[k]) =>
            modulo_id[k] = ModuloDe[k]

SyncInv == SyncTypeOK /\ Orden /\ DeclaradosActivos /\ OtrosInactivos /\ ModulosEscritos

-----------------------------------------------------------------------------
LEMMA SyncInitTypes == SyncInit => SyncTypeOK
  BY CodigosAssumption, SMTT(30) DEF SyncInit, SyncTypeOK

LEMMA ModuloType ==
    ASSUME SyncTypeOK, NEW p \in Procesos, NEW k \in Codigos
    PROVE  Modulo(p, k) \in Modulos \cup {Ninguno}
  BY DEF Modulo, SyncTypeOK

\* Starting, looking up, reading and failing leave the table alone.
LEMMA ArrancaTypes ==
    ASSUME SyncTypeOK, NEW p \in Procesos, NEW v \in SUBSET Codigos,
           NEW d \in {"apagado", "buscando"}, Arranca(p, v, d)
    PROVE  SyncTypeOK'
  <1>1. {ModuloDe[k] : k \in v} \ {Ninguno} \subseteq Modulos
    BY CodigosAssumption
  <1> QED BY <1>1, CodigosAssumption, SMTT(30) DEF Arranca, SyncTypeOK, tablas

LEMMA SyncStepTypes ==
    ASSUME SyncTypeOK, NEW p \in Procesos,
           \/ Arrancar(p) \/ Parar(p) \/ BuscarModulo(p) \/ LeerPermisos(p)
           \/ Escribir(p) \/ Retirar(p) \/ Fallido(p)
    PROVE  SyncTypeOK'
  <1>1. CASE Arrancar(p)
    BY <1>1, ArrancaTypes, CodigosAssumption DEF Arrancar
  <1>2. CASE Parar(p)
    BY <1>2, ArrancaTypes DEF Parar
  <1>3. CASE BuscarModulo(p)
    BY <1>3, SMTT(30) DEF BuscarModulo, SyncTypeOK, tablas
  <1>4. CASE LeerPermisos(p)
    BY <1>4, SMTT(30) DEF LeerPermisos, Sobrantes, SyncTypeOK, tablas
  <1>5. CASE Escribir(p)
    <2>1. PICK k \in porEscribir[p] :
            /\ Escribe(p, k) \/ Duplicado(p, k)
            /\ porEscribir' = [porEscribir EXCEPT ![p] = @ \ {k}]
      BY <1>5 DEF Escribir
    <2>2. k \in Codigos
      BY DEF SyncTypeOK
    <2>3. permiso' \in [Codigos -> {"no", "activo", "inactivo"}]
      BY <2>1, <2>2 DEF Escribe, Duplicado, SyncTypeOK, tablas
    <2>4. modulo_id' \in [Codigos -> Modulos \cup {Ninguno}]
      BY <2>1, <2>2, ModuloType DEF Escribe, Duplicado, SyncTypeOK, tablas
    <2> QED BY <1>5, <2>1, <2>3, <2>4, SMTT(30) DEF Escribir, SyncTypeOK
  <1>6. CASE Retirar(p)
    BY <1>6, SMTT(30) DEF Retirar, SyncTypeOK
  <1>7. CASE Fallido(p)
    BY <1>7, CodigosAssumption, SMTT(30) DEF Fallido, SyncTypeOK, tablas
  <1> QED BY <1>1, <1>2, <1>3, <1>4, <1>5, <1>6, <1>7

-----------------------------------------------------------------------------
LEMMA StartKeeps ==
    ASSUME SyncInv, SyncTypeOK', NEW p \in Procesos, NEW v \in SUBSET Codigos,
           NEW d \in {"apagado", "buscando"}, Arranca(p, v, d)
    PROVE  SyncInv'
  <1> USE DEF SyncInv, SyncTypeOK, Arranca, tablas
  <1>1. Orden'
    BY DEF Orden
  <1>2. paso'[p] # "escribiendo"
    OBVIOUS
  <1> QED
    BY <1>1, <1>2 DEF DeclaradosActivos, OtrosInactivos, ModulosEscritos, Hecho, Retirado

LEMMA LookupKeeps ==
    ASSUME SyncInv, SyncTypeOK', NEW p \in Procesos, BuscarModulo(p)
    PROVE  SyncInv'
  <1> USE DEF SyncInv, SyncTypeOK, tablas
  <1>1. /\ UNCHANGED <<permiso, modulo_id, version, paso, vistos, porEscribir, porRetirar, fallos>>
        /\ paso[p] # "escribiendo"
        /\ porBuscar'[p] \subseteq porBuscar[p]
        /\ \A q \in Procesos \ {p} : porBuscar'[q] = porBuscar[q]
    BY DEF BuscarModulo, Orden
  <1>2. Orden'
    BY <1>1 DEF Orden
  <1> QED
    BY <1>1, <1>2 DEF DeclaradosActivos, OtrosInactivos, ModulosEscritos, Hecho, Retirado

LEMMA ReadKeeps ==
    ASSUME SyncInv, SyncTypeOK', NEW p \in Procesos, LeerPermisos(p)
    PROVE  SyncInv'
  <1> USE DEF SyncInv, SyncTypeOK, tablas
  <1>1. /\ UNCHANGED <<permiso, modulo_id, version, porBuscar, hallados, fallos>>
        /\ vistos'[p] = {k \in Codigos : permiso[k] # "no"}
        /\ porEscribir'[p] = version[p]
        /\ porRetirar'[p] = vistos'[p] \ (version[p] \cup Protegidos)
        /\ porBuscar[p] = {}
        /\ \A q \in Procesos \ {p} : /\ paso'[q] = paso[q]
                                     /\ porEscribir'[q] = porEscribir[q]
                                     /\ porRetirar'[q] = porRetirar[q]
    BY DEF LeerPermisos, Sobrantes
  <1>2. Orden'
    <2>1. paso'[p] = "escribiendo" /\ porRetirar'[p] \cap version'[p] = {}
      BY <1>1 DEF LeerPermisos
    <2> QED BY <1>1, <2>1 DEF Orden
  <1>3. \A k \in Codigos : ~Hecho(p, k)'
    BY <1>1 DEF Hecho
  <1>4. \A k \in Codigos \ Protegidos : Retirado(p, k)' => permiso'[k] # "activo"
    BY <1>1 DEF Retirado
  <1> QED
    BY <1>2, <1>3, <1>4 DEF DeclaradosActivos, OtrosInactivos, ModulosEscritos

\* The code that is written is settled by its writer; every other code is as
\* it was.
LEMMA WriteKeeps ==
    ASSUME SyncInv, SyncTypeOK', NEW p \in Procesos, Escribir(p)
    PROVE  SyncInv'
  <1> USE DEF SyncInv, SyncTypeOK, tablas
  <1>1. PICK k \in porEscribir[p] :
          /\ Escribe(p, k) \/ Duplicado(p, k)
          /\ porEscribir' = [porEscribir EXCEPT ![p] = @ \ {k}]
    BY DEF Escribir
  <1>2. UNCHANGED <<version, paso, porBuscar, hallados, vistos, porRetirar, fallos>>
    BY DEF Escribir
  <1>3. k \in Codigos /\ k \in version[p] /\ paso[p] = "escribiendo"
    BY DEF Orden
  <1>4. Orden'
    BY <1>1, <1>2 DEF Orden
  <1>5. ASSUME NEW j \in Codigos, j # k
        PROVE  /\ permiso'[j] = permiso[j] /\ modulo_id'[j] = modulo_id[j]
               /\ \A q \in Procesos : /\ Hecho(q, j)' = Hecho(q, j)
                                      /\ Modulo(q, j)' = Modulo(q, j)
                                      /\ Retirado(q, j)' = Retirado(q, j)
    <2>1. permiso'[j] = permiso[j] /\ modulo_id'[j] = modulo_id[j]
      BY <1>1, <1>3, <1>5 DEF Escribe, Duplicado
    <2>2. \A q \in Procesos : j \in porEscribir'[q] <=> j \in porEscribir[q]
      BY <1>1, <1>5
    <2> QED BY <1>2, <2>1, <2>2 DEF Hecho, Modulo, Retirado
  <1>6. ~Retirado(p, k)'
    BY <1>2, <1>3 DEF Retirado
  <1>7. CASE Escribe(p, k)
    <2>1. permiso'[k] = "activo" /\ modulo_id'[k] = Modulo(p, k)'
      BY <1>2, <1>3, <1>7 DEF Escribe, Modulo
    <2>2. DeclaradosActivos'
      BY <1>5, <2>1 DEF DeclaradosActivos
    <2>3. OtrosInactivos'
      BY <1>5, <1>6 DEF OtrosInactivos
    <2>4. ModulosEscritos'
      <3>1. ASSUME \A q \in Procesos : Hecho(q, k)' /\ Modulo(q, k)' = ModuloDe[k]
            PROVE  modulo_id'[k] = ModuloDe[k]
        BY <2>1, <3>1
      <3> QED BY <1>5, <3>1 DEF ModulosEscritos
    <2> QED BY <1>4, <2>2, <2>3, <2>4
  <1>8. CASE Duplicado(p, k)
    <2>1. permiso' = permiso /\ modulo_id' = modulo_id
      BY <1>8 DEF Duplicado
    <2>2. \A q \in Procesos \ {p} : Hecho(q, k)' => Hecho(q, k)
      BY <1>1, <1>2, <2>1 DEF Hecho
    <2>3. Hecho(p, k)' => Hecho(p, k)
      BY <1>2, <1>8 DEF Hecho, Duplicado
    <2>4. \A q \in Procesos : Modulo(q, k)' = Modulo(q, k)
      BY <1>2 DEF Modulo
    <2> QED
      BY <1>3, <1>4, <1>5, <1>6, <2>1, <2>2, <2>3, <2>4
      DEF DeclaradosActivos, OtrosInactivos, ModulosEscritos
  <1> QED BY <1>1, <1>7, <1>8

LEMMA RetireKeeps ==
    ASSUME SyncInv, SyncTypeOK', NEW p \in Procesos, Retirar(p)
    PROVE  SyncInv'
  <1> USE DEF SyncInv, SyncTypeOK, tablas
  <1>1. PICK k \in porRetirar[p] :
          /\ permiso' = [permiso EXCEPT ![k] = "inactivo"]
          /\ porRetirar' = [porRetirar EXCEPT ![p] = @ \ {k}]
    BY DEF Retirar
  <1>2. UNCHANGED <<modulo_id, version, paso, porBuscar, hallados, vistos, porEscribir, fallos>>
    BY DEF Retirar
  <1>3. k \in Codigos /\ k \notin version[p]
    BY DEF Orden
  <1>4. Orden'
    BY <1>1, <1>2 DEF Orden
  <1>5. permiso'[k] = "inactivo"
    BY <1>1, <1>3
  <1>6. ~Hecho(p, k)'
    BY <1>2, <1>3 DEF Hecho
  <1>7. ASSUME NEW j \in Codigos, j # k
        PROVE  /\ permiso'[j] = permiso[j]
               /\ \A q \in Procesos : /\ Hecho(q, j)' = Hecho(q, j)
                                      /\ Modulo(q, j)' = Modulo(q, j)
                                      /\ Retirado(q, j)' = Retirado(q, j)
    <2>1. permiso'[j] = permiso[j]
      BY <1>1, <1>3, <1>7
    <2>2. \A q \in Procesos : j \in porRetirar'[q] <=> j \in porRetirar[q]
      BY <1>1, <1>7
    <2> QED BY <1>2, <2>1, <2>2 DEF Hecho, Modulo, Retirado
  <1> QED
    BY <1>2, <1>4, <1>5, <1>6, <1>7 DEF DeclaradosActivos, OtrosInactivos, ModulosEscritos

\* A startup with a failed statement settles nothing any more.
LEMMA FailureKeeps ==
    ASSUME SyncInv, SyncTypeOK', NEW p \in Procesos, Fallido(p)
    PROVE  SyncInv'
  <1> USE DEF SyncInv, SyncTypeOK, tablas
  <1>1. /\ UNCHANGED <<permiso, modulo_id, version, paso, porBuscar, hallados, vistos>>
        /\ fallos'[p] # 0
        /\ \A q \in Procesos : /\ porEscribir'[q] \subseteq porEscribir[q]
                               /\ porRetirar'[q] \subseteq porRetirar[q]
        /\ \A q \in Procesos \ {p} : /\ porEscribir'[q] = porEscribir[q]
                                     /\ porRetirar'[q] = porRetirar[q]
                                     /\ fallos'[q] = fallos[q]
    BY CodigosAssumption, SMTT(30) DEF Fallido
  <1>2. Orden'
    BY <1>1 DEF Orden
  <1> QED
    BY <1>1, <1>2 DEF DeclaradosActivos, OtrosInactivos, ModulosEscritos, Hecho, Retirado

-----------------------------------------------------------------------------
LEMMA SyncInvInductive == SyncInv /\ [SyncNext]_syncVars => SyncInv'
  <1> SUFFICES ASSUME SyncInv, [SyncNext]_syncVars PROVE SyncInv'
    OBVIOUS
  <1>1. CASE UNCHANGED syncVars
    BY <1>1 DEF syncVars, tablas, arranque, SyncInv, SyncTypeOK, Orden, DeclaradosActivos,
                OtrosInactivos, ModulosEscritos, Hecho, Retirado, Modulo
  <1>2. CASE SyncNext
    <2>1. PICK p \in Procesos :
            \/ Arrancar(p) \/ Parar(p) \/ BuscarModulo(p) \/ LeerPermisos(p)
            \/ Escribir(p) \/ Retirar(p) \/ Fallido(p)
      BY <1>2 DEF SyncNext
    <2>2. SyncTypeOK'
      BY <2>1, SyncStepTypes DEF SyncInv
    <2>3. CASE Arrancar(p)
      BY <2>2, <2>3, StartKeeps, CodigosAssumption DEF Arrancar
    <2>4. CASE Parar(p)
      BY <2>2, <2>4, StartKeeps DEF Parar
    <2> QED
      BY <2>1, <2>2, <2>3, <2>4, LookupKeeps, ReadKeeps, WriteKeeps, RetireKeeps, FailureKeeps
  <1> QED BY <1>1, <1>2

LEMMA SyncInitInv == SyncInit => SyncInv
  BY SyncInitTypes, CodigosAssumption
  DEF SyncInit, SyncInv, Orden, DeclaradosActivos, OtrosInactivos, ModulosEscritos,
      Hecho, Retirado

LEMMA SyncInvConverges == SyncInv => SyncConverges
  <1> SUFFICES ASSUME SyncInv, \A p \in Procesos : AlDia(p), NEW k \in Codigos
               PROVE  /\ (\A p \in Procesos : k \in version[p]) => permiso[k] = "activo"
                      /\ (\A p \in Procesos : k \notin version[p]) /\ k \notin Protegidos =>
                             permiso[k] # "activo"
                      /\ (\A p \in Procesos : k \in version[p] /\ Modulo(p, k) = ModuloDe[k]) =>
                             modulo_id[k] = ModuloDe[k]
    BY Zenon DEF SyncConverges
  <1>1. \A p \in Procesos : k \in version[p] => Hecho(p, k)
    BY DEF AlDia, Hecho
  <1>2. \A p \in Procesos : k \notin version[p] => Retirado(p, k)
    BY DEF AlDia, Retirado
  <1>3. (\A p \in Procesos : k \in version[p]) => permiso[k] = "activo"
    BY <1>1 DEF SyncInv, DeclaradosActivos
  <1>4. (\A p \in Procesos : k \notin version[p]) /\ k \notin Protegidos => permiso[k] # "activo"
    BY <1>2 DEF SyncInv, OtrosInactivos
  <1>5. (\A p \in Procesos : k \in version[p] /\ Modulo(p, k) = ModuloDe[k]) =>
            modulo_id[k] = ModuloDe[k]
    BY <1>1 DEF SyncInv, ModulosEscritos
  <1> QED BY <1>3, <1>4, <1>5

\* Whatever processes start, stop and fail, every variable keeps its type.
THEOREM SyncTypeCorrect == SyncSpec => []SyncTypeOK
  <1>1. SyncInv => SyncTypeOK
    BY DEF SyncInv
  <1> QED BY <1>1, SyncInitInv, SyncInvInductive, PTL DEF SyncSpec

\* permission_sync_service.sync: when every process has gone through its codes
\* without an error, the table is that of the version they share, in whatever
\* order their statements interleaved.
THEOREM SyncConvergesAlways == SyncSpec => []SyncConverges
  BY SyncInitInv, SyncInvInductive, SyncInvConverges, PTL DEF SyncSpec
=============================================================================
