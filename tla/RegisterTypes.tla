--------------------------- MODULE RegisterTypes ---------------------------
(***************************************************************************)
(* The life cycles of master data: customers, products, warehouses, roles, *)
(* users, tenants and the like.  A register is read and written as a       *)
(* document is (see Documents); its estado is the flag es_activo, and its  *)
(* "delete" endpoint clears that flag.                                     *)
(***************************************************************************)
EXTENDS DocumentTypes, TLC

Flag == {"activo", "inactivo"}

\* POST and PUT take the flag from the body.
Registro(ops) ==
    [states |-> Flag, created |-> Flag, put |-> AnyOf(Flag, Flag), ops |-> ops]

Desactivar == "desactivar" :> Blind(Flag, "inactivo")
Reactivar == "reactivar" :> Blind(Flag, "activo")
Interruptor == Desactivar @@ Reactivar
Idempotente == [o \in DOMAIN Interruptor |-> Repeatable(Interruptor[o])]
NoOps == [o \in {} |-> Blind({}, "")]

\* A table whose estado only POST and PUT write.
Libre(states) ==
    [Registro(NoOps) EXCEPT !.states = states, !.created = states,
                            !.put = AnyOf(states, states)]

-----------------------------------------------------------------------------
(***************************************************************************)
(* Registers with both endpoints.                                          *)
(***************************************************************************)
Cargo == Registro(Interruptor)
CentroCosto == Registro(Interruptor)
Departamento == Registro(Interruptor)
Empresa == Registro(Interruptor)
Sucursal == Registro(Interruptor)
Parametro == Registro(Interruptor)
Ruta == Registro(Interruptor)
Transportista == Registro(Interruptor)
Vehiculo == Registro(Interruptor)
CentroCostoTipo == Registro(Interruptor)
PlanCuentas == Registro(Interruptor)
Empleado == Registro(Interruptor)
Serie == Registro(Interruptor)
PuntoVenta == Registro(Interruptor)
ListaPrecio == Registro(Interruptor)
Promocion == Registro(Interruptor)
Cliente == Registro(Interruptor)
Seccion == Registro(Interruptor)
Menu == Registro(Interruptor)
RolPlantilla == Registro(Interruptor)
Modulo == Registro(Interruptor)
Activo == Registro(Idempotente)
PlanMantenimiento == Registro(Idempotente)
Rol == Registro(Idempotente)

\* Their endpoints call the service of the PUT with the flag alone.
Almacen == Registro(Interruptor)
Categoria == Registro(Interruptor)
Producto == Registro(Interruptor)
TipoMovimiento == Registro(Interruptor)
UnidadMedida == Registro(Interruptor)
Reporte == Registro(Interruptor)
CentroTrabajo == Registro(Interruptor)
Operacion == Registro(Interruptor)
ParametroCalidad == Registro(Interruptor)
FlujoTrabajo == Registro(Interruptor)
Ubicacion == Registro(Interruptor)
ZonaAlmacen == Registro(Interruptor)
PlanInspeccion == Registro(Interruptor)

\* The lines of a plan are editable while the plan is active, those of a
\* price list always.
PlanInspeccionDetalle == {"activo"}
ListaPrecioDetalle == Flag

(***************************************************************************)
(* Registers with one of the two, or with none.                            *)
(***************************************************************************)
Moneda == Registro(Desactivar)
Pais == Registro(Desactivar)
DepartamentoGlobal == Registro(Desactivar)
Provincia == Registro(Desactivar)
Distrito == Registro(Desactivar)
ProveedorContacto == Registro(Reactivar)
ProductoProveedor == Registro(Reactivar)
Proveedor == Registro(Reactivar)
ConceptoPlanilla == Registro(NoOps)
ClienteContacto == Registro(NoOps)
ClienteDireccion == Registro(NoOps)
Conexion ==
    [Registro("desactivar" :> Blind({"activo"}, "inactivo")) EXCEPT
        !.created = {"activo"}]

\* A deleted user (es_eliminado) takes no PUT and no second deletion.
Usuario ==
    [states |-> Flag \cup {"eliminado"}, created |-> {"activo"},
     put |-> AnyOf(Flag, Flag),
     ops |-> [eliminar |-> Repeatable(Blind(Flag, "eliminado")),
              reactivar |-> Repeatable(Blind({"inactivo", "eliminado"}, "activo"))]]

\* estado_suscripcion.  An active subscription of a client whose es_activo
\* is cleared may be activated again.
ClienteSaaS ==
    LET states == {"trial", "activo", "suspendido", "cancelado", "moroso"}
    IN  [Libre(states) EXCEPT
            !.ops = [suspender |-> Blind(states \ {"suspendido"}, "suspendido"),
                     activar |-> Blind(states, "activo"),
                     eliminar |-> Blind(states, "cancelado")]]

-----------------------------------------------------------------------------
(***************************************************************************)
(* Tables with an estado and few or no operations that move it.            *)
(***************************************************************************)
PeriodoContable ==
    LET states == {"abierto", "cerrado", "bloqueado"}
    IN  [Libre(states) EXCEPT !.ops = [cerrar |-> Blind({"abierto"}, "cerrado")]]
TurnoCaja ==
    [Libre({"abierto", "cerrado"}) EXCEPT
        !.ops = [cerrar |-> Blind({"abierto"}, "cerrado")]]

Campana == Libre({"planificada", "activa", "pausada", "completada", "cancelada"})
Lead == Libre({"nuevo", "contactado", "calificado", "convertido", "descartado"})
Actividad == Libre({"planificada", "completada", "cancelada"})
Prestamo == Libre({"activo", "pagado", "cancelado"})
Vacaciones ==
    Libre({"pendiente", "programada", "aprobada", "en_curso", "completada", "vencida"})
Proyecto == Libre({"planificado", "en_curso", "pausado", "completado", "cancelado"})

\* Rows that are only written and read: they have one estado.
Registrado == Libre({"registrado"})
Asistencia == Registrado
ProductoCosto == Registrado
HistorialMantenimiento == Registrado
PronosticoDemanda == Registrado
Stock == Registrado
StockUbicacion == Registrado
LogAuditoria == Registrado
=============================================================================
