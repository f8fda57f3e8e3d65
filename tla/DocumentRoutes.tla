--------------------------- MODULE DocumentRoutes ---------------------------
(***************************************************************************)
(* The operations each router exposes: one definition for the endpoints of *)
(* each table (presentation/endpoints*.py).  A register's DELETE is its    *)
(* "desactivar".  The permission a route asks for may refuse any request   *)
(* (Documents!Reject); which permissions a user has is in Access.          *)
(***************************************************************************)
Basicas == {"listar", "ver", "crear", "editar"}
Interruptores == {"desactivar", "reactivar"}

-----------------------------------------------------------------------------
\* aud
LogAuditoriaRoutes == {"listar", "ver", "crear"}
\* bdg
PresupuestoRoutes == Basicas \cup {"aprobar", "procesar", "anular"}
PresupuestoDetalleRoutes == Basicas
\* bi
ReporteRoutes == Basicas \cup Interruptores
\* crm
OportunidadRoutes ==
    Basicas \cup {"marcar_ganada", "marcar_perdida", "cancelar"}
CampanaRoutes == Basicas
LeadRoutes == Basicas
ActividadRoutes == Basicas
\* cst
CentroCostoTipoRoutes == Basicas \cup Interruptores
ProductoCostoRoutes == Basicas
\* dms
DocumentoRoutes == Basicas \cup {"archivar", "restaurar", "eliminar"}
\* fin
AsientoContableRoutes == Basicas \cup {"aprobar", "registrar", "anular"}
PlanCuentasRoutes == Basicas \cup Interruptores
PeriodoContableRoutes == Basicas \cup {"cerrar"}
AsientoDetalleRoutes == Basicas
\* hcm
PlanillaRoutes ==
    Basicas \cup {"calcular", "aprobar", "marcar_pagada", "cerrar"}
ContratoRoutes == Basicas \cup {"rescindir"}
EmpleadoRoutes == Basicas \cup Interruptores
ConceptoPlanillaRoutes == Basicas
PrestamoRoutes == Basicas
VacacionesRoutes == Basicas
AsistenciaRoutes == Basicas
PlanillaDetalleRoutes == Basicas
PlanillaEmpleadoRoutes == Basicas
\* inv
AlmacenRoutes == Basicas \cup Interruptores
CategoriaRoutes == Basicas \cup Interruptores
ProductoRoutes == Basicas \cup Interruptores
TipoMovimientoRoutes == Basicas \cup Interruptores
UnidadMedidaRoutes == Basicas \cup Interruptores
StockRoutes == Basicas
\* invbill
ComprobanteRoutes == Basicas \cup {"anular", "procesar"}
SerieRoutes == Basicas \cup Interruptores
ComprobanteDetalleRoutes == Basicas
\* log
DespachoRoutes == Basicas \cup {"completar", "anular"}
GuiaRemisionRoutes == Basicas \cup {"anular"}
RutaRoutes == Basicas \cup Interruptores
TransportistaRoutes == Basicas \cup Interruptores
VehiculoRoutes == Basicas \cup Interruptores
DespachoGuiaRoutes == Basicas
GuiaRemisionDetalleRoutes == Basicas
\* mfg
OrdenProduccionRoutes ==
    Basicas \cup {"liberar", "iniciar", "finalizar", "cerrar", "anular"}
ListaMaterialesRoutes == Basicas \cup {"aprobar", "anular"}
RutaFabricacionRoutes == Basicas \cup {"aprobar", "anular"}
CentroTrabajoRoutes == Basicas \cup Interruptores
OperacionRoutes == Basicas \cup Interruptores
ConsumoMaterialesRoutes == Basicas
OrdenProduccionOperacionRoutes == Basicas
ListaMaterialesDetalleRoutes == Basicas
RutaFabricacionDetalleRoutes == Basicas
\* mnt
OrdenTrabajoRoutes ==
    Basicas \cup {"programar", "iniciar", "pausar", "reanudar", "completar",
        "cancelar", "cerrar"}
ActivoRoutes == Basicas \cup Interruptores
PlanMantenimientoRoutes == Basicas \cup Interruptores
HistorialMantenimientoRoutes == Basicas
\* mps
PlanProduccionRoutes == Basicas \cup {"aprobar", "ejecutar", "cerrar", "anular"}
PronosticoDemandaRoutes == Basicas
PlanProduccionDetalleRoutes == Basicas
\* mrp
PlanMaestroRoutes ==
    Basicas \cup {"calcular", "aprobar", "ejecutar", "cerrar", "anular"}
OrdenSugeridaRoutes == Basicas \cup {"aprobar", "rechazar", "convertir"}
NecesidadBrutaRoutes == Basicas
ExplosionMaterialesRoutes == Basicas
\* org
CargoRoutes == Basicas \cup Interruptores
CentroCostoRoutes == Basicas \cup Interruptores
DepartamentoRoutes == Basicas \cup Interruptores
EmpresaRoutes == Basicas \cup Interruptores
SucursalRoutes == Basicas \cup Interruptores
ParametroRoutes == Basicas \cup Interruptores
\* pm
ProyectoRoutes == Basicas
\* pos
VentaRoutes == Basicas \cup {"anular"}
PuntoVentaRoutes == Basicas \cup Interruptores
TurnoCajaRoutes == Basicas \cup {"cerrar"}
VentaDetalleRoutes == Basicas
\* prc
ListaPrecioRoutes == Basicas \cup Interruptores
PromocionRoutes == Basicas \cup Interruptores
ListaPrecioDetalleRoutes == Basicas
\* pur
SolicitudCompraRoutes ==
    Basicas \cup {"aprobar", "rechazar", "anular", "marcar_procesada"}
OrdenCompraRoutes == Basicas \cup {"aprobar", "emitir", "anular"}
CotizacionCompraRoutes ==
    Basicas \cup {"aceptar", "rechazar", "marcar_ganadora"}
RecepcionRoutes == Basicas \cup {"anular", "aprobar", "procesar"}
ProveedorContactoRoutes == Basicas \cup {"reactivar"}
ProductoProveedorRoutes == Basicas \cup {"reactivar"}
ProveedorRoutes == Basicas \cup {"reactivar"}
SolicitudDetalleRoutes == Basicas
OrdenCompraDetalleRoutes == Basicas
CotizacionCompraDetalleRoutes == Basicas
RecepcionDetalleRoutes == Basicas
\* qms
NoConformidadRoutes == Basicas \cup {"cerrar", "cancelar"}
InspeccionRoutes == Basicas \cup {"aprobar", "procesar", "anular"}
ParametroCalidadRoutes == Basicas \cup Interruptores
PlanInspeccionRoutes == Basicas \cup Interruptores
InspeccionDetalleRoutes == Basicas
PlanInspeccionDetalleRoutes == Basicas
\* sls
CotizacionVentaRoutes ==
    Basicas \cup {"enviar", "aceptar", "rechazar", "convertir_a_pedido"}
PedidoRoutes == Basicas \cup {"confirmar", "aprobar", "anular"}
ClienteRoutes == Basicas \cup Interruptores
ClienteContactoRoutes == Basicas
ClienteDireccionRoutes == Basicas
CotizacionVentaDetalleRoutes == {"listar", "editar"}
PedidoDetalleRoutes == {"listar", "editar"}
\* svc
OrdenServicioRoutes ==
    Basicas \cup {"asignar", "iniciar", "completar", "cancelar"}
\* tax
LibroElectronicoRoutes ==
    Basicas \cup {"marcar_generado", "registrar_envio", "anular"}
\* tkt
TicketRoutes == Basicas \cup {"asignar", "iniciar", "resolver", "cerrar"}
\* wfl
FlujoTrabajoRoutes == Basicas \cup Interruptores
\* wms
TareaRoutes == Basicas \cup {"asignar", "iniciar", "completar", "cancelar"}
UbicacionRoutes == Basicas \cup Interruptores
ZonaAlmacenRoutes == Basicas \cup Interruptores
StockUbicacionRoutes == Basicas
\* modulos
ModuloRoutes == Basicas \cup Interruptores
SeccionRoutes == Basicas \cup Interruptores
MenuRoutes == Basicas \cup Interruptores
RolPlantillaRoutes == Basicas \cup Interruptores
\* rbac
RolRoutes == Basicas \cup Interruptores
\* superadmin
MonedaRoutes == {"listar", "crear", "editar", "desactivar"}
PaisRoutes == {"listar", "crear", "editar", "desactivar"}
DepartamentoGlobalRoutes == {"listar", "crear", "editar", "desactivar"}
ProvinciaRoutes == {"listar", "crear", "editar", "desactivar"}
DistritoRoutes == {"listar", "crear", "editar", "desactivar"}
\* tenant
ConexionRoutes == Basicas \cup {"desactivar"}
ClienteSaaSRoutes == Basicas \cup {"eliminar", "suspender", "activar"}
\* users
UsuarioRoutes == Basicas \cup {"eliminar", "reactivar"}
=============================================================================
