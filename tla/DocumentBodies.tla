--------------------------- MODULE DocumentBodies ---------------------------
(***************************************************************************)
(* What the body of a request says of an estado: one definition for the    *)
(* Create and Update models of each table (presentation/schemas.py).       *)
(*                                                                         *)
(*   inicial  the estado a POST that names none gets from the model: {}    *)
(*            when the model has no default and the service chooses        *)
(*   put      what a PUT may carry besides plain data: the "estado", or    *)
(*            for a line the key of its document, the "cabecera"           *)
(***************************************************************************)
Body(inicial, put) == [inicial |-> inicial, put |-> put]

-----------------------------------------------------------------------------
\* aud
LogAuditoriaBody == Body({}, {})
\* bdg
PresupuestoBody == Body({"borrador"}, {})
PresupuestoDetalleBody == Body({}, {})
\* bi
ReporteBody == Body({"activo"}, {"estado"})
\* crm
OportunidadBody == Body({"abierta"}, {"estado"})
CampanaBody == Body({"planificada"}, {"estado"})
LeadBody == Body({"nuevo"}, {"estado"})
ActividadBody == Body({"planificada"}, {"estado"})
\* cst
CentroCostoTipoBody == Body({"activo"}, {"estado"})
ProductoCostoBody == Body({}, {})
\* dms
DocumentoBody == Body({"activo"}, {"estado"})
\* fin
AsientoContableBody == Body({"borrador"}, {"estado"})
PlanCuentasBody == Body({"activo"}, {"estado"})
PeriodoContableBody == Body({"abierto"}, {"estado"})
AsientoDetalleBody == Body({}, {"cabecera"})
\* hcm
PlanillaBody == Body({"borrador"}, {"estado"})
ContratoBody == Body({"vigente"}, {"estado"})
EmpleadoBody == Body({"activo"}, {"estado"})
ConceptoPlanillaBody == Body({"activo"}, {"estado"})
PrestamoBody == Body({"activo"}, {"estado"})
VacacionesBody == Body({"pendiente"}, {"estado"})
AsistenciaBody == Body({}, {})
PlanillaDetalleBody == Body({}, {})
PlanillaEmpleadoBody == Body({}, {})
\* inv
AlmacenBody == Body({"activo"}, {"estado"})
CategoriaBody == Body({"activo"}, {"estado"})
ProductoBody == Body({"activo"}, {"estado"})
TipoMovimientoBody == Body({"activo"}, {"estado"})
UnidadMedidaBody == Body({"activo"}, {"estado"})
StockBody == Body({}, {})
\* invbill
ComprobanteBody == Body({"borrador"}, {"estado"})
SerieBody == Body({"activo"}, {"estado"})
ComprobanteDetalleBody == Body({}, {})
\* log
DespachoBody == Body({"planificado"}, {"estado"})
GuiaRemisionBody == Body({"emitida"}, {"estado"})
RutaBody == Body({"activo"}, {"estado"})
TransportistaBody == Body({"activo"}, {"estado"})
VehiculoBody == Body({"activo"}, {"estado"})
DespachoGuiaBody == Body({}, {"cabecera"})
GuiaRemisionDetalleBody == Body({}, {})
\* mfg
OrdenProduccionBody == Body({"borrador"}, {"estado"})
ListaMaterialesBody == Body({"borrador"}, {"estado"})
RutaFabricacionBody == Body({"borrador"}, {"estado"})
CentroTrabajoBody == Body({"activo"}, {"estado"})
OperacionBody == Body({"activo"}, {"estado"})
ConsumoMaterialesBody == Body({}, {"cabecera"})
OrdenProduccionOperacionBody == Body({}, {})
ListaMaterialesDetalleBody == Body({}, {})
RutaFabricacionDetalleBody == Body({}, {})
\* mnt
OrdenTrabajoBody == Body({"solicitada"}, {"estado"})
ActivoBody == Body({"activo"}, {"estado"})
PlanMantenimientoBody == Body({"activo"}, {"estado"})
HistorialMantenimientoBody == Body({}, {})
\* mps
PlanProduccionBody == Body({"borrador"}, {"estado"})
PronosticoDemandaBody == Body({}, {})
PlanProduccionDetalleBody == Body({}, {"cabecera"})
\* mrp
PlanMaestroBody == Body({"borrador"}, {"estado"})
OrdenSugeridaBody == Body({"sugerida"}, {"estado"})
NecesidadBrutaBody == Body({}, {"cabecera"})
ExplosionMaterialesBody == Body({}, {"cabecera"})
\* org
CargoBody == Body({"activo"}, {"estado"})
CentroCostoBody == Body({"activo"}, {"estado"})
DepartamentoBody == Body({"activo"}, {"estado"})
EmpresaBody == Body({"activo"}, {"estado"})
SucursalBody == Body({"activo"}, {"estado"})
ParametroBody == Body({"activo"}, {"estado"})
\* pm
ProyectoBody == Body({"planificado"}, {"estado"})
\* pos
VentaBody == Body({"completada"}, {"estado"})
PuntoVentaBody == Body({"activo"}, {"estado"})
TurnoCajaBody == Body({"abierto"}, {"estado"})
VentaDetalleBody == Body({}, {})
\* prc
ListaPrecioBody == Body({"activo"}, {"estado"})
PromocionBody == Body({"activo"}, {"estado"})
ListaPrecioDetalleBody == Body({}, {})
\* pur
SolicitudCompraBody == Body({"borrador"}, {"estado"})
OrdenCompraBody == Body({"borrador"}, {"estado"})
CotizacionCompraBody == Body({"pendiente"}, {"estado"})
RecepcionBody == Body({"borrador"}, {"estado"})
ProveedorContactoBody == Body({"activo"}, {"estado"})
ProductoProveedorBody == Body({"activo"}, {"estado"})
ProveedorBody == Body({"activo"}, {"estado"})
SolicitudDetalleBody == Body({}, {})
OrdenCompraDetalleBody == Body({}, {})
CotizacionCompraDetalleBody == Body({}, {})
RecepcionDetalleBody == Body({}, {})
\* qms
NoConformidadBody == Body({"abierta"}, {"estado"})
InspeccionBody == Body({"pendiente"}, {"estado"})
ParametroCalidadBody == Body({"activo"}, {"estado"})
PlanInspeccionBody == Body({"activo"}, {"estado"})
InspeccionDetalleBody == Body({}, {})
PlanInspeccionDetalleBody == Body({}, {})
\* sls
CotizacionVentaBody == Body({"borrador"}, {"estado"})
PedidoBody == Body({"borrador"}, {"estado"})
ClienteBody == Body({"activo"}, {"estado"})
ClienteContactoBody == Body({"activo"}, {"estado"})
ClienteDireccionBody == Body({"activo"}, {"estado"})
CotizacionVentaDetalleBody == Body({}, {})
PedidoDetalleBody == Body({}, {})
\* svc
OrdenServicioBody == Body({"solicitada"}, {"estado"})
\* tax
LibroElectronicoBody == Body({}, {})
\* tkt
TicketBody == Body({"abierto"}, {"estado"})
\* wfl
FlujoTrabajoBody == Body({"activo"}, {"estado"})
\* wms
TareaBody == Body({"pendiente"}, {"estado"})
UbicacionBody == Body({"activo"}, {"estado"})
ZonaAlmacenBody == Body({"activo"}, {"estado"})
StockUbicacionBody == Body({}, {})
\* modulos
ModuloBody == Body({"activo"}, {"estado"})
SeccionBody == Body({"activo"}, {"estado"})
MenuBody == Body({"activo"}, {"estado"})
RolPlantillaBody == Body({"activo"}, {"estado"})
\* rbac
RolBody == Body({"activo"}, {"estado"})
\* superadmin
MonedaBody == Body({"activo"}, {"estado"})
PaisBody == Body({"activo"}, {"estado"})
DepartamentoGlobalBody == Body({"activo"}, {"estado"})
ProvinciaBody == Body({"activo"}, {"estado"})
DistritoBody == Body({"activo"}, {"estado"})
\* tenant
ConexionBody == Body({}, {"estado"})
ClienteSaaSBody == Body({"activo"}, {"estado"})
\* users
UsuarioBody == Body({"activo"}, {"estado"})
=============================================================================
