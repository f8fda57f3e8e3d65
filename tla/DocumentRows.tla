---------------------------- MODULE DocumentRows ----------------------------
(***************************************************************************)
(* The statements behind the services: one definition for the queries of   *)
(* each table (infrastructure/database/queries).  All of them find the row *)
(* by its client and its own key; a definition says which ones also repeat *)
(* the estados they expect, by the operation they serve.  Filters the      *)
(* client of a list chooses are left out.                                  *)
(***************************************************************************)
EXTENDS DocumentTypes

PorClave == [o \in {} |-> {}]

\* es_eliminado = 0
Vigente == {"activo", "inactivo"}

-----------------------------------------------------------------------------
\* aud
LogAuditoriaRows == PorClave
\* bdg
PresupuestoRows == PorClave
PresupuestoDetalleRows == PorClave
\* bi
ReporteRows == PorClave
\* crm
OportunidadRows == PorClave
CampanaRows == PorClave
LeadRows == PorClave
ActividadRows == PorClave
\* cst
CentroCostoTipoRows == PorClave
ProductoCostoRows == PorClave
\* dms
DocumentoRows ==
    [archivar |-> {"activo"}, restaurar |-> {"archivado"},
     eliminar |-> {"activo", "archivado"}]
\* fin
AsientoContableRows == PorClave
PlanCuentasRows == PorClave
PeriodoContableRows == PorClave
AsientoDetalleRows == PorClave
\* hcm
PlanillaRows == PorClave
ContratoRows == PorClave
EmpleadoRows == PorClave
ConceptoPlanillaRows == PorClave
PrestamoRows == PorClave
VacacionesRows == PorClave
AsistenciaRows == PorClave
PlanillaDetalleRows == PorClave
PlanillaEmpleadoRows == PorClave
\* inv
AlmacenRows == PorClave
CategoriaRows == PorClave
ProductoRows == PorClave
TipoMovimientoRows == PorClave
UnidadMedidaRows == PorClave
StockRows == PorClave
\* invbill
ComprobanteRows ==
    [procesar |-> {"borrador"}, anular |-> {"borrador", "emitido", "dado_baja"}]
SerieRows == PorClave
ComprobanteDetalleRows == PorClave
\* log
DespachoRows == PorClave
GuiaRemisionRows == PorClave
RutaRows == PorClave
TransportistaRows == PorClave
VehiculoRows == PorClave
DespachoGuiaRows == PorClave
GuiaRemisionDetalleRows == PorClave
\* mfg
OrdenProduccionRows == PorClave
ListaMaterialesRows == PorClave
RutaFabricacionRows == PorClave
CentroTrabajoRows == PorClave
OperacionRows == PorClave
ConsumoMaterialesRows == PorClave
OrdenProduccionOperacionRows == PorClave
ListaMaterialesDetalleRows == PorClave
RutaFabricacionDetalleRows == PorClave
\* mnt
OrdenTrabajoRows == PorClave
ActivoRows == PorClave
PlanMantenimientoRows == PorClave
HistorialMantenimientoRows == PorClave
\* mps
PlanProduccionRows == PorClave
PronosticoDemandaRows == PorClave
PlanProduccionDetalleRows == PorClave
\* mrp
PlanMaestroRows == PorClave
OrdenSugeridaRows == PorClave
NecesidadBrutaRows == PorClave
ExplosionMaterialesRows == PorClave
\* org
CargoRows == PorClave
CentroCostoRows == PorClave
DepartamentoRows == PorClave
EmpresaRows == PorClave
SucursalRows == PorClave
ParametroRows == PorClave
\* pm
ProyectoRows == PorClave
\* pos
VentaRows == PorClave
PuntoVentaRows == PorClave
TurnoCajaRows == PorClave
VentaDetalleRows == PorClave
\* prc
ListaPrecioRows == PorClave
PromocionRows == PorClave
ListaPrecioDetalleRows == PorClave
\* pur
SolicitudCompraRows == [anular |-> {"borrador", "pendiente_aprobacion", "aprobada"}]
OrdenCompraRows == PorClave
CotizacionCompraRows == PorClave
RecepcionRows == PorClave
ProveedorContactoRows == PorClave
ProductoProveedorRows == PorClave
ProveedorRows == PorClave
SolicitudDetalleRows == PorClave
OrdenCompraDetalleRows == PorClave
CotizacionCompraDetalleRows == PorClave
RecepcionDetalleRows == PorClave
\* qms
NoConformidadRows == PorClave
InspeccionRows == PorClave
ParametroCalidadRows == PorClave
PlanInspeccionRows == PorClave
InspeccionDetalleRows == PorClave
PlanInspeccionDetalleRows == PorClave
\* sls
CotizacionVentaRows == PorClave
PedidoRows == PorClave
ClienteRows == PorClave
ClienteContactoRows == PorClave
ClienteDireccionRows == PorClave
CotizacionVentaDetalleRows == PorClave
PedidoDetalleRows == PorClave
\* svc
OrdenServicioRows ==
    [asignar |-> {"solicitada"}, iniciar |-> {"asignada"},
     completar |-> {"en_proceso"}, cancelar |-> {"solicitada", "asignada"}]
\* tax
LibroElectronicoRows ==
    [editar |-> {"borrador"}, marcar_generado |-> {"borrador"},
     registrar_envio |-> {"generado"}, anular |-> ESTADOS_ANULABLES]
\* tkt
TicketRows == [asignar |-> {"abierto"}, iniciar |-> {"asignado"},
                resolver |-> {"en_proceso"}, cerrar |-> {"resuelto"}]
\* wfl
FlujoTrabajoRows == PorClave
\* wms
TareaRows == PorClave
UbicacionRows == PorClave
ZonaAlmacenRows == PorClave
StockUbicacionRows == PorClave
\* users
UsuarioRows ==
    [listar |-> Vigente, ver |-> Vigente, editar |-> Vigente, eliminar |-> Vigente]
=============================================================================
