------------------------- MODULE DocumentCatalogue -------------------------
(***************************************************************************)
(* The tables as their clients meet them: what the routes expose of what   *)
(* the services allow, with the bodies that reach them and the statements  *)
(* they send.                                                              *)
(***************************************************************************)
EXTENDS RegisterTypes, DocumentBodies, DocumentRows, DocumentRoutes

\* The estados the statement of an operation repeats.
Repite(filas, o) == IF o \in DOMAIN filas THEN filas[o] ELSE {}

\* A table of lines.  An edit moves a line to another document when its body
\* may carry the document's key and its UPDATE does not repeat it.
Lineas(estados, cuerpo, filas, rutas) ==
    [in |-> IF rutas \cap {"crear", "editar"} = {} THEN {} ELSE estados,
     loose |-> /\ estados # {} /\ "editar" \in rutas
               /\ "cabecera" \in cuerpo.put \ DOMAIN filas]

Expuesta(tabla, cuerpo, filas, rutas, tablasDeLineas) ==
    [states |-> tabla.states,
     created |-> tabla.created,
     inicial |-> IF cuerpo.inicial = {} THEN tabla.created ELSE cuerpo.inicial,
     put |-> [s \in IF "editar" \in rutas THEN DOMAIN tabla.put ELSE {} |->
                 IF "estado" \in cuerpo.put THEN tabla.put[s] ELSE {}],
     putWhere |-> Repite(filas, "editar"),
     ops |-> [o \in DOMAIN tabla.ops \cap rutas |->
                 [tabla.ops[o] EXCEPT !.where = Repite(filas, o)]],
     reads |-> [o \in rutas \cap {"listar", "ver"} |-> Repite(filas, o)],
     lines |-> [in |-> UNION {l.in : l \in tablasDeLineas},
                loose |-> \E l \in tablasDeLineas : l.loose]]

-----------------------------------------------------------------------------
ComprobanteDetalleLineas ==
    Lineas(ComprobanteDetalle, ComprobanteDetalleBody, ComprobanteDetalleRows,
           ComprobanteDetalleRoutes)
SolicitudDetalleLineas ==
    Lineas(SolicitudDetalle, SolicitudDetalleBody, SolicitudDetalleRows,
           SolicitudDetalleRoutes)
VentaDetalleLineas ==
    Lineas(VentaDetalle, VentaDetalleBody, VentaDetalleRows, VentaDetalleRoutes)
AsientoDetalleLineas ==
    Lineas(AsientoDetalle, AsientoDetalleBody, AsientoDetalleRows,
           AsientoDetalleRoutes)
ConsumoMaterialesLineas ==
    Lineas(ConsumoMateriales, ConsumoMaterialesBody, ConsumoMaterialesRows,
           ConsumoMaterialesRoutes)
OrdenProduccionOperacionLineas ==
    Lineas(OrdenProduccionOperacion, OrdenProduccionOperacionBody,
           OrdenProduccionOperacionRows, OrdenProduccionOperacionRoutes)
ListaMaterialesDetalleLineas ==
    Lineas(ListaMaterialesDetalle, ListaMaterialesDetalleBody,
           ListaMaterialesDetalleRows, ListaMaterialesDetalleRoutes)
RutaFabricacionDetalleLineas ==
    Lineas(RutaFabricacionDetalle, RutaFabricacionDetalleBody,
           RutaFabricacionDetalleRows, RutaFabricacionDetalleRoutes)
PlanProduccionDetalleLineas ==
    Lineas(PlanProduccionDetalle, PlanProduccionDetalleBody,
           PlanProduccionDetalleRows, PlanProduccionDetalleRoutes)
NecesidadBrutaLineas ==
    Lineas(NecesidadBruta, NecesidadBrutaBody, NecesidadBrutaRows,
           NecesidadBrutaRoutes)
ExplosionMaterialesLineas ==
    Lineas(ExplosionMateriales, ExplosionMaterialesBody, ExplosionMaterialesRows,
           ExplosionMaterialesRoutes)
PresupuestoDetalleLineas ==
    Lineas(PresupuestoDetalle, PresupuestoDetalleBody, PresupuestoDetalleRows,
           PresupuestoDetalleRoutes)
PlanillaDetalleLineas ==
    Lineas(PlanillaDetalle, PlanillaDetalleBody, PlanillaDetalleRows,
           PlanillaDetalleRoutes)
PlanillaEmpleadoLineas ==
    Lineas(PlanillaEmpleado, PlanillaEmpleadoBody, PlanillaEmpleadoRows,
           PlanillaEmpleadoRoutes)
DespachoGuiaLineas ==
    Lineas(DespachoGuia, DespachoGuiaBody, DespachoGuiaRows, DespachoGuiaRoutes)
GuiaRemisionDetalleLineas ==
    Lineas(GuiaRemisionDetalle, GuiaRemisionDetalleBody, GuiaRemisionDetalleRows,
           GuiaRemisionDetalleRoutes)
CotizacionVentaDetalleLineas ==
    Lineas(CotizacionVentaDetalle, CotizacionVentaDetalleBody,
           CotizacionVentaDetalleRows, CotizacionVentaDetalleRoutes)
PedidoDetalleLineas ==
    Lineas(PedidoDetalle, PedidoDetalleBody, PedidoDetalleRows, PedidoDetalleRoutes)
OrdenCompraDetalleLineas ==
    Lineas(OrdenCompraDetalle, OrdenCompraDetalleBody, OrdenCompraDetalleRows,
           OrdenCompraDetalleRoutes)
CotizacionCompraDetalleLineas ==
    Lineas(CotizacionCompraDetalle, CotizacionCompraDetalleBody,
           CotizacionCompraDetalleRows, CotizacionCompraDetalleRoutes)
RecepcionDetalleLineas ==
    Lineas(RecepcionDetalle, RecepcionDetalleBody, RecepcionDetalleRows,
           RecepcionDetalleRoutes)
InspeccionDetalleLineas ==
    Lineas(InspeccionDetalle, InspeccionDetalleBody, InspeccionDetalleRows,
           InspeccionDetalleRoutes)
PlanInspeccionDetalleLineas ==
    Lineas(PlanInspeccionDetalle, PlanInspeccionDetalleBody,
           PlanInspeccionDetalleRows, PlanInspeccionDetalleRoutes)
ListaPrecioDetalleLineas ==
    Lineas(ListaPrecioDetalle, ListaPrecioDetalleBody, ListaPrecioDetalleRows,
           ListaPrecioDetalleRoutes)

-----------------------------------------------------------------------------
Documentos ==
    [tkt_ticket |-> Expuesta(Ticket, TicketBody, TicketRows, TicketRoutes, {}),
     svc_orden_servicio |->
         Expuesta(OrdenServicio, OrdenServicioBody, OrdenServicioRows,
                  OrdenServicioRoutes, {}),
     tax_libro_electronico |->
         Expuesta(LibroElectronico, LibroElectronicoBody, LibroElectronicoRows,
                  LibroElectronicoRoutes, {}),
     dms_documento |->
         Expuesta(Documento, DocumentoBody, DocumentoRows, DocumentoRoutes, {}),
     invbill_comprobante |->
         Expuesta(Comprobante, ComprobanteBody, ComprobanteRows, ComprobanteRoutes,
                  {ComprobanteDetalleLineas}),
     pur_solicitud |->
         Expuesta(SolicitudCompra, SolicitudCompraBody, SolicitudCompraRows,
                  SolicitudCompraRoutes, {SolicitudDetalleLineas}),
     pos_venta |->
         Expuesta(Venta, VentaBody, VentaRows, VentaRoutes, {VentaDetalleLineas}),
     fin_asiento |->
         Expuesta(AsientoContable, AsientoContableBody, AsientoContableRows,
                  AsientoContableRoutes, {AsientoDetalleLineas}),
     wms_tarea |-> Expuesta(Tarea, TareaBody, TareaRows, TareaRoutes, {}),
     mfg_orden_produccion |->
         Expuesta(OrdenProduccion, OrdenProduccionBody, OrdenProduccionRows,
                  OrdenProduccionRoutes, {ConsumoMaterialesLineas,
                  OrdenProduccionOperacionLineas}),
     mfg_lista_materiales |->
         Expuesta(ListaMateriales, ListaMaterialesBody, ListaMaterialesRows,
                  ListaMaterialesRoutes, {ListaMaterialesDetalleLineas}),
     mfg_ruta |->
         Expuesta(RutaFabricacion, RutaFabricacionBody, RutaFabricacionRows,
                  RutaFabricacionRoutes, {RutaFabricacionDetalleLineas}),
     mps_plan |->
         Expuesta(PlanProduccion, PlanProduccionBody, PlanProduccionRows,
                  PlanProduccionRoutes, {PlanProduccionDetalleLineas}),
     mrp_plan |->
         Expuesta(PlanMaestro, PlanMaestroBody, PlanMaestroRows, PlanMaestroRoutes,
                  {NecesidadBrutaLineas, ExplosionMaterialesLineas}),
     mrp_orden_sugerida |->
         Expuesta(OrdenSugerida, OrdenSugeridaBody, OrdenSugeridaRows,
                  OrdenSugeridaRoutes, {}),
     mnt_orden_trabajo |->
         Expuesta(OrdenTrabajo, OrdenTrabajoBody, OrdenTrabajoRows,
                  OrdenTrabajoRoutes, {}),
     bdg_presupuesto |->
         Expuesta(Presupuesto, PresupuestoBody, PresupuestoRows, PresupuestoRoutes,
                  {PresupuestoDetalleLineas}),
     hcm_planilla |->
         Expuesta(Planilla, PlanillaBody, PlanillaRows, PlanillaRoutes,
                  {PlanillaDetalleLineas, PlanillaEmpleadoLineas}),
     hcm_contrato |->
         Expuesta(Contrato, ContratoBody, ContratoRows, ContratoRoutes, {}),
     qms_no_conformidad |->
         Expuesta(NoConformidad, NoConformidadBody, NoConformidadRows,
                  NoConformidadRoutes, {}),
     log_despacho |->
         Expuesta(Despacho, DespachoBody, DespachoRows, DespachoRoutes,
                  {DespachoGuiaLineas}),
     log_guia |->
         Expuesta(GuiaRemision, GuiaRemisionBody, GuiaRemisionRows,
                  GuiaRemisionRoutes, {GuiaRemisionDetalleLineas}),
     crm_oportunidad |->
         Expuesta(Oportunidad, OportunidadBody, OportunidadRows, OportunidadRoutes,
                  {}),
     sls_cotizacion |->
         Expuesta(CotizacionVenta, CotizacionVentaBody, CotizacionVentaRows,
                  CotizacionVentaRoutes, {CotizacionVentaDetalleLineas}),
     sls_pedido |->
         Expuesta(Pedido, PedidoBody, PedidoRows, PedidoRoutes,
                  {PedidoDetalleLineas}),
     pur_orden_compra |->
         Expuesta(OrdenCompra, OrdenCompraBody, OrdenCompraRows, OrdenCompraRoutes,
                  {OrdenCompraDetalleLineas}),
     pur_cotizacion |->
         Expuesta(CotizacionCompra, CotizacionCompraBody, CotizacionCompraRows,
                  CotizacionCompraRoutes, {CotizacionCompraDetalleLineas}),
     pur_recepcion |->
         Expuesta(Recepcion, RecepcionBody, RecepcionRows, RecepcionRoutes,
                  {RecepcionDetalleLineas}),
     qms_inspeccion |->
         Expuesta(Inspeccion, InspeccionBody, InspeccionRows, InspeccionRoutes,
                  {InspeccionDetalleLineas})]

Registros ==
    [org_cargo |-> Expuesta(Cargo, CargoBody, CargoRows, CargoRoutes, {}),
     org_centro_costo |->
         Expuesta(CentroCosto, CentroCostoBody, CentroCostoRows, CentroCostoRoutes,
                  {}),
     org_departamento |->
         Expuesta(Departamento, DepartamentoBody, DepartamentoRows,
                  DepartamentoRoutes, {}),
     org_empresa |-> Expuesta(Empresa, EmpresaBody, EmpresaRows, EmpresaRoutes, {}),
     org_sucursal |->
         Expuesta(Sucursal, SucursalBody, SucursalRows, SucursalRoutes, {}),
     org_parametro |->
         Expuesta(Parametro, ParametroBody, ParametroRows, ParametroRoutes, {}),
     log_ruta |-> Expuesta(Ruta, RutaBody, RutaRows, RutaRoutes, {}),
     log_transportista |->
         Expuesta(Transportista, TransportistaBody, TransportistaRows,
                  TransportistaRoutes, {}),
     log_vehiculo |->
         Expuesta(Vehiculo, VehiculoBody, VehiculoRows, VehiculoRoutes, {}),
     cst_centro_costo_tipo |->
         Expuesta(CentroCostoTipo, CentroCostoTipoBody, CentroCostoTipoRows,
                  CentroCostoTipoRoutes, {}),
     fin_plan_cuentas |->
         Expuesta(PlanCuentas, PlanCuentasBody, PlanCuentasRows, PlanCuentasRoutes,
                  {}),
     hcm_empleado |->
         Expuesta(Empleado, EmpleadoBody, EmpleadoRows, EmpleadoRoutes, {}),
     invbill_serie |-> Expuesta(Serie, SerieBody, SerieRows, SerieRoutes, {}),
     pos_punto_venta |->
         Expuesta(PuntoVenta, PuntoVentaBody, PuntoVentaRows, PuntoVentaRoutes, {}),
     prc_lista_precio |->
         Expuesta(ListaPrecio, ListaPrecioBody, ListaPrecioRows, ListaPrecioRoutes,
                  {ListaPrecioDetalleLineas}),
     prc_promocion |->
         Expuesta(Promocion, PromocionBody, PromocionRows, PromocionRoutes, {}),
     sls_cliente |-> Expuesta(Cliente, ClienteBody, ClienteRows, ClienteRoutes, {}),
     mnt_activo |-> Expuesta(Activo, ActivoBody, ActivoRows, ActivoRoutes, {}),
     mnt_plan |->
         Expuesta(PlanMantenimiento, PlanMantenimientoBody, PlanMantenimientoRows,
                  PlanMantenimientoRoutes, {}),
     pur_contacto |->
         Expuesta(ProveedorContacto, ProveedorContactoBody, ProveedorContactoRows,
                  ProveedorContactoRoutes, {}),
     pur_producto_proveedor |->
         Expuesta(ProductoProveedor, ProductoProveedorBody, ProductoProveedorRows,
                  ProductoProveedorRoutes, {}),
     pur_proveedor |->
         Expuesta(Proveedor, ProveedorBody, ProveedorRows, ProveedorRoutes, {}),
     inv_almacen |-> Expuesta(Almacen, AlmacenBody, AlmacenRows, AlmacenRoutes, {}),
     inv_categoria |->
         Expuesta(Categoria, CategoriaBody, CategoriaRows, CategoriaRoutes, {}),
     inv_producto |->
         Expuesta(Producto, ProductoBody, ProductoRows, ProductoRoutes, {}),
     inv_tipo_movimiento |->
         Expuesta(TipoMovimiento, TipoMovimientoBody, TipoMovimientoRows,
                  TipoMovimientoRoutes, {}),
     inv_unidad_medida |->
         Expuesta(UnidadMedida, UnidadMedidaBody, UnidadMedidaRows,
                  UnidadMedidaRoutes, {}),
     bi_reporte |-> Expuesta(Reporte, ReporteBody, ReporteRows, ReporteRoutes, {}),
     hcm_concepto |->
         Expuesta(ConceptoPlanilla, ConceptoPlanillaBody, ConceptoPlanillaRows,
                  ConceptoPlanillaRoutes, {}),
     mfg_centro_trabajo |->
         Expuesta(CentroTrabajo, CentroTrabajoBody, CentroTrabajoRows,
                  CentroTrabajoRoutes, {}),
     mfg_operacion |->
         Expuesta(Operacion, OperacionBody, OperacionRows, OperacionRoutes, {}),
     qms_parametro |->
         Expuesta(ParametroCalidad, ParametroCalidadBody, ParametroCalidadRows,
                  ParametroCalidadRoutes, {}),
     qms_plan |->
         Expuesta(PlanInspeccion, PlanInspeccionBody, PlanInspeccionRows,
                  PlanInspeccionRoutes, {PlanInspeccionDetalleLineas}),
     sls_contacto |->
         Expuesta(ClienteContacto, ClienteContactoBody, ClienteContactoRows,
                  ClienteContactoRoutes, {}),
     sls_direccion |->
         Expuesta(ClienteDireccion, ClienteDireccionBody, ClienteDireccionRows,
                  ClienteDireccionRoutes, {}),
     wfl_flujo |->
         Expuesta(FlujoTrabajo, FlujoTrabajoBody, FlujoTrabajoRows,
                  FlujoTrabajoRoutes, {}),
     wms_ubicacion |->
         Expuesta(Ubicacion, UbicacionBody, UbicacionRows, UbicacionRoutes, {}),
     wms_zona |->
         Expuesta(ZonaAlmacen, ZonaAlmacenBody, ZonaAlmacenRows, ZonaAlmacenRoutes,
                  {}),
     fin_periodo |->
         Expuesta(PeriodoContable, PeriodoContableBody, PeriodoContableRows,
                  PeriodoContableRoutes, {}),
     pos_turno |->
         Expuesta(TurnoCaja, TurnoCajaBody, TurnoCajaRows, TurnoCajaRoutes, {}),
     crm_campana |-> Expuesta(Campana, CampanaBody, CampanaRows, CampanaRoutes, {}),
     crm_lead |-> Expuesta(Lead, LeadBody, LeadRows, LeadRoutes, {}),
     crm_actividad |->
         Expuesta(Actividad, ActividadBody, ActividadRows, ActividadRoutes, {}),
     hcm_prestamo |->
         Expuesta(Prestamo, PrestamoBody, PrestamoRows, PrestamoRoutes, {}),
     hcm_vacaciones |->
         Expuesta(Vacaciones, VacacionesBody, VacacionesRows, VacacionesRoutes, {}),
     pm_proyecto |-> Expuesta(Proyecto, ProyectoBody, ProyectoRows, ProyectoRoutes, {}),
     hcm_asistencia |->
         Expuesta(Asistencia, AsistenciaBody, AsistenciaRows, AsistenciaRoutes, {}),
     cst_producto_costo |->
         Expuesta(ProductoCosto, ProductoCostoBody, ProductoCostoRows,
                  ProductoCostoRoutes, {}),
     mnt_historial |->
         Expuesta(HistorialMantenimiento, HistorialMantenimientoBody,
                  HistorialMantenimientoRows, HistorialMantenimientoRoutes, {}),
     mps_pronostico |->
         Expuesta(PronosticoDemanda, PronosticoDemandaBody, PronosticoDemandaRows,
                  PronosticoDemandaRoutes, {}),
     inv_stock |-> Expuesta(Stock, StockBody, StockRows, StockRoutes, {}),
     wms_stock |->
         Expuesta(StockUbicacion, StockUbicacionBody, StockUbicacionRows,
                  StockUbicacionRoutes, {}),
     aud_log |->
         Expuesta(LogAuditoria, LogAuditoriaBody, LogAuditoriaRows,
                  LogAuditoriaRoutes, {}),
     modulo |-> Expuesta(Modulo, ModuloBody, PorClave, ModuloRoutes, {}),
     modulo_seccion |-> Expuesta(Seccion, SeccionBody, PorClave, SeccionRoutes, {}),
     modulo_menu |-> Expuesta(Menu, MenuBody, PorClave, MenuRoutes, {}),
     modulo_rol_plantilla |->
         Expuesta(RolPlantilla, RolPlantillaBody, PorClave, RolPlantillaRoutes, {}),
     rol |-> Expuesta(Rol, RolBody, PorClave, RolRoutes, {}),
     cat_moneda |-> Expuesta(Moneda, MonedaBody, PorClave, MonedaRoutes, {}),
     cat_pais |-> Expuesta(Pais, PaisBody, PorClave, PaisRoutes, {}),
     cat_departamento |->
         Expuesta(DepartamentoGlobal, DepartamentoGlobalBody, PorClave,
                  DepartamentoGlobalRoutes, {}),
     cat_provincia |->
         Expuesta(Provincia, ProvinciaBody, PorClave, ProvinciaRoutes, {}),
     cat_distrito |-> Expuesta(Distrito, DistritoBody, PorClave, DistritoRoutes, {}),
     cliente_conexion |->
         Expuesta(Conexion, ConexionBody, PorClave, ConexionRoutes, {}),
     cliente |->
         Expuesta(ClienteSaaS, ClienteSaaSBody, PorClave, ClienteSaaSRoutes, {}),
     usuario |-> Expuesta(Usuario, UsuarioBody, UsuarioRows, UsuarioRoutes, {})]

Everything == Documentos @@ Registros
=============================================================================
