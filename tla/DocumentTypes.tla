--------------------------- MODULE DocumentTypes ---------------------------
(***************************************************************************)
(* The life cycles of the business documents, as the services enforce      *)
(* them: one record for each table that has an estado and operations that  *)
(* move it.                                                                *)
(*                                                                         *)
(*   states   the estados the table's comments and the services name       *)
(*   created  the estados a POST may give a new document                   *)
(*   put      for each estado in which a PUT is accepted, the estados it   *)
(*            may write: {} when the service drops or rejects the field    *)
(*   ops      the transitions                                              *)
(*                                                                         *)
(* A transition is accepted when the estado read is in "from", answered    *)
(* without a write when it is in "done", and writes "to".  What the bodies *)
(* carry, what the statements repeat and what the routers expose are in    *)
(* DocumentBodies, DocumentRows and DocumentRoutes; DocumentCatalogue puts *)
(* the four together.                                                      *)
(***************************************************************************)
Blind(from, to) ==
    [from |-> from, done |-> {}, where |-> {}, to |-> to, miss |-> "refused"]
\* The target estado is answered with the document as it is.
Repeatable(o) == [o EXCEPT !.done = {o.to}]
\* An UPDATE that finds no row is answered with the document as it is, or
\* with success when the document turns out to be in the target estado.
Silent(o) == [o EXCEPT !.miss = "row"]
Reread(o) == [o EXCEPT !.miss = "reread"]

\* The PUT may write any of T, only the estado it read, or no estado.
AnyOf(S, T) == [s \in S |-> T]
Same(S) == [s \in S |-> {s}]
Stripped(S) == [s \in S |-> {}]

-----------------------------------------------------------------------------
(***************************************************************************)
(* Documents whose transitions repeat an estado in the UPDATE.             *)
(***************************************************************************)
Ticket ==
    LET states == {"abierto", "asignado", "en_proceso", "resuelto", "cerrado"}
        Step(to) == Repeatable(Blind(states \ {to}, to))
    IN  [states |-> states, created |-> states,
         put |-> Same({"abierto", "asignado"}),
         ops |-> [asignar |-> Repeatable(Blind({"abierto"}, "asignado")),
                  iniciar |-> Step("en_proceso"),
                  resolver |-> Step("resuelto"),
                  cerrar |-> Step("cerrado")]]

OrdenServicio ==
    LET states == {"solicitada", "asignada", "en_proceso", "completada", "cancelada"}
        Step(to) == Repeatable(Blind(states \ {to}, to))
    IN  [states |-> states, created |-> states,
         put |-> Same({"solicitada", "asignada"}),
         ops |-> [asignar |-> Step("asignada"),
                  iniciar |-> Step("en_proceso"),
                  completar |-> Step("completada"),
                  cancelar |-> Step("cancelada")]]

\* libro_estados.py
ESTADOS_ANULABLES == {"borrador", "generado", "enviado", "rechazado"}
LibroElectronico ==
    [states |-> {"borrador", "generado", "enviado", "aceptado", "rechazado", "anulado"},
     created |-> {"borrador"},
     put |-> Stripped({"borrador"}),
     ops |-> [marcar_generado |-> Blind({"borrador"}, "generado"),
              registrar_envio |-> Blind({"generado"}, "enviado"),
              anular |-> Blind(ESTADOS_ANULABLES, "anulado")]]

Documento ==
    LET states == {"activo", "archivado", "eliminado"}
        Step(to) == Silent(Blind(states, to))
    IN  [states |-> states, created |-> states,
         put |-> AnyOf(states, states),
         ops |-> [archivar |-> Step("archivado"), restaurar |-> Step("activo"),
                  eliminar |-> Step("eliminado")]]

Comprobante ==
    LET states == {"borrador", "emitido", "anulado", "dado_baja"}
    IN  [states |-> states, created |-> states,
         put |-> AnyOf({"borrador"}, states),
         ops |-> [anular |-> Blind(states \ {"anulado"}, "anulado"),
                  procesar |-> Blind({"borrador"}, "emitido")]]

SolicitudCompra ==
    LET states == {"borrador", "pendiente_aprobacion", "aprobada", "rechazada",
                   "procesada", "anulada"}
        editable == {"borrador", "pendiente_aprobacion"}
        anulable == editable \cup {"aprobada"}
    IN  [states |-> states, created |-> states,
         put |-> AnyOf(editable, states),
         ops |-> [aprobar |-> Blind(editable, "aprobada"),
                  rechazar |-> Blind(editable, "rechazada"),
                  marcar_procesada |-> Blind({"aprobada"}, "procesada"),
                  anular |-> Reread(Blind(anulable, "anulada"))]]

-----------------------------------------------------------------------------
(***************************************************************************)
(* Documents whose UPDATE names the row only.                              *)
(***************************************************************************)
Venta ==
    LET states == {"borrador", "pendiente", "completada", "anulada"}
        editable == {"borrador", "pendiente"}
    IN  [states |-> states, created |-> states,
         put |-> AnyOf(editable, states \ {"anulada"}),
         ops |-> [anular |-> Blind(states \ {"anulada"}, "anulada")]]

AsientoContable ==
    LET states == {"borrador", "registrado", "aprobado", "anulado"}
    IN  [states |-> states, created |-> states,
         put |-> Stripped({"borrador"}),
         ops |-> [aprobar |-> Blind({"borrador"}, "aprobado"),
                  registrar |-> Blind({"aprobado"}, "registrado"),
                  anular |-> Blind({"borrador", "aprobado"}, "anulado")]]

Tarea ==
    LET states == {"borrador", "pendiente", "asignada", "en_proceso", "completada",
                   "cancelada"}
        open == {"pendiente", "borrador"}
    IN  [states |-> states, created |-> states,
         put |-> Stripped(open),
         ops |-> [asignar |-> Blind(open, "asignada"),
                  iniciar |-> Blind({"asignada"}, "en_proceso"),
                  completar |-> Blind({"en_proceso"}, "completada"),
                  cancelar |-> Blind(open \cup {"asignada", "en_proceso"},
                                     "cancelada")]]

OrdenProduccion ==
    LET states == {"borrador", "liberada", "en_proceso", "pausada", "completada",
                   "cerrada", "anulada"}
    IN  [states |-> states, created |-> states,
         put |-> Stripped({"borrador"}),
         ops |-> [liberar |-> Blind({"borrador"}, "liberada"),
                  iniciar |-> Blind({"liberada", "pausada"}, "en_proceso"),
                  finalizar |-> Blind({"en_proceso", "pausada"}, "completada"),
                  cerrar |-> Blind({"completada"}, "cerrada"),
                  anular |-> Blind({"borrador", "liberada"}, "anulada")]]

\* The bill of materials and the routing have the same life cycle.
Definicion ==
    LET states == {"borrador", "aprobada", "obsoleta"}
    IN  [states |-> states, created |-> states,
         put |-> Stripped({"borrador"}),
         ops |-> [aprobar |-> Blind({"borrador"}, "aprobada"),
                  anular |-> Blind({"borrador", "aprobada"}, "obsoleta")]]
ListaMateriales == Definicion
RutaFabricacion == Definicion

PlanProduccion ==
    LET states == {"borrador", "aprobado", "ejecutado", "cerrado", "anulado"}
    IN  [states |-> states, created |-> states,
         put |-> Same({"borrador"}),
         ops |-> [aprobar |-> Blind({"borrador"}, "aprobado"),
                  ejecutar |-> Blind({"aprobado"}, "ejecutado"),
                  cerrar |-> Blind({"ejecutado"}, "cerrado"),
                  anular |-> Blind({"borrador", "aprobado", "ejecutado"}, "anulado")]]

PlanMaestro ==
    LET states == {"borrador", "inicial", "calculado", "aprobado", "ejecutado",
                   "cerrado", "anulado"}
        editable == {"borrador", "inicial"}
    IN  [states |-> states, created |-> states,
         put |-> Same(editable),
         ops |-> [calcular |-> Blind(editable, "calculado"),
                  aprobar |-> Blind({"calculado"}, "aprobado"),
                  ejecutar |-> Blind({"aprobado"}, "ejecutado"),
                  cerrar |-> Blind({"ejecutado"}, "cerrado"),
                  anular |-> Blind(editable \cup {"calculado", "aprobado"},
                                   "anulado")]]

OrdenSugerida ==
    LET states == {"sugerida", "aprobada", "convertida", "rechazada"}
    IN  [states |-> states, created |-> states,
         put |-> Stripped({"sugerida"}),
         ops |-> [aprobar |-> Blind({"sugerida"}, "aprobada"),
                  rechazar |-> Blind({"sugerida", "aprobada"}, "rechazada"),
                  convertir |-> Blind({"aprobada"}, "convertida")]]

OrdenTrabajo ==
    LET states == {"solicitada", "programada", "en_proceso", "pausada", "completada",
                   "cerrada", "cancelada"}
    IN  [states |-> states, created |-> states,
         put |-> AnyOf({"solicitada", "programada"}, states),
         ops |-> [programar |-> Blind({"solicitada"}, "programada"),
                  iniciar |-> Blind({"programada"}, "en_proceso"),
                  pausar |-> Blind({"en_proceso"}, "pausada"),
                  reanudar |-> Blind({"pausada"}, "en_proceso"),
                  completar |-> Blind({"en_proceso"}, "completada"),
                  cancelar |-> Blind(states \ {"cerrada", "cancelada"}, "cancelada"),
                  cerrar |-> Blind({"completada"}, "cerrada")]]

Presupuesto ==
    [states |-> {"borrador", "aprobado", "vigente", "cerrado", "anulado"},
     created |-> {"borrador"},
     put |-> Stripped({"borrador"}),
     ops |-> [aprobar |-> Blind({"borrador"}, "aprobado"),
              procesar |-> Blind({"aprobado"}, "vigente"),
              anular |-> Blind({"borrador", "aprobado"}, "anulado")]]

Planilla ==
    LET states == {"borrador", "calculada", "aprobada", "pagada", "cerrada"}
    IN  [states |-> states, created |-> states,
         put |-> AnyOf({"borrador"}, states),
         ops |-> [calcular |-> Blind({"borrador"}, "calculada"),
                  aprobar |-> Blind({"calculada"}, "aprobada"),
                  marcar_pagada |-> Blind({"aprobada"}, "pagada"),
                  cerrar |-> Blind({"pagada"}, "cerrada")]]

\* estado_contrato
Contrato ==
    LET states == {"borrador", "vigente", "vencido", "rescindido"}
    IN  [states |-> states, created |-> states,
         put |-> AnyOf(states, states),
         ops |-> [rescindir |-> Blind(states \ {"rescindido"}, "rescindido")]]

NoConformidad ==
    LET states == {"abierta", "en_analisis", "en_accion", "cerrada", "cancelada"}
        open == states \ {"cerrada", "cancelada"}
    IN  [states |-> states, created |-> states,
         put |-> AnyOf(states, open),
         ops |-> [cerrar |-> Blind(open, "cerrada"),
                  cancelar |-> Blind(open, "cancelada")]]

Despacho ==
    LET states == {"borrador", "planificado", "en_ruta", "completado", "cancelado"}
        open == states \ {"completado", "cancelado"}
    IN  [states |-> states, created |-> states,
         put |-> AnyOf({"borrador"}, states),
         ops |-> [completar |-> Repeatable(Blind(open, "completado")),
                  anular |-> Repeatable(Blind(open, "cancelado"))]]

GuiaRemision ==
    LET states == {"borrador", "emitida", "en_transito", "entregada", "anulada"}
    IN  [states |-> states, created |-> states,
         put |-> AnyOf({"borrador"}, states),
         ops |-> [anular |-> Repeatable(Blind(states \ {"anulada"}, "anulada"))]]

Oportunidad ==
    LET states == {"abierta", "ganada", "perdida", "cancelada"}
        Close(to) == Repeatable(Blind({"abierta"}, to))
    IN  [states |-> states, created |-> states,
         put |-> AnyOf(states, states),
         ops |-> [marcar_ganada |-> Close("ganada"),
                  marcar_perdida |-> Close("perdida"),
                  cancelar |-> Close("cancelada")]]

CotizacionVenta ==
    LET states == {"borrador", "enviada", "aceptada", "rechazada", "vencida",
                   "convertida"}
        open == {"enviada", "borrador"}
    IN  [states |-> states, created |-> states,
         put |-> AnyOf({"borrador"}, states),
         ops |-> [enviar |-> Blind({"borrador"}, "enviada"),
                  aceptar |-> Blind(open, "aceptada"),
                  rechazar |-> Blind(open, "rechazada"),
                  convertir_a_pedido |-> Blind({"aceptada"}, "convertida")]]

Pedido ==
    LET states == {"borrador", "confirmado", "aprobado", "parcial", "completo",
                   "facturado", "anulado"}
    IN  [states |-> states, created |-> states,
         put |-> AnyOf({"borrador"}, states),
         ops |-> [confirmar |-> Blind({"borrador"}, "confirmado"),
                  aprobar |-> Blind({"confirmado", "borrador"}, "aprobado"),
                  anular |-> Repeatable(Blind(states \ {"anulado"}, "anulado"))]]

OrdenCompra ==
    LET states == {"borrador", "emitida", "aprobada", "parcial", "completa", "anulada"}
    IN  [states |-> states, created |-> states,
         put |-> AnyOf({"borrador"}, states),
         ops |-> [aprobar |-> Blind({"borrador", "emitida"}, "aprobada"),
                  anular |-> Blind(states \ {"completa", "anulada"}, "anulada"),
                  emitir |-> Blind({"borrador"}, "emitida")]]

CotizacionCompra ==
    LET states == {"pendiente", "recibida", "evaluada", "aceptada", "rechazada",
                   "vencida"}
    IN  [states |-> states, created |-> states,
         put |-> AnyOf({"pendiente"}, states),
         ops |-> [aceptar |-> Blind({"pendiente", "recibida", "evaluada"}, "aceptada"),
                  rechazar |-> Blind(states \ {"rechazada", "aceptada", "vencida"},
                                     "rechazada")]]

\* procesar has no effect of its own: it stops at the INSERT of its stock
\* movement, which leaves out moneda_id, a column that takes no NULL.
Recepcion ==
    LET states == {"borrador", "inspeccion", "procesada", "aprobada", "anulada"}
    IN  [states |-> states, created |-> states,
         put |-> AnyOf({"borrador"}, states),
         ops |-> [procesar |-> Repeatable(Blind({}, "procesada")),
                  aprobar |-> Blind({"inspeccion"}, "aprobada"),
                  anular |-> Blind(states \ {"procesada", "anulada"}, "anulada")]]

\* resultado
Inspeccion ==
    LET states == {"pendiente", "aprobado", "rechazado", "aprobado_condicional",
                   "procesado", "anulado"}
    IN  [states |-> states, created |-> states,
         put |-> Stripped({"pendiente"}),
         ops |-> [aprobar |-> Blind({"pendiente"}, "aprobado"),
                  procesar |-> Blind({"aprobado"}, "procesado"),
                  anular |-> Blind(states \ {"procesado", "anulado"}, "anulado")]]

-----------------------------------------------------------------------------
(***************************************************************************)
(* Lines: the estados of its document in which a line may be created or    *)
(* edited.  The services read the document, decide, and write the line.    *)
(***************************************************************************)
ComprobanteDetalle == {"borrador"}
SolicitudDetalle == {"borrador", "pendiente_aprobacion"}
VentaDetalle == {"borrador", "pendiente"}
AsientoDetalle == {"borrador"}
ConsumoMateriales == {"borrador"}
OrdenProduccionOperacion == {"borrador"}
ListaMaterialesDetalle == {"borrador"}
RutaFabricacionDetalle == {"borrador"}
PlanProduccionDetalle == {"borrador"}
PresupuestoDetalle == {"borrador"}
PlanillaDetalle == {"borrador"}
PlanillaEmpleado == {"borrador"}
OrdenCompraDetalle == {"borrador"}
CotizacionCompraDetalle == {"pendiente"}
RecepcionDetalle == {"borrador"}
InspeccionDetalle == {"pendiente"}

\* Replaced as a whole, by a PUT of the document's details.
CotizacionVentaDetalle == {"borrador"}
PedidoDetalle == {"borrador"}

\* The document's estado is not looked at.
NecesidadBruta == PlanMaestro.states
DespachoGuia == Despacho.states
GuiaRemisionDetalle == GuiaRemision.states

\* A derived table: both services refuse every request.
ExplosionMateriales == {}
=============================================================================
