--------------------------- MODULE DocumentsProps ---------------------------
(***************************************************************************)
(* Correctness of the document life cycles.                                *)
(***************************************************************************)
EXTENDS Documents

\* The estados an operation moves a document out of.
Sources(o) == IF o.where = {} THEN o.from ELSE o.where

\* Where a document starts when its POST names no estado.
First == [n \in DOMAIN Types |-> CHOOSE s \in Types[n].inicial : TRUE]

\* Which estados must come before which: the orders the services name, for
\* the types whose PUT cannot skip them.
ComesFirst ==
    [tkt_ticket |-> {<<"asignado", "en_proceso">>, <<"en_proceso", "resuelto">>,
                     <<"resuelto", "cerrado">>},
     svc_orden_servicio |-> {<<"asignada", "en_proceso">>,
                             <<"en_proceso", "completada">>},
     tax_libro_electronico |-> {<<"generado", "enviado">>},
     fin_asiento |-> {<<"aprobado", "registrado">>},
     wms_tarea |-> {<<"asignada", "en_proceso">>, <<"en_proceso", "completada">>},
     mfg_orden_produccion |-> {<<"liberada", "en_proceso">>,
                               <<"liberada", "pausada">>, <<"en_proceso", "pausada">>,
                               <<"en_proceso", "completada">>,
                               <<"completada", "cerrada">>},
     mps_plan |-> {<<"aprobado", "ejecutado">>, <<"ejecutado", "cerrado">>},
     mrp_plan |-> {<<"calculado", "aprobado">>, <<"aprobado", "ejecutado">>,
                   <<"ejecutado", "cerrado">>},
     mrp_orden_sugerida |-> {<<"aprobada", "convertida">>},
     bdg_presupuesto |-> {<<"aprobado", "vigente">>},
     qms_inspeccion |-> {<<"aprobado", "procesado">>}]

\* Estado s is e, or one that e comes before.
After(n, e, s) == s = e \/ <<e, s>> \in ComesFirst[n]

\* The table of type n respects the order: no operation and no PUT enters
\* p[2] from outside it, or brings a document back to its first estado.
Ordered(n) ==
    LET t == Types[n] IN
    /\ \A o \in DOMAIN t.ops :
         /\ t.ops[o].to # First[n]
         /\ \A p \in ComesFirst[n] : t.ops[o].to = p[2] =>
              \A s \in Sources(t.ops[o]) : After(n, p[1], s)
    /\ \A s \in DOMAIN t.put :
         /\ First[n] \in t.put[s] => s = First[n]
         /\ \A p \in ComesFirst[n] : p[2] \in t.put[s] => s = p[2] \/ After(n, p[1], s)
    /\ \A p \in ComesFirst[n] : p[2] # First[n]

ASSUME OrderAssumption == \A n \in DOMAIN Types \cap DOMAIN ComesFirst : Ordered(n)

\* No approval is skipped, whatever requests race: an entry is registered
\* only after it was approved, a production order completed only after it
\* was released and started, a budget in force only after its approval.
NothingIsSkipped ==
    tipo \in DOMAIN ComesFirst /\ First[tipo] \in visited =>
        \A p \in ComesFirst[tipo] : p[2] \in visited => p[1] \in visited

\* The endpoints implement the life cycle: each request has one effect at one
\* moment, and its answer says whether it had.
LC == INSTANCE LifeCycle
ImplementsLifeCycle == LC!Spec
=============================================================================
