----------------------------- MODULE Inventory -----------------------------
(***************************************************************************)
(* The inventory module: stock movements (inv_movimiento and its lines),   *)
(* physical counts (inv_inventario_fisico) and the stock they move         *)
(* (inv_stock), statement by statement.                                    *)
(*                                                                         *)
(* The services read a document with a plain SELECT, decide, and write it  *)
(* with an UPDATE that does not ask for the state they read.  Posting and  *)
(* approving keep one unit of work open meanwhile; only estornar locks     *)
(* the row it read (UPDLOCK).  A statement waits while another unit of     *)
(* work has written the row it needs, or locked the row it writes.  What a *)
(* unit of work has written stays in "wrote" and "doc" until it commits.   *)
(***************************************************************************)
EXTENDS Integers, Sequences, FiniteSets

CONSTANTS
    Warehouses, Products,
    Movements,    \* movimiento_id values
    Counts,       \* inventario_fisico_id values
    Workers,      \* concurrent requests
    Headers,      \* the movement headers clients write
    LineLists,    \* the line lists clients write: sequences of Line
    CountLists,   \* the count sheets clients write: sequences of CountLine
    MaxStock,     \* the largest cantidad_actual its DECIMAL column holds
    MaxLines,     \* bound of the lines a document may grow to
    Operations,   \* the operations requests may ask for
    None          \* SQL NULL, and a row that does not exist

OperationNames == {"procesar", "autorizar", "anular", "editar", "linea", "estornar",
                   "aprobar", "finalizar", "anular_conteo", "editar_conteo"}

Cells == Warehouses \X Products

Line == [product : Products, qty : Int, priced : BOOLEAN]
CountLine == [product : Products, sistema : Nat, contada : Nat \cup {None},
              priced : BOOLEAN]

\* What a client fills in: documento_referencia_* is free on these too.
Header == [clase : {"entrada", "salida", "transferencia", "ajuste"},
           origen : Warehouses \cup {None}, destino : Warehouses \cup {None},
           costed : BOOLEAN, requires : BOOLEAN,
           refKind : {"none", "estorno", "conteo"},
           ref : Movements \cup Counts \cup {None}]

ASSUME InputAssumption ==
    /\ Headers \subseteq Header
    /\ LineLists \subseteq Seq(Line)
    /\ CountLists \subseteq Seq(CountLine)
    /\ Operations \subseteq OperationNames
    /\ MaxStock \in Nat /\ MaxLines \in Nat
ASSUME NoneAssumption ==
    /\ None \notin Warehouses /\ None \notin Movements /\ None \notin Counts
    /\ None \notin Nat /\ Movements \cap Counts = {}

VARIABLES
    stock,      \* cantidad_actual of each inv_stock row
    movement,   \* inv_movimiento rows, each with its lines
    conteo,     \* inv_inventario_fisico rows, each with its lines
    op,         \* the operation a worker performs
    at,         \* its next statement
    target,     \* the document it was called with
    doc,        \* the movement it posts, or the values it will write
    fresh,      \* the id of the movement it inserts
    next,       \* the next posting of doc
    seen,       \* the stock it has just read
    wrote       \* the stock it has written and not committed

rows == <<stock, movement, conteo>>
request == <<op, target, fresh>>
vars == <<rows, request, at, doc, next, seen, wrote>>

\* The maker of a row is no column: it tells the rows estornar and aprobar
\* insert from those whose documento_referencia_* a client filled in.
Estados == {"borrador", "autorizado", "procesado", "estornado", "anulado"}
Movement == [header : Header, lines : Seq(Line), estado : Estados,
             maker : {"client", "estornar", "aprobar"}]
Conteo == [estado : {"en_proceso", "finalizado", "ajustado", "anulado"},
           almacen : Warehouses, lines : Seq(CountLine),
           ajuste : Movements \cup {None}]

ASSUME NullAssumption ==
    None \notin Movement /\ None \notin Conteo /\ None \notin [Cells -> Int]

\* A value that a request may leave out.
Or(new, old) == IF new = None THEN old ELSE new

TypeOK ==
    /\ stock \in [Cells -> Nat \cup {None}]
    /\ movement \in [Movements -> Movement \cup {None}]
    /\ conteo \in [Counts -> Conteo \cup {None}]
    /\ op \in [Workers -> OperationNames \cup {"none"}]
    /\ at \in [Workers -> {"begin", "write", "lines", "lock", "gates", "totals",
                          "post", "store"}]
    /\ target \in [Workers -> Movements \cup Counts \cup {None}]
    /\ doc \in [Workers -> Movement \cup Conteo \cup {None}]
    /\ fresh \in [Workers -> Movements \cup {None}]
    /\ next \in [Workers -> Nat]
    /\ seen \in [Workers -> Nat \cup {None}]
    /\ wrote \in [Workers -> [Cells -> Nat \cup {None}]]

NothingWritten == [c \in Cells |-> None]

Init ==
    /\ stock = [c \in Cells |-> None]
    /\ movement = [m \in Movements |-> None]
    /\ conteo = [c \in Counts |-> None]
    /\ op = [w \in Workers |-> "none"]
    /\ at = [w \in Workers |-> "begin"]
    /\ target = [w \in Workers |-> None]
    /\ doc = [w \in Workers |-> None]
    /\ fresh = [w \in Workers |-> None]
    /\ next = [w \in Workers |-> 0]
    /\ seen = [w \in Workers |-> None]
    /\ wrote = [w \in Workers |-> NothingWritten]

-----------------------------------------------------------------------------
(***************************************************************************)
(* Row locks.  An estorno holds an update lock on its original, an         *)
(* approval has written its count, a posting has written stock rows: each  *)
(* until its unit of work ends.                                            *)
(***************************************************************************)
HoldsMovement(w, m) ==
    op[w] = "estornar" /\ at[w] # "lock" /\ target[w] = m
HoldsConteo(w, c) ==
    op[w] = "aprobar" /\ at[w] \in {"post", "store"} /\ target[w] = c

MovementHolders(m) == {w \in Workers : HoldsMovement(w, m)}
ConteoHolders(c) == {w \in Workers : HoldsConteo(w, c)}
StockHolders(c) == {w \in Workers : wrote[w][c] # None}

\* What a worker reads: its own uncommitted write before the row.
InView(w, c) == IF wrote[w][c] # None THEN wrote[w][c] ELSE stock[c]

-----------------------------------------------------------------------------
(***************************************************************************)
(* Postings of a movement: one for each line, two for a transfer.          *)
(***************************************************************************)
Legs(d) == IF d.header.clase = "transferencia" THEN 2 ELSE 1
PostingCount(d) == Len(d.lines) * Legs(d)
LineOf(d, k) == d.lines[((k - 1) \div Legs(d)) + 1]

\* Whether posting k takes from the origin warehouse.
Outgoing(d, k) ==
    \/ d.header.clase = "salida"
    \/ d.header.clase = "transferencia" /\ k % 2 = 1
WarehouseOf(d, k) ==
    IF Outgoing(d, k) \/ (d.header.clase = "ajuste" /\ d.header.destino = None)
    THEN d.header.origen ELSE d.header.destino
CellOf(d, k) == <<WarehouseOf(d, k), LineOf(d, k).product>>
DeltaOf(d, k) == IF Outgoing(d, k) THEN - LineOf(d, k).qty ELSE LineOf(d, k).qty

HasWarehouses(d) ==
    /\ d.header.clase \in {"salida", "transferencia"} => d.header.origen # None
    /\ d.header.clase \in {"entrada", "transferencia"} => d.header.destino # None
    /\ d.header.clase = "ajuste" =>
         d.header.origen # None \/ d.header.destino # None

\* A costed receipt needs costo_unitario > 0, unless a count made it.
HasCost(d, k) ==
    \/ ~d.header.costed \/ d.header.refKind = "conteo" \/ LineOf(d, k).priced
    \/ ~(\/ d.header.clase = "entrada"
         \/ d.header.clase = "ajuste" /\ LineOf(d, k).qty > 0)

\* The moving average divides by the new quantity; on receipt that is zero
\* when a negative line takes back all there is.
AverageFails(d, k, before) ==
    /\ d.header.costed /\ before # None /\ before > 0
    /\ before + DeltaOf(d, k) = 0
    /\ \/ d.header.clase = "entrada"
       \/ d.header.clase = "transferencia" /\ ~Outgoing(d, k)

\* (Faulty: no check that there is enough.)
AppliesUnchecked(d, k, before) ==
    LET held == IF before = None THEN 0 ELSE before
    IN  held + DeltaOf(d, k) <= MaxStock

\* What _apply_delta accepts, given the stock it read.
Applies(d, k, before) ==
    LET held == IF before = None THEN 0 ELSE before
    IN  held + DeltaOf(d, k) \in 0..MaxStock

CanPost(w) ==
    /\ HasWarehouses(doc[w]) /\ HasCost(doc[w], next[w])
    /\ LET before == InView(w, CellOf(doc[w], next[w]))
       IN  ~AverageFails(doc[w], next[w], before) /\ Applies(doc[w], next[w], before)

-----------------------------------------------------------------------------
(***************************************************************************)
(* The end of a request: COMMIT or ROLLBACK of its unit of work.           *)
(***************************************************************************)
\* (Faulty: the connection goes back with its transaction open.)
FinishKeepingLocks(w) ==
    /\ op' = [op EXCEPT ![w] = "none"]
    /\ at' = [at EXCEPT ![w] = "begin"]
    /\ target' = [target EXCEPT ![w] = None]
    /\ doc' = [doc EXCEPT ![w] = None]
    /\ fresh' = [fresh EXCEPT ![w] = None]
    /\ next' = [next EXCEPT ![w] = 0]
    /\ seen' = [seen EXCEPT ![w] = None]
    /\ UNCHANGED wrote

Finish(w) ==
    /\ op' = [op EXCEPT ![w] = "none"]
    /\ at' = [at EXCEPT ![w] = "begin"]
    /\ target' = [target EXCEPT ![w] = None]
    /\ doc' = [doc EXCEPT ![w] = None]
    /\ fresh' = [fresh EXCEPT ![w] = None]
    /\ next' = [next EXCEPT ![w] = 0]
    /\ seen' = [seen EXCEPT ![w] = None]
    /\ wrote' = [wrote EXCEPT ![w] = NothingWritten]

Rollback(w) == Finish(w) /\ UNCHANGED rows

StoreStock(w) ==
    stock' = [c \in Cells |-> IF wrote[w][c] # None THEN wrote[w][c] ELSE stock[c]]

Goto(w, label) == at' = [at EXCEPT ![w] = label]

\* uuid4(): an id no row has and nobody else has drawn.
Unused(m) == movement[m] = None /\ \A q \in Workers : fresh[q] # m

\* The request starts.  The id n of the movement it will insert, if it
\* inserts one, is drawn here already.
Begin(w, o, t, n, label) ==
    /\ op[w] = "none" /\ o \in Operations
    /\ n # None => Unused(n)
    /\ op' = [op EXCEPT ![w] = o]
    /\ target' = [target EXCEPT ![w] = t]
    /\ fresh' = [fresh EXCEPT ![w] = n]
    /\ Goto(w, label)
    /\ UNCHANGED <<rows, next, seen, wrote>>

-----------------------------------------------------------------------------
(***************************************************************************)
(* Documents are created in one statement or one unit of work.             *)
(***************************************************************************)
CreateMovement(m, h, l) ==
    /\ Unused(m)
    /\ movement' = [movement EXCEPT ![m] =
                      [header |-> h, lines |-> l, estado |-> "borrador",
                       maker |-> "client"]]
    /\ UNCHANGED <<stock, conteo, request, at, doc, next, seen, wrote>>

CreateConteo(c, a, l) ==
    /\ conteo[c] = None
    /\ conteo' = [conteo EXCEPT ![c] =
                    [estado |-> "en_proceso", almacen |-> a, lines |-> l,
                     ajuste |-> None]]
    /\ UNCHANGED <<stock, movement, request, at, doc, next, seen, wrote>>

-----------------------------------------------------------------------------
(***************************************************************************)
(* autorizar, anular, and the edits of a movement: the row is read in one  *)
(* transaction and written in the next.                                    *)
(***************************************************************************)
Exists(m) == movement[m] # None
Borrador(m) == Exists(m) /\ movement[m].estado = "borrador"

\* The states a request may still change a movement in: not procesado,
\* estornado or anulado.
Open(m) == Exists(m) /\ movement[m].estado \in {"borrador", "autorizado"}

BeginAutorizar(w, m) ==
    /\ Borrador(m)
    /\ Begin(w, "autorizar", m, None, "write")
    /\ doc' = [doc EXCEPT ![w] = [movement[m] EXCEPT !.estado = "autorizado"]]

BeginAnular(w, m) ==
    /\ Open(m)
    /\ Begin(w, "anular", m, None, "write")
    /\ doc' = [doc EXCEPT ![w] = [movement[m] EXCEPT !.estado = "anulado"]]

BeginEditar(w, m) ==
    /\ Borrador(m)
    /\ Begin(w, "editar", m, None, "write")
    /\ UNCHANGED doc

BeginLinea(w, m) ==
    /\ Borrador(m)
    /\ Begin(w, "linea", m, None, "write")
    /\ UNCHANGED doc

\* UPDATE ... WHERE movimiento_id: only the state is written, whatever it is
\* by now.
WriteEstado(w) ==
    /\ op[w] \in {"autorizar", "anular"} /\ at[w] = "write"
    /\ MovementHolders(target[w]) \subseteq {w}
    /\ movement' = [movement EXCEPT ![target[w]].estado = doc[w].estado]
    /\ Finish(w)
    /\ UNCHANGED <<stock, conteo>>

\* The header, the lines, or both, as PUT and PUT con-detalle send them.
WriteEdicion(w, h, l) ==
    /\ op[w] = "editar" /\ at[w] = "write"
    /\ MovementHolders(target[w]) \subseteq {w}
    /\ movement' = [movement EXCEPT ![target[w]].header = Or(h, @),
                                    ![target[w]].lines = Or(l, @)]
    /\ Finish(w)
    /\ UNCHANGED <<stock, conteo>>

\* INSERT of further lines: the header row is not touched.
WriteLinea(w, l) ==
    /\ op[w] = "linea" /\ at[w] = "write"
    /\ IF Len(movement[target[w]].lines) + Len(l) <= MaxLines
       THEN /\ movement' = [movement EXCEPT ![target[w]].lines = @ \o l]
            /\ Finish(w)
            /\ UNCHANGED <<stock, conteo>>
       ELSE Rollback(w)

-----------------------------------------------------------------------------
(***************************************************************************)
(* The same for a physical count.                                          *)
(***************************************************************************)
Readable(c) == conteo[c] # None /\ ConteoHolders(c) = {}
Editable(c) == Readable(c) /\ conteo[c].estado \in {"en_proceso", "finalizado"}

BeginFinalizar(w, c) ==
    /\ Readable(c) /\ conteo[c].estado = "en_proceso"
    /\ conteo[c].lines # <<>>
    /\ \A k \in 1..Len(conteo[c].lines) : conteo[c].lines[k].contada # None
    /\ Begin(w, "finalizar", c, None, "write")
    /\ doc' = [doc EXCEPT ![w] = [conteo[c] EXCEPT !.estado = "finalizado"]]

BeginAnularConteo(w, c) ==
    /\ Editable(c)
    /\ Begin(w, "anular_conteo", c, None, "write")
    /\ doc' = [doc EXCEPT ![w] = [conteo[c] EXCEPT !.estado = "anulado"]]

BeginEditarConteo(w, c) ==
    /\ Editable(c)
    /\ Begin(w, "editar_conteo", c, None, "write")
    /\ UNCHANGED doc

WriteEstadoConteo(w) ==
    /\ op[w] \in {"finalizar", "anular_conteo"} /\ at[w] = "write"
    /\ ConteoHolders(target[w]) \subseteq {w}
    /\ conteo' = [conteo EXCEPT ![target[w]].estado = doc[w].estado]
    /\ Finish(w)
    /\ UNCHANGED <<stock, movement>>

WriteConteo(w, a, l) ==
    /\ op[w] = "editar_conteo" /\ at[w] = "write"
    /\ ConteoHolders(target[w]) \subseteq {w}
    /\ conteo' = [conteo EXCEPT ![target[w]].almacen = Or(a, @),
                                ![target[w]].lines = Or(l, @)]
    /\ Finish(w)
    /\ UNCHANGED <<stock, movement>>

-----------------------------------------------------------------------------
(***************************************************************************)
(* procesar_movimiento_servicio: one unit of work, a plain SELECT first.   *)
(***************************************************************************)
\* (Faulty: a processed movement is accepted again.)
PostableAgain(d) ==
    /\ d.estado \in {"borrador", "autorizado", "procesado"}
    /\ d.header.requires => d.estado = "autorizado"

Postable(d) ==
    /\ d.estado \in {"borrador", "autorizado"}
    /\ d.header.requires => d.estado = "autorizado"

BeginProcesar(w, m) ==
    /\ Exists(m) /\ Postable(movement[m])
    /\ Begin(w, "procesar", m, None, "lines")
    /\ doc' = [doc EXCEPT ![w] = movement[m]]

ReadLines(w) ==
    /\ op[w] = "procesar" /\ at[w] = "lines"
    /\ IF movement[target[w]].lines = <<>> THEN Rollback(w)
       ELSE /\ doc' = [doc EXCEPT ![w].lines = movement[target[w]].lines]
            /\ next' = [next EXCEPT ![w] = 1]
            /\ Goto(w, "post")
            /\ UNCHANGED <<rows, request, seen, wrote>>

-----------------------------------------------------------------------------
(***************************************************************************)
(* The posting loop, shared by the three operations that post: the stock   *)
(* is read without a lock and written as an absolute value.                *)
(***************************************************************************)
Posting(w) == at[w] = "post" /\ next[w] <= PostingCount(doc[w])
NextCell(w) == CellOf(doc[w], next[w])
NextQty(w) == LineOf(doc[w], next[w]).qty

SkipLine(w) ==
    /\ Posting(w) /\ NextQty(w) = 0
    /\ next' = [next EXCEPT ![w] = @ + 1]
    /\ UNCHANGED <<rows, request, at, doc, seen, wrote>>

\* The SELECT waits for a unit of work that has written the row.
Reachable(w) == HasWarehouses(doc[w]) => StockHolders(NextCell(w)) \subseteq {w}

ReadStock(w) ==
    /\ Posting(w) /\ NextQty(w) # 0 /\ Reachable(w)
    /\ CanPost(w)
    /\ seen' = [seen EXCEPT ![w] = InView(w, NextCell(w))]
    /\ Goto(w, "store")
    /\ UNCHANGED <<rows, request, doc, next, wrote>>

\* 409, 422 or a division by zero: everything is rolled back.
RefuseLine(w) ==
    /\ Posting(w) /\ NextQty(w) # 0 /\ Reachable(w)
    /\ ~CanPost(w)
    /\ Rollback(w)

\* INSERT when there was no row, else UPDATE by stock_id.  UQ_stock_prod_alm
\* refuses the INSERT when somebody inserted the row meanwhile.
WriteStock(w) ==
    /\ at[w] = "store"
    /\ StockHolders(NextCell(w)) \subseteq {w}
    /\ IF seen[w] = None /\ InView(w, NextCell(w)) # None
       THEN Rollback(w)
       ELSE /\ wrote' = [wrote EXCEPT ![w][NextCell(w)] =
                           Or(seen[w], 0) + DeltaOf(doc[w], next[w])]
            /\ next' = [next EXCEPT ![w] = @ + 1]
            /\ seen' = [seen EXCEPT ![w] = None]
            /\ Goto(w, "post")
            /\ UNCHANGED <<rows, request, doc>>

Posted(w) == at[w] = "post" /\ next[w] > PostingCount(doc[w])

\* UPDATE ... SET estado = 'procesado' and COMMIT.
CommitProcesar(w) ==
    /\ op[w] = "procesar" /\ Posted(w)
    /\ MovementHolders(target[w]) \subseteq {w}
    /\ movement' = [movement EXCEPT ![target[w]].estado = "procesado"]
    /\ StoreStock(w)
    /\ Finish(w)
    /\ UNCHANGED conteo

-----------------------------------------------------------------------------
(***************************************************************************)
(* estornar_movimiento_servicio, P0 to P5.                                 *)
(***************************************************************************)
\* (Faulty: the gate on integrated documents is missing.)
ReversibleAll(d) == d.estado = "procesado"

\* P0b: ESTORNO_MVP_BLOCKED_REF_TIPOS.
Reversible(d) == d.estado = "procesado" /\ d.header.refKind # "conteo"

BeginEstornar(w, m, n) ==
    /\ Exists(m)
    /\ Begin(w, "estornar", m, n, "lock")
    /\ UNCHANGED doc

\* (Faulty: the original is marked in a transaction of its own.)
LockOriginalMarking(w) ==
    /\ at[w] = "lock"
    /\ MovementHolders(target[w]) = {}
    /\ IF Reversible(movement[target[w]])
       THEN /\ Goto(w, "gates")
            /\ movement' = [movement EXCEPT ![target[w]].estado = "estornado"]
            /\ UNCHANGED <<stock, conteo, request, doc, next, seen, wrote>>
       ELSE Rollback(w)

\* P0: SELECT ... WITH (UPDLOCK, ROWLOCK).
LockOriginal(w) ==
    /\ at[w] = "lock"
    /\ MovementHolders(target[w]) = {}
    /\ IF Reversible(movement[target[w]])
       THEN Goto(w, "gates") /\ UNCHANGED <<rows, request, doc, next, seen, wrote>>
       ELSE Rollback(w)

\* (Faulty: only the state of the original is looked at.)
FindCompensatorioNone(m) == {}

\* P1: documento_referencia_* of any movement, whoever wrote them.
FindCompensatorio(m) ==
    {n \in Movements : /\ Exists(n) /\ movement[n].header.refKind = "estorno"
                       /\ movement[n].header.ref = m}

\* P0c, line by line: a costed receipt whose reversal leaves zero.  The stock
\* is read in another transaction.
GateLines(d) ==
    IF d.header.clase = "entrada" /\ d.header.costed /\ d.header.destino # None
    THEN {k \in 1..Len(d.lines) : d.lines[k].qty # 0} ELSE {}
GateCell(d, k) == <<d.header.destino, d.lines[k].product>>
GateHolders(d) == UNION {StockHolders(GateCell(d, k)) : k \in GateLines(d)}
ReversalAverages(d) ==
    \A k \in GateLines(d) : stock[GateCell(d, k)] # d.lines[k].qty

HasQuantity(d) == \E k \in 1..Len(d.lines) : d.lines[k].qty # 0

\* (Faulty: a transfer keeps its warehouses.)
MirrorOrigenKept(h) ==
    CASE h.clase = "entrada" -> None
      [] h.clase = "ajuste" /\ h.destino # None -> None
      [] OTHER -> h.origen

\* The header and lines of the movement that undoes d.  Lines of quantity
\* zero are kept here and skipped when posted.
MirrorOrigen(h) ==
    CASE h.clase = "transferencia" -> h.destino
      [] h.clase = "entrada" -> None
      [] h.clase = "ajuste" /\ h.destino # None -> None
      [] OTHER -> h.origen
MirrorDestino(h) ==
    CASE h.clase = "transferencia" -> h.origen
      [] h.clase = "salida" -> None
      [] OTHER -> h.destino
Compensatorio(m, d) ==
    [header |-> [d.header EXCEPT !.origen = MirrorOrigen(d.header),
                                 !.destino = MirrorDestino(d.header),
                                 !.refKind = "estorno", !.ref = m],
     lines |-> [k \in 1..Len(d.lines) |->
                 [d.lines[k] EXCEPT !.qty =
                   IF d.header.clase = "transferencia" THEN @ ELSE - @]],
     estado |-> "procesado",
     maker |-> "estornar"]

\* P1, P0c, P2, P3, and the start of P4.
Compensate(w) ==
    LET m == target[w]
        d == movement[m]
    IN  /\ at[w] = "gates"
        /\ GateHolders(d) = {}
        /\ FindCompensatorio(m) = {} /\ ReversalAverages(d) /\ HasQuantity(d)
        /\ doc' = [doc EXCEPT ![w] = Compensatorio(m, d)]
        /\ next' = [next EXCEPT ![w] = 1]
        /\ Goto(w, "post")
        /\ UNCHANGED <<rows, request, seen, wrote>>

RefuseEstorno(w) ==
    LET m == target[w]
        d == movement[m]
    IN  /\ at[w] = "gates"
        /\ \/ FindCompensatorio(m) # {} \/ ~HasQuantity(d)
           \/ GateHolders(d) = {} /\ ~ReversalAverages(d)
        /\ Rollback(w)

\* P5: the original becomes estornado if it is still procesado.
CommitEstornar(w) ==
    /\ op[w] = "estornar" /\ Posted(w)
    /\ IF movement[target[w]].estado = "procesado"
       THEN /\ movement' = [movement EXCEPT ![target[w]].estado = "estornado",
                                            ![fresh[w]] = doc[w]]
            /\ StoreStock(w)
            /\ Finish(w)
            /\ UNCHANGED conteo
       ELSE Rollback(w)

-----------------------------------------------------------------------------
(***************************************************************************)
(* aprobar_inventario_fisico_servicio                                      *)
(***************************************************************************)
\* (Faulty: the early return for an adjusted count is missing.)
BeginAprobarAgain(w, c, n) ==
    /\ Readable(c) /\ conteo[c].estado \in {"finalizado", "ajustado"}
    /\ Begin(w, "aprobar", c, n, "lines")
    /\ doc' = [doc EXCEPT ![w] = conteo[c]]

BeginAprobar(w, c, n) ==
    /\ Readable(c) /\ conteo[c].estado = "finalizado"
    /\ Begin(w, "aprobar", c, n, "lines")
    /\ doc' = [doc EXCEPT ![w] = conteo[c]]

Difference(l) == IF l.contada = None THEN 0 ELSE l.contada - l.sistema
HasDifference(lines) == \E k \in 1..Len(lines) : Difference(lines[k]) # 0

\* The adjustment of a count; the tipo is one of clase ajuste.
Ajuste(c, a, lines, costed) ==
    [header |-> [clase |-> "ajuste", origen |-> None, destino |-> a,
                 costed |-> costed, requires |-> FALSE,
                 refKind |-> "conteo", ref |-> c],
     lines |-> [k \in 1..Len(lines) |->
                 [product |-> lines[k].product, qty |-> Difference(lines[k]),
                  priced |-> lines[k].priced]],
     estado |-> "procesado",
     maker |-> "aprobar"]

\* The lines are read and classified, the adjustment is inserted.
ReadSheet(w, costed) ==
    /\ op[w] = "aprobar" /\ at[w] = "lines"
    /\ IF HasDifference(conteo[target[w]].lines)
       THEN /\ doc' = [doc EXCEPT ![w] =
                         Ajuste(target[w], doc[w].almacen,
                                conteo[target[w]].lines, costed)]
            /\ Goto(w, "totals")
            /\ UNCHANGED <<rows, request, next, seen, wrote>>
       ELSE Rollback(w)

\* UPDATE of the totals: from here on the count is locked.
WriteTotals(w) ==
    /\ at[w] = "totals"
    /\ ConteoHolders(target[w]) \subseteq {w}
    /\ next' = [next EXCEPT ![w] = 1]
    /\ Goto(w, "post")
    /\ UNCHANGED <<rows, request, doc, seen, wrote>>

CommitAprobar(w) ==
    /\ op[w] = "aprobar" /\ Posted(w)
    /\ movement' = [movement EXCEPT ![fresh[w]] = doc[w]]
    /\ conteo' = [conteo EXCEPT ![target[w]].estado = "ajustado",
                                ![target[w]].ajuste = fresh[w]]
    /\ StoreStock(w)
    /\ Finish(w)

-----------------------------------------------------------------------------
(***************************************************************************)
(* Waiting, and how it ends: SQL Server breaks a cycle of waits by rolling *)
(* one member back.                                                        *)
(***************************************************************************)
WaitsFor(w) ==
    ( CASE at[w] = "post" ->
             IF Posting(w) THEN IF NextQty(w) # 0 /\ HasWarehouses(doc[w])
                                THEN StockHolders(NextCell(w)) ELSE {}
             ELSE IF op[w] = "procesar" THEN MovementHolders(target[w]) ELSE {}
        [] at[w] = "store" -> StockHolders(NextCell(w))
        [] at[w] = "lock" -> MovementHolders(target[w])
        [] at[w] = "gates" -> GateHolders(movement[target[w]])
        [] at[w] = "totals" -> ConteoHolders(target[w])
        [] at[w] = "write" /\ op[w] \in {"autorizar", "anular", "editar"} ->
             MovementHolders(target[w])
        [] at[w] = "write" /\ op[w] \in {"finalizar", "anular_conteo",
                                        "editar_conteo"} ->
             ConteoHolders(target[w])
        [] OTHER -> {} ) \ {w}

InWaitCycle(w) ==
    \A C \in SUBSET Workers :
        (WaitsFor(w) \subseteq C /\ \A q \in C : WaitsFor(q) \subseteq C) => w \in C

DeadlockVictim(w) == InWaitCycle(w) /\ Rollback(w)

\* A lost connection, a statement error, a worker that stops.
Fail(w) == op[w] # "none" /\ Rollback(w)

-----------------------------------------------------------------------------
Create ==
    \/ \E m \in Movements, h \in Headers, l \in LineLists : CreateMovement(m, h, l)
    \/ \E c \in Counts, a \in Warehouses, l \in CountLists : CreateConteo(c, a, l)

BeginRequest(w) ==
    \/ \E m \in Movements :
         \/ BeginAutorizar(w, m)
         \/ BeginAnular(w, m)
         \/ BeginProcesar(w, m)
         \/ BeginEditar(w, m)
         \/ BeginLinea(w, m)
         \/ \E n \in Movements : BeginEstornar(w, m, n)
    \/ \E c \in Counts :
         \/ BeginFinalizar(w, c)
         \/ BeginAnularConteo(w, c)
         \/ BeginEditarConteo(w, c)
         \/ \E n \in Movements : BeginAprobar(w, c, n)

Step(w) ==
    \/ WriteEstado(w)
    \/ \E h \in Headers \cup {None}, l \in LineLists \cup {None} : WriteEdicion(w, h, l)
    \/ \E l \in LineLists : WriteLinea(w, l)
    \/ WriteEstadoConteo(w)
    \/ \E a \in Warehouses \cup {None}, l \in CountLists \cup {None} :
         WriteConteo(w, a, l)
    \/ ReadLines(w)
    \/ SkipLine(w)
    \/ ReadStock(w)
    \/ RefuseLine(w)
    \/ WriteStock(w)
    \/ CommitProcesar(w)
    \/ LockOriginal(w)
    \/ Compensate(w)
    \/ RefuseEstorno(w)
    \/ CommitEstornar(w)
    \/ \E costed \in BOOLEAN : ReadSheet(w, costed)
    \/ WriteTotals(w)
    \/ CommitAprobar(w)

Next ==
    \/ Create
    \/ \E w \in Workers : BeginRequest(w) \/ Step(w) \/ DeadlockVictim(w) \/ Fail(w)

Spec == Init /\ [][Next]_vars
=============================================================================
