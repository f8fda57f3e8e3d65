-------------------------- MODULE InventoryProofs --------------------------
(***************************************************************************)
(* The invariants of Inventory hold for any number of workers, movements,  *)
(* counts, warehouses and products, and for any documents clients write.   *)
(*                                                                         *)
(* Inv strengthens them with what each request knows while it is under way *)
(* (WorkerOK): which documents it may still write, that the one it         *)
(* reverses is locked and has no compensation yet, and that the ids it has *)
(* drawn are its own (Apart).                                              *)
(*                                                                         *)
(* Three more properties hold only of clients that take turns, and are     *)
(* proved of them: AdjustInv carries that a count is adjusted once,        *)
(* MirrorInv that an estorno takes back what was posted, LedgerInv that    *)
(* the stock is the ledger of what was posted.  What a movement adds is a  *)
(* recursive function of its lines: it is reasoned about by the least      *)
(* position at which two such functions differ (LeastNatural).             *)
(***************************************************************************)
EXTENDS InventoryProps, FiniteSetTheorems, WellFoundedInduction, TLAPS

MovementOps == {"procesar", "autorizar", "anular", "editar", "linea", "estornar"}
ConteoOps == {"aprobar", "finalizar", "anular_conteo", "editar_conteo"}

IsAdjustment(d, c) ==
    /\ d \in Movement /\ d.maker = "aprobar" /\ d.estado = "procesado"
    /\ d.header.refKind = "conteo" /\ d.header.ref = c

IsCompensation(d, m) ==
    /\ d \in Movement /\ d.maker = "estornar" /\ d.estado = "procesado"
    /\ d.header.refKind = "estorno" /\ d.header.ref = m

\* What a request that is under way relies on.
Labels(w) ==
    /\ op[w] = "none" => at[w] = "begin" /\ fresh[w] = None
    /\ at[w] \in {"lock", "gates"} => op[w] = "estornar"
    /\ at[w] = "totals" => op[w] = "aprobar"
    /\ at[w] \in {"post", "store"} =>
         op[w] \in {"procesar", "estornar", "aprobar"} /\ next[w] # 0
Target(w) ==
    /\ op[w] \in MovementOps => target[w] \in Movements /\ Exists(target[w])
    /\ op[w] \in ConteoOps => target[w] \in Counts /\ conteo[target[w]] # None
    /\ op[w] \in MovementOps \ {"estornar"} => movement[target[w]].maker = "client"
    /\ op[w] \in {"estornar", "aprobar"} => fresh[w] \in Movements
    /\ fresh[w] # None => movement[fresh[w]] = None
Document(w) ==
    /\ op[w] \in {"autorizar", "anular"} =>
         doc[w] \in Movement /\ doc[w].estado \in {"autorizado", "anulado"}
    /\ op[w] = "procesar" => doc[w] \in Movement
    /\ op[w] \in {"finalizar", "anular_conteo"} =>
         doc[w] \in Conteo /\ doc[w].estado \in {"finalizado", "anulado"}
    /\ op[w] = "aprobar" =>
         IF at[w] = "lines" THEN doc[w] \in Conteo ELSE IsAdjustment(doc[w], target[w])
    /\ at[w] = "store" => Or(seen[w], 0) + DeltaOf(doc[w], next[w]) \in Nat
Reversal(w) ==
    op[w] = "estornar" =>
        /\ at[w] # "lock" => movement[target[w]].header.refKind # "conteo"
        /\ at[w] \in {"post", "store"} =>
             IsCompensation(doc[w], target[w]) /\ CompensationsOf(target[w]) = {}

WorkerOK(w) == Labels(w) /\ Target(w) /\ Document(w) /\ Reversal(w)

\* Ids that were drawn and originals that are locked belong to one request.
Apart(w, q) ==
    /\ fresh[w] # None => fresh[w] # fresh[q]
    /\ HoldsMovement(w, target[w]) /\ HoldsMovement(q, target[q]) =>
         target[w] # target[q]

\* Movements that estornar and aprobar made stay posted, and keep saying for
\* what they were made.
MadeRows ==
    \A m \in Movements : Exists(m) =>
        /\ movement[m].maker = "estornar" =>
             /\ movement[m].estado \in {"procesado", "estornado"}
             /\ movement[m].header.refKind = "estorno"
        /\ movement[m].maker = "aprobar" =>
             /\ movement[m].estado = "procesado"
             /\ movement[m].header.refKind = "conteo"

AdjustedCounts ==
    \A c \in Counts : conteo[c] # None /\ conteo[c].estado = "ajustado" =>
        /\ conteo[c].ajuste \in Movements /\ Exists(conteo[c].ajuste)
        /\ movement[conteo[c].ajuste].maker = "aprobar"
        /\ movement[conteo[c].ajuste].header.ref = c

RowsOK == MadeRows /\ AdjustedCounts /\ OneCompensation /\ EstornadoIsCompensated

Inv ==
    /\ TypeOK /\ RowsOK
    /\ \A w \in Workers : WorkerOK(w)
    /\ \A w, q \in Workers : w # q => Apart(w, q)
-----------------------------------------------------------------------------
(***************************************************************************)
(* What one request owes the others: the rows they rely on stay.           *)
(***************************************************************************)
SameRequest(q) ==
    /\ op'[q] = op[q] /\ at'[q] = at[q] /\ target'[q] = target[q]
    /\ doc'[q] = doc[q] /\ fresh'[q] = fresh[q] /\ next'[q] = next[q]
    /\ seen'[q] = seen[q]

RowsStay ==
    /\ \A m \in Movements : Exists(m) =>
         Exists(m)' /\ movement'[m].maker = movement[m].maker
    /\ \A c \in Counts : conteo[c] # None => conteo'[c] # None

\* A locked original keeps its header and gains no compensation.
LockedStays(q) ==
    \A m \in Movements : HoldsMovement(q, m) =>
        /\ movement'[m].header = movement[m].header
        /\ CompensationsOf(m)' \subseteq CompensationsOf(m)

Undisturbed(q) ==
    /\ SameRequest(q) /\ LockedStays(q)
    /\ fresh[q] # None => movement'[fresh[q]] = movement[fresh[q]]

\* A request whose rows stay keeps what it relies on.
LEMMA OthersKept ==
    ASSUME Inv, RowsStay, NEW q \in Workers, Undisturbed(q)
    PROVE  WorkerOK(q)'
<1> USE DEF Undisturbed, SameRequest
<1>0. WorkerOK(q)
  BY DEF Inv
<1>1. Labels(q)'
  BY <1>0 DEF WorkerOK, Labels
<1>2. Target(q)'
  BY <1>0 DEF WorkerOK, Target, RowsStay, MovementOps
<1>3. Document(q)'
  BY <1>0 DEF WorkerOK, Document, IsAdjustment, DeltaOf, Outgoing, LineOf, Legs
<1>4. Reversal(q)'
  <2> SUFFICES ASSUME op[q] = "estornar"
               PROVE  Reversal(q)'
    BY DEF Reversal
  <2>1. target[q] \in Movements
    BY <1>0 DEF WorkerOK, Target, MovementOps
  <2>2. at[q] # "lock" => HoldsMovement(q, target[q])
    BY DEF HoldsMovement
  <2>3. at[q] # "lock" => /\ movement'[target[q]].header = movement[target[q]].header
                          /\ CompensationsOf(target[q])' \subseteq CompensationsOf(target[q])
    BY <2>1, <2>2 DEF LockedStays
  <2>4. Reversal(q)
    BY <1>0 DEF WorkerOK
  <2> QED BY <2>3, <2>4 DEF Reversal, IsCompensation
<1> QED BY <1>1, <1>2, <1>3, <1>4 DEF WorkerOK

\* A step of w that disturbs nobody else keeps the invariant if it keeps w's
\* own part of it.
LEMMA StepOfOne ==
    ASSUME Inv, TypeOK', RowsOK', RowsStay, NEW w \in Workers, WorkerOK(w)',
           \A q \in Workers \ {w} : Undisturbed(q),
           \A q \in Workers \ {w} : Apart(w, q)' /\ Apart(q, w)'
    PROVE  Inv'
<1>1. ASSUME NEW q \in Workers PROVE WorkerOK(q)'
  <2>1. CASE q = w BY <2>1
  <2>2. CASE q # w BY <2>2, OthersKept
  <2> QED BY <2>1, <2>2
<1>2. ASSUME NEW p \in Workers, NEW q \in Workers, p # q PROVE Apart(p, q)'
  <2>1. CASE p = w \/ q = w BY <2>1, <1>2
  <2>2. CASE p # w /\ q # w
    <3>1. Undisturbed(p) /\ Undisturbed(q) /\ Apart(p, q)
      BY <2>2, <1>2 DEF Inv
    <3> QED BY <3>1 DEF Apart, Undisturbed, SameRequest, HoldsMovement
  <2> QED BY <2>1, <2>2
<1> QED BY <1>1, <1>2 DEF Inv

\* A request that ends needs nothing any more.
LEMMA Ended ==
    ASSUME Inv, NEW w \in Workers, Finish(w)
    PROVE  /\ WorkerOK(w)'
           /\ \A q \in Workers \ {w} : SameRequest(q)
           /\ \A q \in Workers \ {w} : Apart(w, q)' /\ Apart(q, w)'
<1>1. op'[w] = "none" /\ at'[w] = "begin" /\ fresh'[w] = None
  BY DEF Finish, Inv, TypeOK
<1>2. WorkerOK(w)'
  BY <1>1 DEF WorkerOK, Labels, Target, Document, Reversal, MovementOps, ConteoOps
<1>3. \A q \in Workers \ {w} : SameRequest(q)
  BY DEF Finish, SameRequest, Inv, TypeOK
<1>4. \A q \in Workers \ {w} : Apart(w, q)' /\ Apart(q, w)'
  BY <1>1 DEF Apart, HoldsMovement
<1> QED BY <1>2, <1>3, <1>4

\* Its worker's variables are of their type again.
LEMMA EndedType ==
    ASSUME Inv, NEW w \in Workers, Finish(w)
    PROVE  /\ op' \in [Workers -> OperationNames \cup {"none"}]
           /\ at' \in [Workers -> {"begin", "write", "lines", "lock", "gates",
                                  "totals", "post", "store"}]
           /\ target' \in [Workers -> Movements \cup Counts \cup {None}]
           /\ doc' \in [Workers -> Movement \cup Conteo \cup {None}]
           /\ fresh' \in [Workers -> Movements \cup {None}]
           /\ next' \in [Workers -> Nat]
           /\ seen' \in [Workers -> Nat \cup {None}]
           /\ wrote' \in [Workers -> [Cells -> Nat \cup {None}]]
  BY DEF Finish, Inv, TypeOK, NothingWritten

\* Without a change of the rows nothing about them is lost.
LEMMA SameRows ==
    ASSUME Inv, UNCHANGED rows
    PROVE  /\ RowsOK' /\ RowsStay
           /\ \A q \in Workers : SameRequest(q) => Undisturbed(q)
<1>1. movement' = movement /\ conteo' = conteo
  BY DEF rows
<1>2. RowsOK'
  BY <1>1 DEF Inv, RowsOK, MadeRows, AdjustedCounts, OneCompensation,
     EstornadoIsCompensated, CompensationsOf, IsPosted, Exists
<1>3. RowsStay
  BY <1>1 DEF RowsStay, Exists
<1>4. \A q \in Workers : SameRequest(q) => Undisturbed(q)
  BY <1>1 DEF Undisturbed, LockedStays, CompensationsOf, Exists
<1> QED BY <1>2, <1>3, <1>4

LEMMA RollbackKeepsInv ==
    ASSUME Inv, NEW w \in Workers, Rollback(w)
    PROVE  Inv'
<1>1. TypeOK'
  BY EndedType DEF Rollback, Inv, TypeOK, rows
<1> QED BY <1>1, Ended, SameRows, StepOfOne DEF Rollback

-----------------------------------------------------------------------------
(***************************************************************************)
(* A request starts.                                                       *)
(***************************************************************************)
LEMMA Begins ==
    ASSUME Inv, NEW w \in Workers, NEW o, NEW t, NEW n, NEW label,
           Begin(w, o, t, n, label), TypeOK', WorkerOK(w)',
           \A q \in Workers \ {w} : doc'[q] = doc[q],
           label = "lock" \/ o # "estornar"
    PROVE  Inv'
<1>1. \A q \in Workers \ {w} : SameRequest(q)
  BY DEF Begin, SameRequest, Goto, Inv, TypeOK
<1>2. UNCHANGED rows
  BY DEF Begin
<1>3. op'[w] = o /\ at'[w] = label /\ fresh'[w] = n
  BY DEF Begin, Goto, Inv, TypeOK
<1>4. ASSUME NEW q \in Workers \ {w} PROVE Apart(w, q)' /\ Apart(q, w)'
  <2>1. n # None => fresh[q] # n
    BY DEF Begin, Unused
  <2>2. fresh'[q] = fresh[q]
    BY <1>1 DEF SameRequest
  <2>3. ~HoldsMovement(w, target[w])'
    BY <1>3 DEF HoldsMovement
  <2> QED BY <1>3, <2>1, <2>2, <2>3 DEF Apart
<1> QED BY <1>1, <1>2, <1>4, SameRows, StepOfOne

LEMMA BeginsType ==
    ASSUME Inv, NEW w \in Workers, NEW o, NEW t \in Movements \cup Counts,
           NEW n \in Movements \cup {None},
           NEW label \in {"write", "lines", "lock"}, Begin(w, o, t, n, label),
           doc' \in [Workers -> Movement \cup Conteo \cup {None}]
    PROVE  TypeOK'
<1>1. o \in OperationNames
  BY InputAssumption DEF Begin
<1> QED BY <1>1 DEF Begin, Goto, rows, Inv, TypeOK

\* The part of a request that has no document of its own yet.
LEMMA BeginsOK ==
    ASSUME Inv, NEW w \in Workers, NEW o, NEW t, NEW n,
           NEW label, Begin(w, o, t, n, label)
    PROVE  /\ op'[w] = o /\ at'[w] = label /\ target'[w] = t /\ fresh'[w] = n
           /\ UNCHANGED <<movement, conteo>>
           /\ n # None => movement[n] = None
  BY DEF Begin, Goto, Unused, rows, Inv, TypeOK

LEMMA MovementRow ==
    ASSUME Inv, NEW m \in Movements, Exists(m)
    PROVE  movement[m] \in Movement
  BY DEF Exists, Inv, TypeOK

LEMMA ConteoRow ==
    ASSUME Inv, NEW c \in Counts, conteo[c] # None
    PROVE  conteo[c] \in Conteo
  BY DEF Inv, TypeOK

\* A movement that is not procesado or estornado was made by a client.
LEMMA OpenIsClients ==
    ASSUME Inv, NEW m \in Movements, Open(m)
    PROVE  movement[m].maker = "client"
<1>1. movement[m] \in Movement
  BY MovementRow DEF Open
<1>2. movement[m].maker \in {"client", "estornar", "aprobar"}
  BY <1>1 DEF Movement
<1> QED BY <1>2 DEF Open, Inv, RowsOK, MadeRows

LEMMA BeginMovementKeepsInv ==
    ASSUME Inv, NEW w \in Workers, NEW m \in Movements,
           \/ BeginAutorizar(w, m)
           \/ BeginAnular(w, m)
           \/ BeginEditar(w, m)
           \/ BeginLinea(w, m)
           \/ BeginProcesar(w, m)
    PROVE  Inv'
<1>0. Open(m) /\ movement[m] \in Movement /\ movement[m].maker = "client"
  <2>1. Open(m)
    BY DEF BeginAutorizar, BeginAnular, BeginEditar, BeginLinea, BeginProcesar,
       Borrador, Open, Postable
  <2> QED BY <2>1, MovementRow, OpenIsClients DEF Open
<1>1. ASSUME NEW e \in {"autorizado", "anulado"}
      PROVE  /\ [movement[m] EXCEPT !.estado = e] \in Movement
             /\ [movement[m] EXCEPT !.estado = e].estado = e
  BY <1>0, ZenonT(60) DEF Movement, Estados
<1>2. doc' \in [Workers -> Movement \cup Conteo \cup {None}]
      /\ \A q \in Workers \ {w} : doc'[q] = doc[q]
  <2>1. doc \in [Workers -> Movement \cup Conteo \cup {None}]
    BY DEF Inv, TypeOK
  <2>2. CASE BeginAutorizar(w, m) \/ BeginAnular(w, m)
    <3>1. PICK r \in Movement : doc' = [doc EXCEPT ![w] = r]
      BY <1>1, <2>2 DEF BeginAutorizar, BeginAnular
    <3> QED BY <2>1, <3>1
  <2>3. CASE BeginEditar(w, m) \/ BeginLinea(w, m)
    BY <2>1, <2>3 DEF BeginEditar, BeginLinea
  <2>4. CASE BeginProcesar(w, m)
    <3>1. doc' = [doc EXCEPT ![w] = movement[m]]
      BY <2>4 DEF BeginProcesar
    <3> QED BY <1>0, <2>1, <3>1
  <2> QED BY <2>2, <2>3, <2>4
<1>3. CASE BeginAutorizar(w, m) \/ BeginAnular(w, m)
  <2>1. PICK o \in {"autorizar", "anular"}, e \in {"autorizado", "anulado"} :
          /\ Begin(w, o, m, None, "write")
          /\ doc' = [doc EXCEPT ![w] = [movement[m] EXCEPT !.estado = e]]
    BY <1>3 DEF BeginAutorizar, BeginAnular
  <2>2. TypeOK'
    BY <2>1, <1>2, BeginsType
  <2>3. doc'[w] \in Movement /\ doc'[w].estado \in {"autorizado", "anulado"}
    BY <2>1, <1>1 DEF Inv, TypeOK
  <2>4. WorkerOK(w)'
    BY <2>1, <2>3, <1>0, BeginsOK DEF WorkerOK, Labels, Target, Document, Reversal,
       MovementOps, ConteoOps, Open, Exists
  <2> QED BY <2>1, <2>2, <2>4, <1>2, Begins
<1>4. CASE BeginEditar(w, m) \/ BeginLinea(w, m)
  <2>1. PICK o \in {"editar", "linea"} : Begin(w, o, m, None, "write")
    BY <1>4 DEF BeginEditar, BeginLinea
  <2>2. TypeOK'
    BY <2>1, <1>2, BeginsType
  <2>3. WorkerOK(w)'
    BY <2>1, <1>0, BeginsOK DEF WorkerOK, Labels, Target, Document, Reversal,
       MovementOps, ConteoOps, Open, Exists
  <2> QED BY <2>1, <2>2, <2>3, <1>2, Begins
<1>5. CASE BeginProcesar(w, m)
  <2>1. Begin(w, "procesar", m, None, "lines") /\ doc'[w] = movement[m]
    BY <1>5 DEF BeginProcesar, Inv, TypeOK
  <2>2. TypeOK'
    BY <2>1, <1>2, BeginsType
  <2>3. WorkerOK(w)'
    BY <2>1, <1>0, BeginsOK DEF WorkerOK, Labels, Target, Document, Reversal,
       MovementOps, ConteoOps, Open, Exists
  <2> QED BY <2>1, <2>2, <2>3, <1>2, Begins
<1> QED BY <1>3, <1>4, <1>5

LEMMA BeginEstornarKeepsInv ==
    ASSUME Inv, NEW w \in Workers, NEW m \in Movements, NEW n \in Movements,
           BeginEstornar(w, m, n)
    PROVE  Inv'
<1>1. Begin(w, "estornar", m, n, "lock") /\ doc' = doc /\ Exists(m)
  BY DEF BeginEstornar
<1>2. TypeOK'
  BY <1>1, BeginsType DEF Inv, TypeOK
<1>3. WorkerOK(w)'
  BY <1>1, BeginsOK, NoneAssumption DEF WorkerOK, Labels, Target, Document, Reversal,
     MovementOps, ConteoOps, Exists
<1> QED BY <1>1, <1>2, <1>3, Begins

LEMMA BeginConteoKeepsInv ==
    ASSUME Inv, NEW w \in Workers, NEW c \in Counts,
           \/ BeginFinalizar(w, c)
           \/ BeginAnularConteo(w, c)
           \/ BeginEditarConteo(w, c)
    PROVE  Inv'
<1>0. conteo[c] # None /\ conteo[c] \in Conteo
  BY ConteoRow DEF BeginFinalizar, BeginAnularConteo, BeginEditarConteo, Editable,
     Readable
<1>1. ASSUME NEW e \in {"finalizado", "anulado"}
      PROVE  /\ [conteo[c] EXCEPT !.estado = e] \in Conteo
             /\ [conteo[c] EXCEPT !.estado = e].estado = e
  BY <1>0, ZenonT(60) DEF Conteo
<1>2. doc' \in [Workers -> Movement \cup Conteo \cup {None}]
      /\ \A q \in Workers \ {w} : doc'[q] = doc[q]
  <2>1. doc \in [Workers -> Movement \cup Conteo \cup {None}]
    BY DEF Inv, TypeOK
  <2>2. CASE BeginFinalizar(w, c) \/ BeginAnularConteo(w, c)
    <3>1. PICK r \in Conteo : doc' = [doc EXCEPT ![w] = r]
      BY <1>1, <2>2 DEF BeginFinalizar, BeginAnularConteo
    <3> QED BY <2>1, <3>1
  <2>3. CASE BeginEditarConteo(w, c)
    BY <2>1, <2>3 DEF BeginEditarConteo
  <2> QED BY <2>2, <2>3
<1>3. CASE BeginFinalizar(w, c) \/ BeginAnularConteo(w, c)
  <2>1. PICK o \in {"finalizar", "anular_conteo"}, e \in {"finalizado", "anulado"} :
          /\ Begin(w, o, c, None, "write")
          /\ doc' = [doc EXCEPT ![w] = [conteo[c] EXCEPT !.estado = e]]
    BY <1>3 DEF BeginFinalizar, BeginAnularConteo
  <2>2. TypeOK'
    BY <2>1, <1>2, BeginsType
  <2>3. doc'[w] \in Conteo /\ doc'[w].estado \in {"finalizado", "anulado"}
    BY <2>1, <1>1 DEF Inv, TypeOK
  <2>4. WorkerOK(w)'
    BY <2>1, <2>3, <1>0, BeginsOK DEF WorkerOK, Labels, Target, Document, Reversal,
       MovementOps, ConteoOps
  <2> QED BY <2>1, <2>2, <2>4, <1>2, Begins
<1>4. CASE BeginEditarConteo(w, c)
  <2>1. Begin(w, "editar_conteo", c, None, "write")
    BY <1>4 DEF BeginEditarConteo
  <2>2. TypeOK'
    BY <2>1, <1>2, BeginsType
  <2>3. WorkerOK(w)'
    BY <2>1, <1>0, BeginsOK DEF WorkerOK, Labels, Target, Document, Reversal,
       MovementOps, ConteoOps
  <2> QED BY <2>1, <2>2, <2>3, <1>2, Begins
<1> QED BY <1>3, <1>4

LEMMA BeginAprobarKeepsInv ==
    ASSUME Inv, NEW w \in Workers, NEW c \in Counts, NEW n \in Movements,
           BeginAprobar(w, c, n)
    PROVE  Inv'
<1>0. conteo[c] # None /\ conteo[c] \in Conteo
  BY ConteoRow DEF BeginAprobar, Readable
<1>1. Begin(w, "aprobar", c, n, "lines") /\ doc' = [doc EXCEPT ![w] = conteo[c]]
  BY DEF BeginAprobar
<1>2. TypeOK'
  BY <1>0, <1>1, BeginsType DEF Inv, TypeOK
<1>3. doc'[w] \in Conteo
  BY <1>0, <1>1 DEF Inv, TypeOK
<1>4. WorkerOK(w)'
  BY <1>0, <1>1, <1>3, BeginsOK, NoneAssumption DEF WorkerOK, Labels, Target, Document,
     Reversal, MovementOps, ConteoOps
<1>5. \A q \in Workers \ {w} : doc'[q] = doc[q]
  BY <1>1 DEF Inv, TypeOK
<1> QED BY <1>1, <1>2, <1>4, <1>5, Begins

-----------------------------------------------------------------------------
(***************************************************************************)
(* The steps of a posting that write no row of a document.                 *)
(***************************************************************************)
LEMMA OwnStep ==
    ASSUME Inv, TypeOK', UNCHANGED <<rows, request>>, NEW w \in Workers,
           at[w] # "lock", WorkerOK(w)',
           \A q \in Workers \ {w} : /\ at'[q] = at[q] /\ doc'[q] = doc[q]
                                   /\ next'[q] = next[q] /\ seen'[q] = seen[q]
    PROVE  Inv'
<1>1. op' = op /\ target' = target /\ fresh' = fresh /\ UNCHANGED rows
  BY DEF request
<1>2. \A q \in Workers \ {w} : SameRequest(q)
  BY <1>1 DEF SameRequest
<1>3. ASSUME NEW q \in Workers \ {w} PROVE Apart(w, q)' /\ Apart(q, w)'
  <2>1. Apart(w, q) /\ Apart(q, w)
    BY DEF Inv
  <2>2. HoldsMovement(w, target[w])' => HoldsMovement(w, target[w])
    BY <1>1 DEF HoldsMovement
  <2>3. HoldsMovement(q, target[q])' = HoldsMovement(q, target[q])
    BY <1>1 DEF HoldsMovement
  <2> QED BY <1>1, <2>1, <2>2, <2>3 DEF Apart
<1> QED BY <1>1, <1>2, <1>3, SameRows, StepOfOne

LEMMA Lines ==
    ASSUME NEW d \in Movement
    PROVE  d.lines \in Seq(Line) /\ d.header \in Header
  BY DEF Movement

LEMMA LineTyped ==
    ASSUME NEW d \in Movement, NEW k \in Nat, k # 0, k <= PostingCount(d)
    PROVE  LineOf(d, k) \in Line
<1>1. d.lines \in Seq(Line) /\ Len(d.lines) \in Nat
  BY Lines
<1>2. CASE d.header.clase = "transferencia"
  <2>1. k <= Len(d.lines) * 2 /\ LineOf(d, k) = d.lines[((k - 1) \div 2) + 1]
    BY <1>2 DEF PostingCount, LineOf, Legs
  <2>2. ((k - 1) \div 2) + 1 \in 1..Len(d.lines)
    BY <1>1, <2>1
  <2> QED BY <1>1, <2>1, <2>2
<1>3. CASE d.header.clase # "transferencia"
  <2>1. k <= Len(d.lines) /\ LineOf(d, k) = d.lines[((k - 1) \div 1) + 1]
    BY <1>1, <1>3 DEF PostingCount, LineOf, Legs
  <2>2. ((k - 1) \div 1) + 1 \in 1..Len(d.lines)
    BY <1>1, <2>1
  <2> QED BY <1>1, <2>1, <2>2
<1> QED BY <1>2, <1>3

LEMMA CellTyped ==
    ASSUME NEW d \in Movement, NEW k \in Nat, k # 0, k <= PostingCount(d),
           HasWarehouses(d)
    PROVE  CellOf(d, k) \in Cells
<1>1. LineOf(d, k).product \in Products
  BY LineTyped DEF Line
<1>2. d.header \in Header
  BY Lines
<1>3. WarehouseOf(d, k) \in Warehouses
  <2>1. d.header.clase \in {"entrada", "salida", "transferencia", "ajuste"}
        /\ d.header.origen \in Warehouses \cup {None}
        /\ d.header.destino \in Warehouses \cup {None}
    BY <1>2 DEF Header
  <2> QED BY <2>1, NoneAssumption DEF HasWarehouses, WarehouseOf, Outgoing
<1> QED BY <1>1, <1>3 DEF CellOf, Cells

LEMMA PostingDoc ==
    ASSUME Inv, NEW w \in Workers, at[w] \in {"post", "store"}
    PROVE  doc[w] \in Movement /\ next[w] \in Nat /\ next[w] # 0
<1>1. WorkerOK(w) /\ next[w] \in Nat
  BY DEF Inv, TypeOK
<1>2. op[w] \in {"procesar", "estornar", "aprobar"} /\ next[w] # 0
  BY <1>1 DEF WorkerOK, Labels
<1>3. doc[w] \in Movement
  BY <1>1, <1>2 DEF WorkerOK, Document, Reversal, IsCompensation, IsAdjustment
<1> QED BY <1>1, <1>2, <1>3

LEMMA ReadLinesKeepsInv ==
    ASSUME Inv, NEW w \in Workers, ReadLines(w)
    PROVE  Inv'
<1>1. CASE Rollback(w)
  BY <1>1, RollbackKeepsInv
<1>2. CASE /\ doc' = [doc EXCEPT ![w].lines = movement[target[w]].lines]
           /\ next' = [next EXCEPT ![w] = 1] /\ Goto(w, "post")
           /\ UNCHANGED <<rows, request, seen, wrote>>
  <2>1. op[w] = "procesar" /\ at[w] = "lines" /\ WorkerOK(w)
    BY DEF ReadLines, Inv
  <2>2. target[w] \in Movements /\ Exists(target[w]) /\ doc[w] \in Movement
    BY <2>1 DEF WorkerOK, Target, Document, MovementOps
  <2>3. movement[target[w]].lines \in Seq(Line)
    BY <2>2, MovementRow, Lines
  <2>4. [doc[w] EXCEPT !.lines = movement[target[w]].lines] \in Movement
    BY <2>2, <2>3, ZenonT(60) DEF Movement
  <2>5. doc' \in [Workers -> Movement \cup Conteo \cup {None}] /\ doc'[w] \in Movement
    BY <1>2, <2>4 DEF Inv, TypeOK
  <2>6. TypeOK'
    BY <1>2, <2>5 DEF Goto, rows, request, Inv, TypeOK
  <2>7. at'[w] = "post" /\ next'[w] = 1 /\ UNCHANGED <<op, target, fresh, movement, conteo>>
    BY <1>2 DEF Goto, rows, request, Inv, TypeOK
  <2>8. WorkerOK(w)'
    BY <2>1, <2>5, <2>7 DEF WorkerOK, Labels, Target, Document, Reversal, MovementOps,
       ConteoOps, Exists
  <2>9. \A q \in Workers \ {w} : /\ at'[q] = at[q] /\ doc'[q] = doc[q]
                                /\ next'[q] = next[q] /\ seen'[q] = seen[q]
    BY <1>2 DEF Goto, Inv, TypeOK
  <2> QED BY <1>2, <2>1, <2>6, <2>8, <2>9, OwnStep
<1> QED BY <1>1, <1>2 DEF ReadLines

LEMMA SkipLineKeepsInv ==
    ASSUME Inv, NEW w \in Workers, SkipLine(w)
    PROVE  Inv'
<1>1. at[w] = "post" /\ WorkerOK(w) /\ next[w] \in Nat /\ next[w] # 0
  BY PostingDoc DEF SkipLine, Posting, Inv
<1>2. TypeOK'
  BY DEF SkipLine, rows, request, Inv, TypeOK
<1>3. UNCHANGED <<op, at, target, doc, fresh, seen, movement, conteo>>
      /\ next'[w] = next[w] + 1
  BY DEF SkipLine, rows, request, Inv, TypeOK
<1>4. next'[w] # 0
  BY <1>1, <1>3
<1>5. WorkerOK(w)'
  BY <1>1, <1>3, <1>4 DEF WorkerOK, Labels, Target, Document, Reversal, IsAdjustment,
     IsCompensation, CompensationsOf, Exists
<1>6. \A q \in Workers \ {w} : next'[q] = next[q]
  BY DEF SkipLine, Inv, TypeOK
<1> QED BY <1>1, <1>2, <1>3, <1>5, <1>6, OwnStep DEF SkipLine

LEMMA ReadStockKeepsInv ==
    ASSUME Inv, NEW w \in Workers, ReadStock(w)
    PROVE  Inv'
<1>1. at[w] = "post" /\ WorkerOK(w) /\ doc[w] \in Movement /\ next[w] \in Nat
      /\ next[w] # 0 /\ next[w] <= PostingCount(doc[w]) /\ HasWarehouses(doc[w])
  BY PostingDoc DEF ReadStock, Posting, CanPost, Inv
<1>2. NextCell(w) \in Cells
  BY <1>1, CellTyped DEF NextCell
<1>3. InView(w, NextCell(w)) \in Nat \cup {None}
  BY <1>2 DEF InView, Inv, TypeOK
<1>4. seen'[w] = InView(w, NextCell(w)) /\ at'[w] = "store"
      /\ UNCHANGED <<op, target, doc, fresh, next, movement, conteo>>
  BY DEF ReadStock, Goto, rows, request, Inv, TypeOK
<1>5. Applies(doc[w], next[w], seen'[w])
  BY <1>4 DEF ReadStock, CanPost, NextCell
<1>6. Or(seen'[w], 0) + DeltaOf(doc[w], next[w]) \in Nat
  <2>1. Or(seen'[w], 0) + DeltaOf(doc[w], next[w]) \in 0..MaxStock
    BY <1>5 DEF Applies, Or
  <2> QED BY <2>1, InputAssumption
<1>7. TypeOK'
  BY <1>3 DEF ReadStock, Goto, rows, request, Inv, TypeOK
<1>8. WorkerOK(w)'
  <2>1. Labels(w)'
    BY <1>1, <1>4 DEF WorkerOK, Labels
  <2>2. Target(w)'
    BY <1>1, <1>4 DEF WorkerOK, Target, Exists
  <2>3. (Or(seen[w], 0) + DeltaOf(doc[w], next[w]))' \in Nat
    BY <1>4, <1>6 DEF Or, DeltaOf, Outgoing, LineOf, Legs
  <2>4. Document(w)'
    BY <1>1, <1>4, <2>3 DEF WorkerOK, Document, IsAdjustment
  <2>5. Reversal(w)'
    BY <1>1, <1>4 DEF WorkerOK, Reversal, IsCompensation, CompensationsOf, Exists
  <2> QED BY <2>1, <2>2, <2>4, <2>5 DEF WorkerOK
<1>9. \A q \in Workers \ {w} : at'[q] = at[q] /\ seen'[q] = seen[q]
  BY DEF ReadStock, Goto, Inv, TypeOK
<1> QED BY <1>1, <1>4, <1>7, <1>8, <1>9, OwnStep DEF ReadStock

LEMMA WriteStockKeepsInv ==
    ASSUME Inv, NEW w \in Workers, WriteStock(w)
    PROVE  Inv'
<1>1. CASE Rollback(w)
  BY <1>1, RollbackKeepsInv
<1>2. CASE /\ wrote' = [wrote EXCEPT ![w][NextCell(w)] =
                           Or(seen[w], 0) + DeltaOf(doc[w], next[w])]
           /\ next' = [next EXCEPT ![w] = @ + 1]
           /\ seen' = [seen EXCEPT ![w] = None]
           /\ Goto(w, "post") /\ UNCHANGED <<rows, request, doc>>
  <2>1. at[w] = "store" /\ WorkerOK(w) /\ next[w] \in Nat /\ next[w] # 0
    BY PostingDoc DEF WriteStock, Inv
  <2>2. Or(seen[w], 0) + DeltaOf(doc[w], next[w]) \in Nat
    BY <2>1 DEF WorkerOK, Document
  <2>3. wrote' \in [Workers -> [Cells -> Nat \cup {None}]]
    BY <1>2, <2>2 DEF Inv, TypeOK
  <2>4. TypeOK'
    BY <1>2, <2>3 DEF Goto, rows, request, Inv, TypeOK
  <2>5. UNCHANGED <<op, target, doc, fresh, movement, conteo>>
        /\ at'[w] = "post" /\ next'[w] = next[w] + 1
    BY <1>2 DEF Goto, rows, request, Inv, TypeOK
  <2>6. next'[w] # 0
    BY <2>1, <2>5
  <2>7. WorkerOK(w)'
    BY <2>1, <2>5, <2>6 DEF WorkerOK, Labels, Target, Document, Reversal, IsAdjustment,
       IsCompensation, CompensationsOf, Exists
  <2>8. \A q \in Workers \ {w} : /\ at'[q] = at[q] /\ next'[q] = next[q]
                                /\ seen'[q] = seen[q]
    BY <1>2 DEF Goto, Inv, TypeOK
  <2> QED BY <1>2, <2>1, <2>4, <2>7, <2>8, OwnStep
<1> QED BY <1>1, <1>2 DEF WriteStock

LEMMA LockOriginalKeepsInv ==
    ASSUME Inv, NEW w \in Workers, LockOriginal(w)
    PROVE  Inv'
<1>1. CASE Rollback(w)
  BY <1>1, RollbackKeepsInv
<1>2. CASE /\ Goto(w, "gates") /\ UNCHANGED <<rows, request, doc, next, seen, wrote>>
           /\ Reversible(movement[target[w]])
  <2>1. at[w] = "lock" /\ WorkerOK(w) /\ MovementHolders(target[w]) = {}
    BY DEF LockOriginal, Inv
  <2>2. op[w] = "estornar"
    BY <2>1 DEF WorkerOK, Labels
  <2>3. at'[w] = "gates"
        /\ UNCHANGED <<op, target, doc, fresh, next, seen, movement, conteo>>
    BY <1>2 DEF Goto, rows, request, Inv, TypeOK
  <2>4. TypeOK'
    BY <1>2 DEF Goto, rows, request, Inv, TypeOK
  <2>5. WorkerOK(w)'
    BY <1>2, <2>1, <2>2, <2>3 DEF WorkerOK, Labels, Target, Document, Reversal,
       Reversible, Exists, MovementOps, ConteoOps
  <2>6. \A q \in Workers \ {w} : SameRequest(q)
    BY <1>2, <2>3 DEF Goto, SameRequest, Inv, TypeOK
  <2>7. ASSUME NEW q \in Workers \ {w} PROVE Apart(w, q)' /\ Apart(q, w)'
    <3>1. ~HoldsMovement(q, target[w])
      BY <2>1 DEF MovementHolders
    <3>2. (HoldsMovement(q, target[q]) => target[q] # target[w])'
      BY <2>3, <2>6, <3>1 DEF HoldsMovement, SameRequest
    <3>3. Apart(w, q) /\ Apart(q, w)
      BY DEF Inv
    <3> QED BY <2>3, <3>2, <3>3 DEF Apart
  <2> QED BY <1>2, <2>4, <2>5, <2>6, <2>7, SameRows, StepOfOne
<1> QED BY <1>1, <1>2 DEF LockOriginal

LEMMA NegatedLines ==
    ASSUME NEW d \in Movement, NEW m \in Movements
    PROVE  Compensatorio(m, d) \in Movement
<1> DEFINE ls == [k \in 1..Len(d.lines) |->
                   [d.lines[k] EXCEPT !.qty =
                     IF d.header.clase = "transferencia" THEN @ ELSE - @]]
           h == [d.header EXCEPT !.origen = MirrorOrigen(d.header),
                                 !.destino = MirrorDestino(d.header),
                                 !.refKind = "estorno", !.ref = m]
<1>0. d.lines \in Seq(Line) /\ d.header \in Header /\ Len(d.lines) \in Nat
  BY Lines
<1>1. ASSUME NEW k \in 1..Len(d.lines) PROVE ls[k] \in Line
  <2>1. d.lines[k] \in Line
    BY <1>0
  <2>2. PICK x : x = IF d.header.clase = "transferencia" THEN d.lines[k].qty
                     ELSE - d.lines[k].qty
    OBVIOUS
  <2>3. x \in Int
    BY <2>1, <2>2 DEF Line
  <2>4. ls[k] = [d.lines[k] EXCEPT !.qty = x]
    BY <2>2
  <2> HIDE DEF ls
  <2> QED BY <2>1, <2>3, <2>4, ZenonT(60) DEF Line
<1>2. ls \in Seq(Line)
  <2> HIDE DEF ls
  <2>1. ls = [k \in 1..Len(d.lines) |-> ls[k]]
    BY DEF ls
  <2> QED BY <1>0, <1>1, <2>1
<1>3. h \in Header
  <2>1. MirrorOrigen(d.header) \in Warehouses \cup {None}
        /\ MirrorDestino(d.header) \in Warehouses \cup {None}
    BY <1>0 DEF Header, MirrorOrigen, MirrorDestino
  <2>2. m \in Movements \cup Counts \cup {None}
    OBVIOUS
  <2>3. "estorno" \in {"none", "estorno", "conteo"}
    OBVIOUS
  <2> HIDE DEF ls
  <2> QED BY <1>0, <2>1, <2>2, <2>3, ZenonT(60) DEF Header, h
<1>4. Compensatorio(m, d) = [header |-> h, lines |-> ls, estado |-> "procesado",
                             maker |-> "estornar"]
  BY DEF Compensatorio
<1> HIDE DEF ls, h
<1> QED BY <1>2, <1>3, <1>4 DEF Movement, Estados

LEMMA CompensateKeepsInv ==
    ASSUME Inv, NEW w \in Workers, Compensate(w)
    PROVE  Inv'
<1> DEFINE m == target[w]
<1>1. /\ at[w] = "gates" /\ FindCompensatorio(m) = {}
      /\ doc' = [doc EXCEPT ![w] = Compensatorio(m, movement[m])]
      /\ next' = [next EXCEPT ![w] = 1] /\ Goto(w, "post")
      /\ UNCHANGED <<rows, request, seen, wrote>>
  BY DEF Compensate
<1>2. WorkerOK(w) /\ op[w] = "estornar"
  BY <1>1 DEF Inv, WorkerOK, Labels
<1>3. m \in Movements /\ Exists(m)
  BY <1>2 DEF WorkerOK, Target, MovementOps
<1>4. Compensatorio(m, movement[m]) \in Movement
  BY <1>3, MovementRow, NegatedLines
<1>5. IsCompensation(Compensatorio(m, movement[m]), m)
  <2>1. movement[m].header \in Header
    BY <1>3, MovementRow, Lines
  <2> QED BY <1>4, <2>1 DEF IsCompensation, Compensatorio, Header
<1>6. CompensationsOf(m) = {}
  BY <1>1 DEF CompensationsOf, FindCompensatorio, Inv, RowsOK, MadeRows
<1>7. doc'[w] = Compensatorio(m, movement[m]) /\ next'[w] = 1 /\ at'[w] = "post"
      /\ UNCHANGED <<op, target, fresh, seen, movement, conteo>>
  BY <1>1 DEF Goto, rows, request, Inv, TypeOK
<1>8. TypeOK'
  BY <1>1, <1>4 DEF Goto, rows, request, Inv, TypeOK
<1>9. WorkerOK(w)'
  <2>1. Labels(w)' /\ Target(w)'
    BY <1>2, <1>7 DEF WorkerOK, Labels, Target, Exists
  <2>2. Document(w)'
    BY <1>2, <1>7 DEF Document
  <2>3. IsCompensation(doc[w], target[w])' /\ (CompensationsOf(target[w]) = {})'
    BY <1>5, <1>6, <1>7 DEF IsCompensation, CompensationsOf, Exists
  <2>4. (at[w] # "lock" => movement[target[w]].header.refKind # "conteo")'
    BY <1>1, <1>2, <1>7 DEF WorkerOK, Reversal
  <2> QED BY <2>1, <2>2, <2>3, <2>4 DEF WorkerOK, Reversal
<1>10. \A q \in Workers \ {w} : /\ at'[q] = at[q] /\ doc'[q] = doc[q]
                               /\ next'[q] = next[q] /\ seen'[q] = seen[q]
  BY <1>1 DEF Goto, Inv, TypeOK
<1> QED BY <1>1, <1>8, <1>9, <1>10, OwnStep

LEMMA AdjustmentTyped ==
    ASSUME NEW c \in Counts, NEW a \in Warehouses, NEW lines \in Seq(CountLine),
           NEW costed \in BOOLEAN
    PROVE  IsAdjustment(Ajuste(c, a, lines, costed), c)
<1> DEFINE ls == [k \in 1..Len(lines) |->
                   [product |-> lines[k].product, qty |-> Difference(lines[k]),
                    priced |-> lines[k].priced]]
           h == [clase |-> "ajuste", origen |-> None, destino |-> a,
                 costed |-> costed, requires |-> FALSE,
                 refKind |-> "conteo", ref |-> c]
<1>1. ASSUME NEW k \in 1..Len(lines) PROVE ls[k] \in Line
  <2>1. lines[k] \in CountLine
    OBVIOUS
  <2>2. Difference(lines[k]) \in Int
    BY <2>1 DEF CountLine, Difference
  <2> QED BY <2>1, <2>2 DEF CountLine, Line
<1>2. ls \in Seq(Line)
  <2>1. Len(lines) \in Nat
    OBVIOUS
  <2> HIDE DEF ls
  <2>2. ls = [k \in 1..Len(lines) |-> ls[k]]
    BY DEF ls
  <2> QED BY <1>1, <2>1, <2>2
<1>3. h \in Header
  BY DEF Header
<1>4. Ajuste(c, a, lines, costed) = [header |-> h, lines |-> ls, estado |-> "procesado",
                                     maker |-> "aprobar"]
  BY DEF Ajuste
<1> HIDE DEF ls
<1> QED BY <1>2, <1>3, <1>4 DEF IsAdjustment, Movement, Estados

LEMMA ReadSheetKeepsInv ==
    ASSUME Inv, NEW w \in Workers, NEW costed \in BOOLEAN, ReadSheet(w, costed)
    PROVE  Inv'
<1>1. CASE Rollback(w)
  BY <1>1, RollbackKeepsInv
<1>2. CASE /\ doc' = [doc EXCEPT ![w] =
                        Ajuste(target[w], doc[w].almacen, conteo[target[w]].lines, costed)]
           /\ Goto(w, "totals") /\ UNCHANGED <<rows, request, next, seen, wrote>>
  <2>1. op[w] = "aprobar" /\ at[w] = "lines" /\ WorkerOK(w)
    BY DEF ReadSheet, Inv
  <2>2. target[w] \in Counts /\ conteo[target[w]] # None /\ doc[w] \in Conteo
    BY <2>1 DEF WorkerOK, Target, Document, ConteoOps
  <2>3. doc[w].almacen \in Warehouses /\ conteo[target[w]].lines \in Seq(CountLine)
    BY <2>2, ConteoRow DEF Conteo
  <2>4. PICK r : r = Ajuste(target[w], doc[w].almacen, conteo[target[w]].lines, costed)
    OBVIOUS
  <2>5. IsAdjustment(r, target[w])
    BY <2>2, <2>3, <2>4, AdjustmentTyped
  <2>6. doc'[w] = r /\ at'[w] = "totals"
        /\ UNCHANGED <<op, target, fresh, next, seen, movement, conteo>>
    BY <1>2, <2>4 DEF Goto, rows, request, Inv, TypeOK
  <2>7. TypeOK'
    BY <1>2, <2>4, <2>5 DEF IsAdjustment, Goto, rows, request, Inv, TypeOK
  <2>8. WorkerOK(w)'
    <3>1. Labels(w)' /\ Target(w)' /\ Reversal(w)'
      BY <2>1, <2>6 DEF WorkerOK, Labels, Target, Reversal, Exists
    <3>2. IsAdjustment(doc[w], target[w])'
      BY <2>5, <2>6 DEF IsAdjustment
    <3>3. Document(w)'
      BY <2>1, <2>6, <3>2 DEF Document
    <3> QED BY <3>1, <3>3 DEF WorkerOK
  <2>9. \A q \in Workers \ {w} : at'[q] = at[q] /\ doc'[q] = doc[q]
    BY <1>2 DEF Goto, Inv, TypeOK
  <2> QED BY <1>2, <2>1, <2>7, <2>8, <2>9, OwnStep
<1> QED BY <1>1, <1>2 DEF ReadSheet

LEMMA WriteTotalsKeepsInv ==
    ASSUME Inv, NEW w \in Workers, WriteTotals(w)
    PROVE  Inv'
<1>1. /\ at[w] = "totals" /\ next' = [next EXCEPT ![w] = 1] /\ Goto(w, "post")
      /\ UNCHANGED <<rows, request, doc, seen, wrote>>
  BY DEF WriteTotals
<1>2. WorkerOK(w) /\ op[w] = "aprobar"
  BY <1>1 DEF Inv, WorkerOK, Labels
<1>3. next'[w] = 1 /\ at'[w] = "post"
      /\ UNCHANGED <<op, target, doc, fresh, seen, movement, conteo>>
  BY <1>1 DEF Goto, rows, request, Inv, TypeOK
<1>4. TypeOK'
  BY <1>1 DEF Goto, rows, request, Inv, TypeOK
<1>5. WorkerOK(w)'
  BY <1>1, <1>2, <1>3 DEF WorkerOK, Labels, Target, Document, Reversal, IsAdjustment,
     Exists, ConteoOps, MovementOps
<1>6. \A q \in Workers \ {w} : at'[q] = at[q] /\ next'[q] = next[q]
  BY <1>1 DEF Goto, Inv, TypeOK
<1> QED BY <1>1, <1>4, <1>5, <1>6, OwnStep

-----------------------------------------------------------------------------
(***************************************************************************)
(* Steps that write rows.                                                  *)
(***************************************************************************)
\* A movement is created: an id nobody had, so nothing else changes.
LEMMA NewMovement ==
    ASSUME Inv, NEW m \in Movements, Unused(m), NEW r \in Movement,
           r.maker = "client", r.estado = "borrador",
           movement' = [movement EXCEPT ![m] = r],
           UNCHANGED <<stock, conteo, request, at, doc, next, seen, wrote>>
    PROVE  Inv'
<1>1. movement[m] = None /\ \A q \in Workers : fresh[q] # m
  BY DEF Unused
<1>2. /\ movement'[m] = r /\ r # None
      /\ \A n \in Movements \ {m} : movement'[n] = movement[n]
      /\ UNCHANGED <<op, at, target, doc, fresh, next, seen, conteo>>
  BY NullAssumption DEF request, Inv, TypeOK
<1>3. TypeOK'
  BY DEF request, Inv, TypeOK
<1>4. RowsStay
  BY <1>1, <1>2 DEF RowsStay, Exists
<1>5. \A x \in Movements : CompensationsOf(x)' = CompensationsOf(x)
  BY <1>1, <1>2 DEF CompensationsOf, Exists
<1>6. RowsOK'
  <2>1. MadeRows'
    BY <1>1, <1>2 DEF Inv, RowsOK, MadeRows, Exists
  <2>2. AdjustedCounts'
    BY <1>1, <1>2 DEF Inv, RowsOK, AdjustedCounts, Exists
  <2>3. OneCompensation'
    BY <1>5 DEF Inv, RowsOK, OneCompensation
  <2>4. EstornadoIsCompensated'
    <3> SUFFICES ASSUME NEW x \in Movements, Exists(x)', movement'[x].estado = "estornado"
                 PROVE  \E n \in CompensationsOf(x)' : IsPosted(n)'
      BY DEF EstornadoIsCompensated
    <3>1. PICK n \in CompensationsOf(x) : IsPosted(n)
      BY <1>2 DEF Inv, RowsOK, EstornadoIsCompensated, Exists
    <3>2. n \in Movements /\ n # m
      BY <1>1, <3>1 DEF CompensationsOf, Exists
    <3> QED BY <1>2, <1>5, <3>1, <3>2 DEF IsPosted, Exists
  <2> QED BY <2>1, <2>2, <2>3, <2>4 DEF RowsOK
<1>7. ASSUME NEW q \in Workers PROVE Undisturbed(q)
  <2>1. fresh[q] \in Movements \cup {None}
    BY DEF Inv, TypeOK
  <2>2. HoldsMovement(q, target[q]) => target[q] # m
    BY <1>1 DEF HoldsMovement, Inv, WorkerOK, Target, MovementOps, Exists
  <2>3. LockedStays(q)
    BY <1>2, <1>5, <2>2 DEF LockedStays, HoldsMovement
  <2> QED BY <1>1, <1>2, <2>1, <2>3 DEF Undisturbed, SameRequest
<1>8. \A q \in Workers : WorkerOK(q)'
  BY <1>4, <1>7, OthersKept
<1>9. \A p, q \in Workers : p # q => Apart(p, q)'
  BY <1>2 DEF Inv, Apart, HoldsMovement
<1> QED BY <1>3, <1>6, <1>8, <1>9 DEF Inv

LEMMA CreateMovementKeepsInv ==
    ASSUME Inv, NEW m \in Movements, NEW h \in Headers, NEW l \in LineLists,
           CreateMovement(m, h, l)
    PROVE  Inv'
<1>1. PICK r : r = [header |-> h, lines |-> l, estado |-> "borrador",
                    maker |-> "client"]
  OBVIOUS
<1>2. r \in Movement
  BY <1>1, InputAssumption DEF Movement, Estados
<1>3. movement' = [movement EXCEPT ![m] = r] /\ Unused(m)
  BY <1>1 DEF CreateMovement
<1>4. r.maker = "client" /\ r.estado = "borrador"
  BY <1>1
<1> QED BY <1>2, <1>3, <1>4, NewMovement DEF CreateMovement

\* A request ends by writing a movement a client made: its state, unless to
\* estornado, its lines, or its header if no estorno holds the row.
LEMMA ClientRow ==
    ASSUME Inv, NEW w \in Workers, Finish(w), NEW m \in Movements, Exists(m),
           NEW r \in Movement, r.maker = "client", movement[m].maker = "client",
           movement' = [movement EXCEPT ![m] = r], UNCHANGED conteo,
           stock' \in [Cells -> Nat \cup {None}],
           r.estado = "estornado" => movement[m].estado = "estornado",
           r.header = movement[m].header \/ MovementHolders(m) \subseteq {w}
    PROVE  Inv'
<1>2. /\ movement'[m] = r /\ r # None
      /\ \A n \in Movements \ {m} : movement'[n] = movement[n]
  BY NullAssumption DEF Inv, TypeOK
<1>3. TypeOK'
  BY EndedType DEF Inv, TypeOK
<1>4. RowsStay
  BY <1>2 DEF RowsStay, Exists
<1>5. \A x \in Movements : CompensationsOf(x)' = CompensationsOf(x)
  BY <1>2 DEF CompensationsOf, Exists
<1>6. RowsOK'
  <2>1. MadeRows'
    BY <1>2 DEF Inv, RowsOK, MadeRows, Exists
  <2>2. AdjustedCounts'
    BY <1>2 DEF Inv, RowsOK, AdjustedCounts, Exists
  <2>3. OneCompensation'
    BY <1>5 DEF Inv, RowsOK, OneCompensation
  <2>4. EstornadoIsCompensated'
    <3> SUFFICES ASSUME NEW x \in Movements, Exists(x)', movement'[x].estado = "estornado"
                 PROVE  \E n \in CompensationsOf(x)' : IsPosted(n)'
      BY DEF EstornadoIsCompensated
    <3>1. PICK n \in CompensationsOf(x) : IsPosted(n)
      BY <1>2 DEF Inv, RowsOK, EstornadoIsCompensated, Exists
    <3>2. n \in Movements /\ n # m
      BY <3>1 DEF CompensationsOf
    <3> QED BY <1>2, <1>5, <3>1, <3>2 DEF IsPosted, Exists
  <2> QED BY <2>1, <2>2, <2>3, <2>4 DEF RowsOK
<1>7. ASSUME NEW q \in Workers \ {w} PROVE Undisturbed(q)
  <2>1. fresh[q] # None => fresh[q] \in Movements /\ movement[fresh[q]] = None
    BY DEF Inv, TypeOK, WorkerOK, Target
  <2>2. HoldsMovement(q, m) => r.header = movement[m].header
    BY DEF MovementHolders
  <2>3. LockedStays(q)
    BY <1>2, <1>5, <2>2 DEF LockedStays
  <2> QED BY <1>2, <2>1, <2>3, Ended DEF Undisturbed, Exists
<1> QED BY <1>3, <1>4, <1>6, <1>7, Ended, StepOfOne

LEMMA ClientTarget ==
    ASSUME Inv, NEW w \in Workers, op[w] \in MovementOps \ {"estornar"}
    PROVE  /\ target[w] \in Movements /\ Exists(target[w])
           /\ movement[target[w]] \in Movement
           /\ movement[target[w]].maker = "client"
<1>1. target[w] \in Movements /\ Exists(target[w])
      /\ movement[target[w]].maker = "client"
  BY DEF Inv, WorkerOK, Target
<1> QED BY <1>1, MovementRow

\* UPDATE of the state of a movement, as autorizar, anular and procesar do it.
LEMMA EstadoWritten ==
    ASSUME Inv, NEW w \in Workers, op[w] \in MovementOps \ {"estornar"}, Finish(w),
           NEW e \in Estados \ {"estornado"},
           movement' = [movement EXCEPT ![target[w]].estado = e], UNCHANGED conteo,
           stock' \in [Cells -> Nat \cup {None}]
    PROVE  Inv'
<1>1. PICK m : m = target[w]
  OBVIOUS
<1>2. m \in Movements /\ Exists(m) /\ movement[m] \in Movement
      /\ movement[m].maker = "client"
  BY <1>1, ClientTarget
<1>3. PICK r : r = [movement[m] EXCEPT !.estado = e]
  OBVIOUS
<1>4. r \in Movement /\ r.header = movement[m].header /\ r.maker = movement[m].maker
      /\ r.estado = e
  BY <1>2, <1>3, ZenonT(60) DEF Movement, Estados
<1>5. movement' = [movement EXCEPT ![m] = r]
  BY <1>1, <1>3
<1> QED BY <1>2, <1>4, <1>5, ClientRow

LEMMA WriteEstadoKeepsInv ==
    ASSUME Inv, NEW w \in Workers, WriteEstado(w)
    PROVE  Inv'
<1>1. op[w] \in {"autorizar", "anular"} /\ WorkerOK(w)
  BY DEF WriteEstado, Inv
<1>2. doc[w].estado \in {"autorizado", "anulado"}
  BY <1>1 DEF WorkerOK, Document
<1>3. PICK e : e = doc[w].estado
  OBVIOUS
<1>4. e \in Estados \ {"estornado"} /\ op[w] \in MovementOps \ {"estornar"}
  BY <1>1, <1>2, <1>3 DEF Estados, MovementOps
<1>5. movement' = [movement EXCEPT ![target[w]].estado = e] /\ Finish(w)
      /\ UNCHANGED <<stock, conteo>>
  BY <1>3 DEF WriteEstado
<1> QED BY <1>4, <1>5, EstadoWritten DEF Inv, TypeOK

LEMMA CommitProcesarKeepsInv ==
    ASSUME Inv, NEW w \in Workers, CommitProcesar(w)
    PROVE  Inv'
<1>1. op[w] \in MovementOps \ {"estornar"}
  BY DEF CommitProcesar, MovementOps
<1>2. stock' \in [Cells -> Nat \cup {None}]
  BY DEF CommitProcesar, StoreStock, Inv, TypeOK
<1>3. "procesado" \in Estados \ {"estornado"}
  BY DEF Estados
<1>4. PICK e : e = "procesado"
  OBVIOUS
<1> QED BY <1>1, <1>2, <1>3, <1>4, EstadoWritten DEF CommitProcesar

LEMMA WriteEdicionKeepsInv ==
    ASSUME Inv, NEW w \in Workers, NEW h \in Headers \cup {None},
           NEW l \in LineLists \cup {None}, WriteEdicion(w, h, l)
    PROVE  Inv'
<1>1. PICK m : m = target[w]
  OBVIOUS
<1>2. m \in Movements /\ Exists(m) /\ movement[m] \in Movement
      /\ movement[m].maker = "client" /\ MovementHolders(m) \subseteq {w}
  BY <1>1, ClientTarget DEF WriteEdicion, MovementOps
<1>3. PICK h1 \in Header, l1 \in Seq(Line) :
        h1 = Or(h, movement[m].header) /\ l1 = Or(l, movement[m].lines)
  BY <1>2, Lines, InputAssumption DEF Or
<1>4. PICK r : r = [movement[m] EXCEPT !.header = h1, !.lines = l1]
  OBVIOUS
<1>5. r \in Movement /\ r.maker = movement[m].maker /\ r.estado = movement[m].estado
  BY <1>2, <1>4, ZenonT(60) DEF Movement
<1>6. movement' = [movement EXCEPT ![m] = r]
  <2>1. movement' = [movement EXCEPT ![m].header = Or(h, @), ![m].lines = Or(l, @)]
    BY <1>1 DEF WriteEdicion
  <2>2. movement' = [movement EXCEPT ![m] =
                       [movement[m] EXCEPT !.header = Or(h, movement[m].header),
                                           !.lines = Or(l, movement[m].lines)]]
    BY <1>2, <2>1 DEF Inv, TypeOK, Movement
  <2> QED BY <1>3, <1>4, <2>2
<1>7. Finish(w) /\ UNCHANGED conteo /\ stock' \in [Cells -> Nat \cup {None}]
  BY DEF WriteEdicion, Inv, TypeOK
<1> QED BY <1>2, <1>5, <1>6, <1>7, ClientRow

LEMMA WriteLineaKeepsInv ==
    ASSUME Inv, NEW w \in Workers, NEW l \in LineLists, WriteLinea(w, l)
    PROVE  Inv'
<1>0. CASE Rollback(w)
  BY <1>0, RollbackKeepsInv
<1>1. CASE /\ movement' = [movement EXCEPT ![target[w]].lines = @ \o l] /\ Finish(w)
           /\ UNCHANGED <<stock, conteo>>
  <2>1. PICK m : m = target[w]
    OBVIOUS
  <2>2. m \in Movements /\ Exists(m) /\ movement[m] \in Movement
        /\ movement[m].maker = "client"
    BY <2>1, ClientTarget DEF WriteLinea, MovementOps
  <2>3. PICK l1 : l1 = movement[m].lines \o l
    OBVIOUS
  <2>4. l1 \in Seq(Line)
    <3>1. movement[m].lines \in Seq(Line) /\ l \in Seq(Line)
      BY <2>2, Lines, InputAssumption
    <3> QED BY <2>3, <3>1
  <2>5. PICK r : r = [movement[m] EXCEPT !.lines = l1]
    OBVIOUS
  <2>6. r \in Movement /\ r.maker = movement[m].maker /\ r.estado = movement[m].estado
        /\ r.header = movement[m].header
    BY <2>2, <2>4, <2>5, ZenonT(60) DEF Movement
  <2>7. movement' = [movement EXCEPT ![m] = r]
    BY <1>1, <2>1, <2>3, <2>5
  <2> QED BY <1>1, <2>2, <2>6, <2>7, ClientRow DEF Inv, TypeOK
<1> QED BY <1>0, <1>1 DEF WriteLinea

\* A write of one count, new or old, that does not make it adjusted.
LEMMA ConteoKept ==
    ASSUME Inv, NEW c \in Counts, NEW r \in Conteo,
           conteo' = [conteo EXCEPT ![c] = r], UNCHANGED <<stock, movement>>,
           r.estado = "ajustado" =>
             conteo[c] # None /\ conteo[c].estado = "ajustado" /\ r.ajuste = conteo[c].ajuste
    PROVE  /\ RowsOK' /\ RowsStay
           /\ conteo' \in [Counts -> Conteo \cup {None}]
           /\ \A q \in Workers : SameRequest(q) => Undisturbed(q)
<1>1. conteo'[c] = r /\ r # None /\ \A x \in Counts \ {c} : conteo'[x] = conteo[x]
  BY NullAssumption DEF Inv, TypeOK
<1>2. AdjustedCounts'
  BY <1>1 DEF Inv, RowsOK, AdjustedCounts, Exists
<1>3. RowsOK'
  BY <1>2 DEF Inv, RowsOK, MadeRows, OneCompensation, EstornadoIsCompensated,
     CompensationsOf, IsPosted, Exists
<1>4. RowsStay
  BY <1>1 DEF RowsStay, Exists
<1>5. conteo' \in [Counts -> Conteo \cup {None}]
  BY DEF Inv, TypeOK
<1>6. \A q \in Workers : SameRequest(q) => Undisturbed(q)
  BY DEF Undisturbed, LockedStays, CompensationsOf, Exists
<1> QED BY <1>3, <1>4, <1>5, <1>6

LEMMA CreateConteoKeepsInv ==
    ASSUME Inv, NEW c \in Counts, NEW a \in Warehouses, NEW l \in CountLists,
           CreateConteo(c, a, l)
    PROVE  Inv'
<1>1. PICK r : r = [estado |-> "en_proceso", almacen |-> a, lines |-> l, ajuste |-> None]
  OBVIOUS
<1>2. r \in Conteo /\ r.estado # "ajustado"
  BY <1>1, InputAssumption DEF Conteo
<1>3. conteo' = [conteo EXCEPT ![c] = r] /\ UNCHANGED <<stock, movement>>
  BY <1>1 DEF CreateConteo
<1>4. UNCHANGED <<op, at, target, doc, fresh, next, seen, wrote>>
  BY DEF CreateConteo, request
<1>5. RowsOK' /\ RowsStay /\ conteo' \in [Counts -> Conteo \cup {None}]
      /\ \A q \in Workers : SameRequest(q) => Undisturbed(q)
  BY <1>2, <1>3, ConteoKept
<1>6. TypeOK'
  BY <1>3, <1>4, <1>5 DEF Inv, TypeOK
<1>7. \A q \in Workers : SameRequest(q)
  BY <1>4 DEF SameRequest
<1>8. \A q \in Workers : WorkerOK(q)'
  BY <1>5, <1>7, OthersKept
<1>9. \A p, q \in Workers : p # q => Apart(p, q)'
  BY <1>4 DEF Inv, Apart, HoldsMovement
<1> QED BY <1>5, <1>6, <1>8, <1>9 DEF Inv

LEMMA ConteoTarget ==
    ASSUME Inv, NEW w \in Workers, op[w] \in ConteoOps
    PROVE  target[w] \in Counts /\ conteo[target[w]] # None
           /\ conteo[target[w]] \in Conteo
<1>1. target[w] \in Counts /\ conteo[target[w]] # None
  BY DEF Inv, WorkerOK, Target
<1> QED BY <1>1, ConteoRow

LEMMA ConteoWritten ==
    ASSUME Inv, NEW w \in Workers, Finish(w), NEW c \in Counts, NEW r \in Conteo,
           conteo' = [conteo EXCEPT ![c] = r], UNCHANGED <<stock, movement>>,
           r.estado = "ajustado" =>
             conteo[c] # None /\ conteo[c].estado = "ajustado" /\ r.ajuste = conteo[c].ajuste
    PROVE  Inv'
<1>1. RowsOK' /\ RowsStay /\ conteo' \in [Counts -> Conteo \cup {None}]
      /\ \A q \in Workers : SameRequest(q) => Undisturbed(q)
  BY ConteoKept
<1>2. TypeOK'
  BY <1>1, EndedType DEF Inv, TypeOK
<1> QED BY <1>1, <1>2, Ended, StepOfOne

LEMMA WriteEstadoConteoKeepsInv ==
    ASSUME Inv, NEW w \in Workers, WriteEstadoConteo(w)
    PROVE  Inv'
<1>1. op[w] \in {"finalizar", "anular_conteo"} /\ WorkerOK(w)
  BY DEF WriteEstadoConteo, Inv
<1>2. doc[w].estado \in {"finalizado", "anulado"}
  BY <1>1 DEF WorkerOK, Document
<1>3. PICK c, e : c = target[w] /\ e = doc[w].estado
  OBVIOUS
<1>4. c \in Counts /\ conteo[c] # None /\ conteo[c] \in Conteo
  BY <1>1, <1>3, ConteoTarget DEF ConteoOps
<1>5. PICK r : r = [conteo[c] EXCEPT !.estado = e]
  OBVIOUS
<1>6. r \in Conteo /\ r.estado = e
  BY <1>2, <1>3, <1>4, <1>5, ZenonT(60) DEF Conteo
<1>7. conteo' = [conteo EXCEPT ![c] = r] /\ Finish(w) /\ UNCHANGED <<stock, movement>>
  BY <1>3, <1>5 DEF WriteEstadoConteo
<1>8. r.estado # "ajustado"
  BY <1>2, <1>3, <1>6
<1> QED BY <1>4, <1>6, <1>7, <1>8, ConteoWritten

LEMMA WriteConteoKeepsInv ==
    ASSUME Inv, NEW w \in Workers, NEW a \in Warehouses \cup {None},
           NEW l \in CountLists \cup {None}, WriteConteo(w, a, l)
    PROVE  Inv'
<1>1. PICK c : c = target[w]
  OBVIOUS
<1>2. c \in Counts /\ conteo[c] # None /\ conteo[c] \in Conteo
  BY <1>1, ConteoTarget DEF WriteConteo, ConteoOps
<1>3. PICK a1 \in Warehouses, l1 \in Seq(CountLine) :
        a1 = Or(a, conteo[c].almacen) /\ l1 = Or(l, conteo[c].lines)
  BY <1>2, InputAssumption DEF Or, Conteo
<1>4. PICK r : r = [conteo[c] EXCEPT !.almacen = a1, !.lines = l1]
  OBVIOUS
<1>5. r \in Conteo /\ r.estado = conteo[c].estado /\ r.ajuste = conteo[c].ajuste
  BY <1>2, <1>4, ZenonT(60) DEF Conteo
<1>6. conteo' = [conteo EXCEPT ![c] = r]
  <2>1. conteo' = [conteo EXCEPT ![c].almacen = Or(a, @), ![c].lines = Or(l, @)]
    BY <1>1 DEF WriteConteo
  <2>2. conteo' = [conteo EXCEPT ![c] =
                     [conteo[c] EXCEPT !.almacen = Or(a, conteo[c].almacen),
                                       !.lines = Or(l, conteo[c].lines)]]
    BY <1>2, <2>1 DEF Inv, TypeOK, Conteo
  <2> QED BY <1>3, <1>4, <2>2
<1>7. Finish(w) /\ UNCHANGED <<stock, movement>>
  BY DEF WriteConteo
<1> QED BY <1>2, <1>5, <1>6, <1>7, ConteoWritten

LEMMA CommitEstornarKeepsInv ==
    ASSUME Inv, NEW w \in Workers, CommitEstornar(w)
    PROVE  Inv'
<1>0. CASE Rollback(w)
  BY <1>0, RollbackKeepsInv
<1>1. CASE /\ movement[target[w]].estado = "procesado"
           /\ movement' = [movement EXCEPT ![target[w]].estado = "estornado",
                                           ![fresh[w]] = doc[w]]
           /\ StoreStock(w) /\ Finish(w) /\ UNCHANGED conteo
  <2>1. PICK m, f, d : m = target[w] /\ f = fresh[w] /\ d = doc[w]
    OBVIOUS
  <2>2. op[w] = "estornar" /\ at[w] = "post" /\ WorkerOK(w)
    BY DEF CommitEstornar, Posted, Inv
  <2>3. /\ m \in Movements /\ Exists(m) /\ movement[m] \in Movement
        /\ f \in Movements /\ movement[f] = None /\ f # None /\ m # f
    <3>1. m \in Movements /\ Exists(m) /\ f \in Movements
      BY <2>1, <2>2 DEF WorkerOK, Target, MovementOps
    <3>2. f # None
      BY <3>1, NoneAssumption
    <3>3. movement[f] = None
      BY <2>1, <2>2, <3>2 DEF WorkerOK, Target
    <3> QED BY <3>1, <3>2, <3>3, MovementRow DEF Exists
  <2>4. IsCompensation(d, m) /\ CompensationsOf(m) = {}
        /\ movement[m].header.refKind # "conteo"
    BY <2>1, <2>2 DEF WorkerOK, Reversal
  <2>5. PICK r : r = [movement[m] EXCEPT !.estado = "estornado"]
    OBVIOUS
  <2>6. r \in Movement /\ r.estado = "estornado" /\ r.header = movement[m].header
        /\ r.maker = movement[m].maker
    BY <2>3, <2>5, ZenonT(60) DEF Movement, Estados
  <2>7. /\ movement'[m] = r /\ movement'[f] = d /\ r # None /\ d # None
        /\ \A n \in Movements \ {m, f} : movement'[n] = movement[n]
    BY <1>1, <2>1, <2>3, <2>4, <2>5, <2>6, NullAssumption DEF IsCompensation, Inv, TypeOK
  <2>8. TypeOK'
    <3>1. movement' \in [Movements -> Movement \cup {None}]
      <4>1. movement' = [movement EXCEPT ![m] = r, ![f] = d]
        BY <1>1, <2>1, <2>5
      <4> QED BY <2>4, <2>6, <4>1 DEF IsCompensation, Inv, TypeOK
    <3>2. stock' \in [Cells -> Nat \cup {None}]
      BY <1>1 DEF StoreStock, Inv, TypeOK
    <3> QED BY <1>1, <3>1, <3>2, EndedType DEF Inv, TypeOK
  <2>9. RowsStay
    BY <1>1, <2>3, <2>6, <2>7 DEF RowsStay, Exists
  <2>10. ASSUME NEW x \in Movements
         PROVE  CompensationsOf(x)' =
                  IF x = m THEN {f} ELSE CompensationsOf(x)
    <3>1. ASSUME NEW n \in Movements \ {f}
          PROVE  n \in CompensationsOf(x)' <=> n \in CompensationsOf(x)
      BY <2>3, <2>6, <2>7 DEF CompensationsOf, Exists
    <3>2. f \in CompensationsOf(x)' <=> x = m
      BY <2>3, <2>4, <2>7 DEF CompensationsOf, Exists, IsCompensation
    <3>3. f \notin CompensationsOf(x)
      BY <2>3 DEF CompensationsOf, Exists
    <3>4. CompensationsOf(x) \subseteq Movements /\ CompensationsOf(x)' \subseteq Movements
      BY DEF CompensationsOf
    <3> QED BY <2>4, <3>1, <3>2, <3>3, <3>4
  <2>11. RowsOK'
    <3>1. MadeRows'
      <4> SUFFICES ASSUME NEW x \in Movements, Exists(x)'
                   PROVE  /\ movement'[x].maker = "estornar" =>
                               /\ movement'[x].estado \in {"procesado", "estornado"}
                               /\ movement'[x].header.refKind = "estorno"
                          /\ movement'[x].maker = "aprobar" =>
                               /\ movement'[x].estado = "procesado"
                               /\ movement'[x].header.refKind = "conteo"
        BY DEF MadeRows
      <4>1. CASE x = m
        BY <2>3, <2>4, <2>6, <2>7, <4>1 DEF Inv, RowsOK, MadeRows
      <4>2. CASE x = f
        BY <2>4, <2>7, <4>2 DEF IsCompensation
      <4>3. CASE x \notin {m, f}
        BY <2>7, <4>3 DEF Inv, RowsOK, MadeRows, Exists
      <4> QED BY <4>1, <4>2, <4>3
    <3>2. AdjustedCounts'
      <4> SUFFICES ASSUME NEW x \in Counts, conteo[x] # None, conteo[x].estado = "ajustado"
                   PROVE  /\ conteo[x].ajuste \in Movements
                          /\ movement'[conteo[x].ajuste] # None
                          /\ movement'[conteo[x].ajuste].maker = "aprobar"
                          /\ movement'[conteo[x].ajuste].header.ref = x
        BY <1>1 DEF AdjustedCounts, Exists
      <4>1. /\ conteo[x].ajuste \in Movements /\ Exists(conteo[x].ajuste)
            /\ movement[conteo[x].ajuste].maker = "aprobar"
            /\ movement[conteo[x].ajuste].header.ref = x
        BY DEF Inv, RowsOK, AdjustedCounts
      <4>2. conteo[x].ajuste # m
        BY <2>4, <4>1 DEF Inv, RowsOK, MadeRows
      <4>3. conteo[x].ajuste # f
        BY <2>3, <4>1 DEF Exists
      <4> QED BY <2>7, <4>1, <4>2, <4>3 DEF Exists
    <3>3. OneCompensation'
      BY <2>10 DEF Inv, RowsOK, OneCompensation
    <3>4. EstornadoIsCompensated'
      <4> SUFFICES ASSUME NEW x \in Movements, Exists(x)', movement'[x].estado = "estornado"
                   PROVE  \E n \in CompensationsOf(x)' : IsPosted(n)'
        BY DEF EstornadoIsCompensated
      <4>1. CASE x = m
        BY <2>4, <2>7, <2>10, <4>1 DEF IsCompensation, IsPosted, Exists
      <4>2. CASE x = f
        BY <2>4, <2>7, <4>2 DEF IsCompensation
      <4>3. CASE x \notin {m, f}
        <5>1. PICK n \in CompensationsOf(x) : IsPosted(n)
          BY <2>7, <4>3 DEF Inv, RowsOK, EstornadoIsCompensated, Exists
        <5>2. n \in Movements /\ n # f
          BY <2>3, <5>1 DEF CompensationsOf, Exists
        <5>3. IsPosted(n)'
          BY <2>6, <2>7, <5>1, <5>2 DEF IsPosted, Exists
        <5> QED BY <2>10, <4>3, <5>1, <5>3
      <4> QED BY <4>1, <4>2, <4>3
    <3> QED BY <3>1, <3>2, <3>3, <3>4 DEF RowsOK
  <2>12. ASSUME NEW q \in Workers \ {w} PROVE Undisturbed(q)
    <3>1. Apart(w, q) /\ WorkerOK(q)
      BY DEF Inv
    <3>2. HoldsMovement(w, m)
      BY <2>1, <2>2 DEF HoldsMovement
    <3>3. ASSUME NEW x \in Movements, HoldsMovement(q, x) PROVE x \notin {m, f}
      <4>1. x # m
        BY <2>1, <3>1, <3>2, <3>3 DEF Apart, HoldsMovement
      <4>2. Exists(x)
        BY <3>1, <3>3 DEF WorkerOK, Target, HoldsMovement, MovementOps
      <4> QED BY <2>3, <4>1, <4>2 DEF Exists
    <3>4. LockedStays(q)
      BY <2>7, <2>10, <3>3 DEF LockedStays
    <3>5. fresh[q] # None => movement'[fresh[q]] = movement[fresh[q]]
      <4> SUFFICES ASSUME fresh[q] # None
                   PROVE  movement'[fresh[q]] = movement[fresh[q]]
        OBVIOUS
      <4>1. fresh[q] \in Movements /\ movement[fresh[q]] = None
        BY <3>1 DEF WorkerOK, Target, Inv, TypeOK
      <4>2. fresh[q] # f
        BY <2>1, <2>3, <3>1 DEF Apart
      <4> QED BY <2>3, <2>7, <4>1, <4>2 DEF Exists
    <3> QED BY <1>1, <3>4, <3>5, Ended DEF Undisturbed
  <2> QED BY <1>1, <2>8, <2>9, <2>11, <2>12, Ended, StepOfOne
<1> QED BY <1>0, <1>1 DEF CommitEstornar

LEMMA CommitAprobarKeepsInv ==
    ASSUME Inv, NEW w \in Workers, CommitAprobar(w)
    PROVE  Inv'
<1>1. PICK c, f, d : c = target[w] /\ f = fresh[w] /\ d = doc[w]
  OBVIOUS
<1>2. op[w] = "aprobar" /\ at[w] = "post" /\ WorkerOK(w)
  BY DEF CommitAprobar, Posted, Inv
<1>3. /\ c \in Counts /\ conteo[c] # None /\ conteo[c] \in Conteo
      /\ f \in Movements /\ movement[f] = None /\ f # None
  <2>1. c \in Counts /\ conteo[c] # None /\ f \in Movements
    BY <1>1, <1>2 DEF WorkerOK, Target, ConteoOps
  <2>2. f # None
    BY <2>1, NoneAssumption
  <2> QED BY <1>1, <1>2, <2>1, <2>2, ConteoRow DEF WorkerOK, Target
<1>4. IsAdjustment(d, c)
  BY <1>1, <1>2 DEF WorkerOK, Document
<1>5. PICK r : r = [conteo[c] EXCEPT !.estado = "ajustado", !.ajuste = f]
  OBVIOUS
<1>6. r \in Conteo /\ r.estado = "ajustado" /\ r.ajuste = f /\ r # None
  <2>1. f \in Movements \cup {None} /\ "ajustado" \in {"en_proceso", "finalizado", "ajustado", "anulado"}
    BY <1>3
  <2>2. r \in Conteo
    BY <1>3, <1>5, <2>1, ZenonT(60) DEF Conteo
  <2>3. r.estado = "ajustado" /\ r.ajuste = f
    BY <1>3, <1>5, ZenonT(60) DEF Conteo
  <2> QED BY <2>2, <2>3, NullAssumption
<1>7. /\ conteo' = [conteo EXCEPT ![c] = r]
      /\ movement' = [movement EXCEPT ![f] = d] /\ d # None /\ d \in Movement
  <2>1. conteo' = [conteo EXCEPT ![c].estado = "ajustado", ![c].ajuste = f]
    BY <1>1 DEF CommitAprobar
  <2>2. conteo' = [conteo EXCEPT ![c] = [conteo[c] EXCEPT !.estado = "ajustado",
                                                        !.ajuste = f]]
    BY <1>3, <2>1 DEF Inv, TypeOK, Conteo
  <2>3. movement' = [movement EXCEPT ![f] = d]
    BY <1>1 DEF CommitAprobar
  <2> QED BY <1>4, <1>5, <2>2, <2>3, NullAssumption DEF IsAdjustment
<1>8. /\ conteo'[c] = r /\ movement'[f] = d
      /\ \A x \in Counts \ {c} : conteo'[x] = conteo[x]
      /\ \A n \in Movements \ {f} : movement'[n] = movement[n]
  BY <1>3, <1>7 DEF Inv, TypeOK
<1>9. TypeOK'
  <2>1. stock' \in [Cells -> Nat \cup {None}]
    BY DEF CommitAprobar, StoreStock, Inv, TypeOK
  <2>2. conteo' \in [Counts -> Conteo \cup {None}]
        /\ movement' \in [Movements -> Movement \cup {None}]
    BY <1>6, <1>7 DEF Inv, TypeOK
  <2> QED BY <2>1, <2>2, EndedType DEF CommitAprobar, TypeOK
<1>10. RowsStay
  BY <1>3, <1>6, <1>8 DEF RowsStay, Exists
<1>11. \A x \in Movements : CompensationsOf(x)' = CompensationsOf(x)
  BY <1>3, <1>4, <1>7, <1>8 DEF CompensationsOf, Exists, IsAdjustment
<1>12. RowsOK'
  <2>1. MadeRows'
    BY <1>4, <1>8 DEF Inv, RowsOK, MadeRows, Exists, IsAdjustment
  <2>2. AdjustedCounts'
    <3> SUFFICES ASSUME NEW x \in Counts, conteo'[x] # None, conteo'[x].estado = "ajustado"
                 PROVE  /\ conteo'[x].ajuste \in Movements /\ movement'[conteo'[x].ajuste] # None
                        /\ movement'[conteo'[x].ajuste].maker = "aprobar"
                        /\ movement'[conteo'[x].ajuste].header.ref = x
      BY DEF AdjustedCounts, Exists
    <3>1. CASE x = c
      BY <1>3, <1>4, <1>6, <1>7, <1>8, <3>1 DEF IsAdjustment, Exists
    <3>2. CASE x # c
      BY <1>3, <1>8, <3>2 DEF Inv, RowsOK, AdjustedCounts, Exists
    <3> QED BY <3>1, <3>2
  <2>3. OneCompensation'
    BY <1>11 DEF Inv, RowsOK, OneCompensation
  <2>4. EstornadoIsCompensated'
    <3> SUFFICES ASSUME NEW x \in Movements, Exists(x)', movement'[x].estado = "estornado"
                 PROVE  \E n \in CompensationsOf(x)' : IsPosted(n)'
      BY DEF EstornadoIsCompensated
    <3>0. x # f
      BY <1>4, <1>8 DEF IsAdjustment
    <3>1. PICK n \in CompensationsOf(x) : IsPosted(n)
      BY <1>8, <3>0 DEF Inv, RowsOK, EstornadoIsCompensated, Exists
    <3>2. n \in Movements /\ n # f
      BY <1>3, <3>1 DEF CompensationsOf, Exists
    <3> QED BY <1>8, <1>11, <3>1, <3>2 DEF IsPosted, Exists
  <2> QED BY <2>1, <2>2, <2>3, <2>4 DEF RowsOK
<1>13. ASSUME NEW q \in Workers \ {w} PROVE Undisturbed(q)
  <2>1. Apart(w, q) /\ WorkerOK(q)
    BY DEF Inv
  <2>2. ASSUME NEW x \in Movements, HoldsMovement(q, x) PROVE x # f
    <3>1. Exists(x)
      BY <2>1, <2>2 DEF WorkerOK, Target, HoldsMovement, MovementOps
    <3> QED BY <1>3, <3>1 DEF Exists
  <2>3. LockedStays(q)
    BY <1>8, <1>11, <2>2 DEF LockedStays
  <2>4. fresh[q] # None => fresh[q] \in Movements /\ fresh[q] # f
    BY <1>1, <1>3, <2>1 DEF Apart, Inv, TypeOK
  <2> QED BY <1>8, <2>3, <2>4, Ended DEF Undisturbed, CommitAprobar
<1> QED BY <1>9, <1>10, <1>12, <1>13, Ended, StepOfOne DEF CommitAprobar

-----------------------------------------------------------------------------
(***************************************************************************)
(* The theorems.                                                           *)
(***************************************************************************)
LEMMA InitInv == Init => Inv
<1> SUFFICES ASSUME Init PROVE Inv
  OBVIOUS
<1>1. TypeOK
  BY DEF Init, TypeOK, NothingWritten
<1>2. RowsOK
  BY DEF Init, RowsOK, MadeRows, AdjustedCounts, OneCompensation, EstornadoIsCompensated,
     CompensationsOf, Exists
<1>3. \A w \in Workers : WorkerOK(w)
  BY DEF Init, WorkerOK, Labels, Target, Document, Reversal, MovementOps, ConteoOps
<1>4. \A w, q \in Workers : w # q => Apart(w, q)
  BY DEF Init, Apart, HoldsMovement
<1> QED BY <1>1, <1>2, <1>3, <1>4 DEF Inv

LEMMA StepKeepsInv ==
    ASSUME Inv, NEW w \in Workers, BeginRequest(w) \/ Step(w)
    PROVE  Inv'
<1>1. CASE BeginRequest(w)
  BY <1>1, BeginMovementKeepsInv, BeginEstornarKeepsInv, BeginConteoKeepsInv,
     BeginAprobarKeepsInv DEF BeginRequest
<1>2. CASE WriteEstado(w) \/ (\E h \in Headers \cup {None}, l \in LineLists \cup {None} :
                                WriteEdicion(w, h, l))
           \/ (\E l \in LineLists : WriteLinea(w, l)) \/ WriteEstadoConteo(w)
           \/ (\E a \in Warehouses \cup {None}, l \in CountLists \cup {None} :
                 WriteConteo(w, a, l))
  BY <1>2, WriteEstadoKeepsInv, WriteEdicionKeepsInv, WriteLineaKeepsInv,
     WriteEstadoConteoKeepsInv, WriteConteoKeepsInv
<1>3. CASE ReadLines(w) \/ SkipLine(w) \/ ReadStock(w) \/ RefuseLine(w) \/ WriteStock(w)
           \/ CommitProcesar(w)
  BY <1>3, ReadLinesKeepsInv, SkipLineKeepsInv, ReadStockKeepsInv, WriteStockKeepsInv,
     CommitProcesarKeepsInv, RollbackKeepsInv DEF RefuseLine
<1>4. CASE LockOriginal(w) \/ Compensate(w) \/ RefuseEstorno(w) \/ CommitEstornar(w)
  BY <1>4, LockOriginalKeepsInv, CompensateKeepsInv, CommitEstornarKeepsInv,
     RollbackKeepsInv DEF RefuseEstorno
<1>5. CASE (\E costed \in BOOLEAN : ReadSheet(w, costed)) \/ WriteTotals(w)
           \/ CommitAprobar(w)
  BY <1>5, ReadSheetKeepsInv, WriteTotalsKeepsInv, CommitAprobarKeepsInv
<1> QED BY <1>1, <1>2, <1>3, <1>4, <1>5 DEF Step

LEMMA NextKeepsInv == Inv /\ [Next]_vars => Inv'
<1> SUFFICES ASSUME Inv, [Next]_vars PROVE Inv'
  OBVIOUS
<1>1. CASE UNCHANGED vars
  <2>1. UNCHANGED <<stock, movement, conteo, op, at, target, doc, fresh, next, seen, wrote>>
    BY <1>1 DEF vars, rows, request
  <2>2. TypeOK'
    BY <2>1 DEF Inv, TypeOK
  <2>3. RowsOK' /\ RowsStay /\ \A q \in Workers : Undisturbed(q)
    BY <2>1, SameRows DEF rows, SameRequest
  <2>4. \A w \in Workers : WorkerOK(w)'
    BY <2>3, OthersKept
  <2>5. \A w, q \in Workers : w # q => Apart(w, q)'
    BY <2>1 DEF Inv, Apart, HoldsMovement
  <2> QED BY <2>2, <2>3, <2>4, <2>5 DEF Inv
<1>2. CASE Create
  BY <1>2, CreateMovementKeepsInv, CreateConteoKeepsInv DEF Create
<1>3. ASSUME NEW w \in Workers, BeginRequest(w) \/ Step(w) PROVE Inv'
  BY <1>3, StepKeepsInv
<1>4. ASSUME NEW w \in Workers, DeadlockVictim(w) \/ Fail(w) PROVE Inv'
  BY <1>4, RollbackKeepsInv DEF DeadlockVictim, Fail
<1> QED BY <1>1, <1>2, <1>3, <1>4 DEF Next

LEMMA InvAlways == Spec => []Inv
BY InitInv, NextKeepsInv, PTL DEF Spec

\* The rows, the requests and the stock they have written keep their types,
\* in particular no quantity ever becomes negative.
THEOREM InventoryTypeCorrect == Spec => []TypeOK
<1>1. Inv => TypeOK
  BY DEF Inv
<1> QED BY <1>1, InvAlways, PTL

\* INV_IMPLEMENTACION_P0-003 6.3: the update lock and the search for an
\* earlier compensation let a movement be compensated once, however many
\* requests race.
THEOREM OneCompensationAlways == Spec => []OneCompensation
<1>1. Inv => OneCompensation
  BY DEF Inv, RowsOK
<1> QED BY <1>1, InvAlways, PTL

\* The same section: an original is estornado together with the insertion of
\* its posted counterpart, and nothing takes that one away.
THEOREM EstornadoIsCompensatedAlways == Spec => []EstornadoIsCompensated
<1>1. Inv => EstornadoIsCompensated
  BY DEF Inv, RowsOK
<1> QED BY <1>1, InvAlways, PTL

\* The adjustment of a count is posted, names the count, and stays posted:
\* the reversal gate and the states of made rows keep every request off it.
THEOREM AdjustedCountIsPostedAlways == Spec => []AdjustedCountIsPosted
<1>1. Inv => AdjustedCountIsPosted
  <2> SUFFICES ASSUME Inv, NEW c \in Counts, conteo[c] # None,
                      conteo[c].estado = "ajustado"
               PROVE  /\ conteo[c].ajuste # None /\ Exists(conteo[c].ajuste)
                      /\ movement[conteo[c].ajuste].estado = "procesado"
                      /\ movement[conteo[c].ajuste].header.ref = c
    BY DEF AdjustedCountIsPosted
  <2>1. /\ conteo[c].ajuste \in Movements /\ Exists(conteo[c].ajuste)
        /\ movement[conteo[c].ajuste].maker = "aprobar"
        /\ movement[conteo[c].ajuste].header.ref = c
    BY DEF Inv, RowsOK, AdjustedCounts
  <2>2. movement[conteo[c].ajuste].estado = "procesado"
    BY <2>1 DEF Inv, RowsOK, MadeRows
  <2> QED BY <2>1, <2>2, NoneAssumption
<1> QED BY <1>1, InvAlways, PTL
-----------------------------------------------------------------------------
(***************************************************************************)
(* What each step writes: which rows, and how.                             *)
(***************************************************************************)
OthersApart(w) == \A q \in Workers \ {w} : SameRequest(q) /\ wrote'[q] = wrote[q]

LEMMA Finishes ==
    ASSUME Inv, NEW w \in Workers, Finish(w)
    PROVE  /\ op'[w] = "none" /\ at'[w] = "begin" /\ wrote'[w] = NothingWritten
           /\ OthersApart(w)
  BY DEF Finish, OthersApart, SameRequest, Inv, TypeOK

LEMMA BeginsApart ==
    ASSUME Inv, NEW w \in Workers, BeginRequest(w)
    PROVE  OthersApart(w) /\ UNCHANGED rows
<1>1. PICK o, t, n, label : Begin(w, o, t, n, label)
  BY DEF BeginRequest, BeginAutorizar, BeginAnular, BeginProcesar, BeginEditar,
     BeginLinea, BeginEstornar, BeginFinalizar, BeginAnularConteo, BeginEditarConteo,
     BeginAprobar
<1>2. doc' = doc \/ \E r : doc' = [doc EXCEPT ![w] = r]
  BY DEF BeginRequest, BeginAutorizar, BeginAnular, BeginProcesar, BeginEditar,
     BeginLinea, BeginEstornar, BeginFinalizar, BeginAnularConteo, BeginEditarConteo,
     BeginAprobar
<1>3. \A q \in Workers \ {w} : doc'[q] = doc[q]
  BY <1>2 DEF Inv, TypeOK
<1> QED BY <1>1, <1>3 DEF Begin, Goto, OthersApart, SameRequest, Inv, TypeOK

\* The steps that end no request.
Goes(w) ==
    \/ /\ SkipLine(w) \/ ReadStock(w) \/ Compensate(w) \/ WriteTotals(w)
    \/ LockOriginal(w) /\ ~Rollback(w)
    \/ ReadLines(w) /\ ~Rollback(w)
    \/ WriteStock(w) /\ ~Rollback(w)
    \/ (\E costed \in BOOLEAN : ReadSheet(w, costed)) /\ ~Rollback(w)

LEMMA GoesApart ==
    ASSUME Inv, NEW w \in Workers, Goes(w)
    PROVE  OthersApart(w) /\ UNCHANGED rows /\ UNCHANGED request
<1>1. CASE SkipLine(w)
  BY <1>1 DEF SkipLine, OthersApart, SameRequest, request, Inv, TypeOK
<1>2. CASE ReadStock(w)
  BY <1>2 DEF ReadStock, Goto, OthersApart, SameRequest, request, Inv, TypeOK
<1>3. CASE Compensate(w)
  BY <1>3 DEF Compensate, Goto, OthersApart, SameRequest, request, Inv, TypeOK
<1>4. CASE WriteTotals(w)
  BY <1>4 DEF WriteTotals, Goto, OthersApart, SameRequest, request, Inv, TypeOK
<1>5. CASE LockOriginal(w) /\ ~Rollback(w)
  BY <1>5 DEF LockOriginal, Goto, OthersApart, SameRequest, request, Inv, TypeOK
<1>6. CASE ReadLines(w) /\ ~Rollback(w)
  BY <1>6 DEF ReadLines, Goto, OthersApart, SameRequest, request, Inv, TypeOK
<1>7. CASE WriteStock(w) /\ ~Rollback(w)
  BY <1>7 DEF WriteStock, Goto, OthersApart, SameRequest, request, Inv, TypeOK
<1>8. CASE (\E costed \in BOOLEAN : ReadSheet(w, costed)) /\ ~Rollback(w)
  BY <1>8 DEF ReadSheet, Goto, OthersApart, SameRequest, request, Inv, TypeOK
<1> QED BY <1>1, <1>2, <1>3, <1>4, <1>5, <1>6, <1>7, <1>8 DEF Goes

\* The steps that end a request and write a row of a document.
WritesEstado(w) == WriteEstado(w) \/ CommitProcesar(w)
WritesBody(w) ==
    /\ ~Rollback(w)
    /\ \/ \E h \in Headers \cup {None}, l \in LineLists \cup {None} : WriteEdicion(w, h, l)
       \/ \E l \in LineLists : WriteLinea(w, l)
WritesCount(w) ==
    \/ WriteEstadoConteo(w)
    \/ \E a \in Warehouses \cup {None}, l \in CountLists \cup {None} : WriteConteo(w, a, l)
Compensates(w) == CommitEstornar(w) /\ ~Rollback(w)

LEMMA StepCases ==
    ASSUME NEW w \in Workers, Step(w)
    PROVE  \/ Rollback(w) \/ Goes(w) \/ WritesEstado(w) \/ WritesBody(w)
           \/ WritesCount(w) \/ Compensates(w) \/ CommitAprobar(w)
  BY DEF Step, Goes, WritesEstado, WritesBody, WritesCount, Compensates, RefuseLine,
     RefuseEstorno

\* The steps by the rows of inv_movimiento they write.
LEMMA NextCases ==
    ASSUME Next
    PROVE  \/ Create
           \/ \E w \in Workers : \/ BeginRequest(w) \/ Goes(w) \/ Rollback(w)
                                 \/ WritesCount(w) \/ WritesEstado(w) \/ WritesBody(w)
                                 \/ Compensates(w) \/ CommitAprobar(w)
<1>1. ASSUME NEW w \in Workers, DeadlockVictim(w) \/ Fail(w)
      PROVE  Rollback(w)
  BY <1>1 DEF DeadlockVictim, Fail
<1> QED BY <1>1, StepCases DEF Next

\* Every other row of inv_movimiento.
OnlyRow(m) == \A n \in Movements \ {m} : movement'[n] = movement[n]

\* autorizar, anular and procesar write the state of their movement only.
LEMMA EstadoRow ==
    ASSUME Inv, NEW w \in Workers, WritesEstado(w)
    PROVE  /\ op[w] \in {"autorizar", "anular", "procesar"}
           /\ Finish(w) /\ UNCHANGED conteo
           /\ target[w] \in Movements /\ Exists(target[w]) /\ movement'[target[w]] # None
           /\ movement[target[w]] \in Movement /\ movement[target[w]].maker = "client"
           /\ movement'[target[w]].header = movement[target[w]].header
           /\ movement'[target[w]].lines = movement[target[w]].lines
           /\ movement'[target[w]].maker = movement[target[w]].maker
           /\ movement'[target[w]].estado =
                IF op[w] = "procesar" THEN "procesado" ELSE doc[w].estado
           /\ doc[w].estado \in {"autorizado", "anulado"} \/ op[w] = "procesar"
           /\ MovementHolders(target[w]) \subseteq {w}
           /\ OnlyRow(target[w])
<1>1. op[w] \in {"autorizar", "anular", "procesar"} /\ Finish(w) /\ UNCHANGED conteo
      /\ MovementHolders(target[w]) \subseteq {w}
  BY DEF WritesEstado, WriteEstado, CommitProcesar
<1>2. PICK m : m = target[w]
  OBVIOUS
<1>3. m \in Movements /\ Exists(m) /\ movement[m] \in Movement
      /\ movement[m].maker = "client"
  BY <1>1, <1>2, ClientTarget DEF MovementOps
<1>4. doc[w].estado \in {"autorizado", "anulado"} \/ op[w] = "procesar"
  BY <1>1 DEF Inv, WorkerOK, Document
<1>5. PICK e : e = IF op[w] = "procesar" THEN "procesado" ELSE doc[w].estado
  OBVIOUS
<1>6. e \in Estados /\ movement' = [movement EXCEPT ![m].estado = e]
  BY <1>2, <1>4, <1>5 DEF WritesEstado, WriteEstado, CommitProcesar, Estados
<1>7. PICK r : r = [movement[m] EXCEPT !.estado = e]
  OBVIOUS
<1>8. r \in Movement /\ r.header = movement[m].header /\ r.maker = movement[m].maker
      /\ r.estado = e /\ r.lines = movement[m].lines
  BY <1>3, <1>6, <1>7, ZenonT(60) DEF Movement, Estados
<1>9. movement' = [movement EXCEPT ![m] = r]
  BY <1>6, <1>7
<1>10. movement'[m] = r /\ r # None /\ OnlyRow(m)
  BY <1>3, <1>8, <1>9, NullAssumption DEF OnlyRow, Inv, TypeOK
<1> QED BY <1>1, <1>2, <1>3, <1>4, <1>5, <1>8, <1>10 DEF Exists

\* The edits keep the maker and the state.
LEMMA EdicionRow ==
    ASSUME Inv, NEW w \in Workers, NEW h \in Headers \cup {None},
           NEW l \in LineLists \cup {None}, WriteEdicion(w, h, l)
    PROVE  \E r \in Movement :
             /\ r.maker = movement[target[w]].maker
             /\ r.estado = movement[target[w]].estado
             /\ movement' = [movement EXCEPT ![target[w]] = r]
<1>1. PICK m : m = target[w]
  OBVIOUS
<1>2. m \in Movements /\ Exists(m) /\ movement[m] \in Movement
  BY <1>1, ClientTarget DEF WriteEdicion, MovementOps
<1>3. PICK h1 \in Header, l1 \in Seq(Line) :
        h1 = Or(h, movement[m].header) /\ l1 = Or(l, movement[m].lines)
  BY <1>2, Lines, InputAssumption DEF Or
<1>4. PICK r : r = [movement[m] EXCEPT !.header = h1, !.lines = l1]
  OBVIOUS
<1>5. r \in Movement /\ r.maker = movement[m].maker /\ r.estado = movement[m].estado
  BY <1>2, <1>4, ZenonT(60) DEF Movement
<1>6. movement' = [movement EXCEPT ![m] = r]
  <2>1. movement' = [movement EXCEPT ![m].header = Or(h, @), ![m].lines = Or(l, @)]
    BY <1>1 DEF WriteEdicion
  <2>2. movement' = [movement EXCEPT ![m] =
                       [movement[m] EXCEPT !.header = Or(h, movement[m].header),
                                           !.lines = Or(l, movement[m].lines)]]
    BY <1>2, <2>1 DEF Inv, TypeOK, Movement
  <2> QED BY <1>3, <1>4, <2>2
<1> QED BY <1>1, <1>5, <1>6

LEMMA LineaRow ==
    ASSUME Inv, NEW w \in Workers, NEW l \in LineLists, WriteLinea(w, l), ~Rollback(w)
    PROVE  \E r \in Movement :
             /\ r.maker = movement[target[w]].maker
             /\ r.estado = movement[target[w]].estado
             /\ r.header = movement[target[w]].header
             /\ movement' = [movement EXCEPT ![target[w]] = r]
<1>1. PICK m : m = target[w]
  OBVIOUS
<1>2. m \in Movements /\ Exists(m) /\ movement[m] \in Movement
  BY <1>1, ClientTarget DEF WriteLinea, MovementOps
<1>3. PICK l1 : l1 = movement[m].lines \o l
  OBVIOUS
<1>4. l1 \in Seq(Line)
  <2>1. movement[m].lines \in Seq(Line) /\ l \in Seq(Line)
    BY <1>2, Lines, InputAssumption
  <2> QED BY <1>3, <2>1
<1>5. PICK r : r = [movement[m] EXCEPT !.lines = l1]
  OBVIOUS
<1>6. r \in Movement /\ r.maker = movement[m].maker /\ r.estado = movement[m].estado
      /\ r.header = movement[m].header
  BY <1>2, <1>4, <1>5, ZenonT(60) DEF Movement
<1>7. movement' = [movement EXCEPT ![m] = r]
  BY <1>1, <1>3, <1>5 DEF WriteLinea
<1> QED BY <1>1, <1>6, <1>7

LEMMA BodyRow ==
    ASSUME Inv, NEW w \in Workers, WritesBody(w)
    PROVE  /\ op[w] \in {"editar", "linea"}
           /\ Finish(w) /\ UNCHANGED <<stock, conteo>>
           /\ target[w] \in Movements /\ Exists(target[w]) /\ movement'[target[w]] # None
           /\ movement[target[w]] \in Movement /\ movement[target[w]].maker = "client"
           /\ movement'[target[w]].maker = movement[target[w]].maker
           /\ movement'[target[w]].estado = movement[target[w]].estado
           /\ OnlyRow(target[w])
<1>1. op[w] \in {"editar", "linea"} /\ Finish(w) /\ UNCHANGED <<stock, conteo>>
  BY DEF WritesBody, WriteEdicion, WriteLinea
<1>2. PICK m : m = target[w]
  OBVIOUS
<1>3. m \in Movements /\ Exists(m) /\ movement[m] \in Movement
      /\ movement[m].maker = "client"
  BY <1>1, <1>2, ClientTarget DEF MovementOps
<1>4. PICK r \in Movement : /\ r.maker = movement[m].maker /\ r.estado = movement[m].estado
                            /\ movement' = [movement EXCEPT ![m] = r]
  BY <1>2, EdicionRow, LineaRow DEF WritesBody
<1>5. movement'[m] = r /\ r # None /\ OnlyRow(m)
  BY <1>3, <1>4, NullAssumption DEF OnlyRow, Inv, TypeOK
<1> QED BY <1>1, <1>2, <1>3, <1>4, <1>5

\* A new movement of a client has an id nobody had.
LEMMA CreatedRow ==
    ASSUME Inv, NEW m \in Movements, NEW h \in Headers, NEW l \in LineLists,
           CreateMovement(m, h, l)
    PROVE  /\ ~Exists(m) /\ \A q \in Workers : fresh[q] # m
           /\ movement'[m] # None /\ movement'[m].maker = "client"
           /\ movement'[m].estado = "borrador" /\ OnlyRow(m)
           /\ UNCHANGED <<stock, conteo, request, at, doc, next, seen, wrote>>
<1>1. PICK r : r = [header |-> h, lines |-> l, estado |-> "borrador",
                    maker |-> "client"]
  OBVIOUS
<1>2. r \in Movement /\ r # None
  BY <1>1, InputAssumption, NullAssumption DEF Movement, Estados
<1>3. movement'[m] = r /\ OnlyRow(m)
  BY <1>1 DEF CreateMovement, OnlyRow, Inv, TypeOK
<1> QED BY <1>1, <1>2, <1>3 DEF CreateMovement, Unused, Exists

\* estornar marks its movement and inserts the compensation.
LEMMA CompensatedRow ==
    ASSUME Inv, NEW w \in Workers, Compensates(w)
    PROVE  /\ op[w] = "estornar" /\ at[w] = "post" /\ Finish(w) /\ UNCHANGED conteo
           /\ target[w] \in Movements /\ Exists(target[w])
           /\ movement[target[w]] \in Movement
           /\ movement[target[w]].estado = "procesado"
           /\ fresh[w] \in Movements /\ ~Exists(fresh[w]) /\ fresh[w] # target[w]
           /\ IsCompensation(doc[w], target[w]) /\ CompensationsOf(target[w]) = {}
           /\ movement'[target[w]] # None /\ movement'[target[w]].estado = "estornado"
           /\ movement'[target[w]].header = movement[target[w]].header
           /\ movement'[target[w]].lines = movement[target[w]].lines
           /\ movement'[target[w]].maker = movement[target[w]].maker
           /\ movement'[fresh[w]] = doc[w] /\ doc[w] # None
           /\ \A n \in Movements \ {target[w], fresh[w]} : movement'[n] = movement[n]
<1>1. /\ op[w] = "estornar" /\ at[w] = "post" /\ WorkerOK(w)
      /\ movement[target[w]].estado = "procesado"
      /\ movement' = [movement EXCEPT ![target[w]].estado = "estornado",
                                      ![fresh[w]] = doc[w]]
      /\ Finish(w) /\ UNCHANGED conteo
  BY DEF Compensates, CommitEstornar, Posted, Inv
<1>2. PICK m, f, d : m = target[w] /\ f = fresh[w] /\ d = doc[w]
  OBVIOUS
<1>3. /\ m \in Movements /\ Exists(m) /\ movement[m] \in Movement
      /\ f \in Movements /\ ~Exists(f) /\ m # f
  <2>1. m \in Movements /\ Exists(m) /\ f \in Movements
    BY <1>1, <1>2 DEF WorkerOK, Target, MovementOps
  <2>2. movement[f] = None
    BY <1>1, <1>2, <2>1, NoneAssumption DEF WorkerOK, Target
  <2> QED BY <2>1, <2>2, MovementRow DEF Exists
<1>4. IsCompensation(d, m) /\ CompensationsOf(m) = {} /\ d # None
  BY <1>1, <1>2, NullAssumption DEF WorkerOK, Reversal, IsCompensation
<1>5. PICK r : r = [movement[m] EXCEPT !.estado = "estornado"]
  OBVIOUS
<1>6. r \in Movement /\ r.estado = "estornado" /\ r.header = movement[m].header
      /\ r.maker = movement[m].maker /\ r.lines = movement[m].lines /\ r # None
  <2>1. r \in Movement /\ r.estado = "estornado" /\ r.header = movement[m].header
        /\ r.maker = movement[m].maker /\ r.lines = movement[m].lines
    BY <1>3, <1>5, ZenonT(60) DEF Movement, Estados
  <2> QED BY <2>1, NullAssumption
<1>7. /\ movement'[m] = r /\ movement'[f] = d
      /\ \A n \in Movements \ {m, f} : movement'[n] = movement[n]
  BY <1>1, <1>2, <1>3, <1>5 DEF Inv, TypeOK
<1> QED BY <1>1, <1>2, <1>3, <1>4, <1>6, <1>7

\* aprobar inserts the adjustment and closes the count.
LEMMA ApprovedRow ==
    ASSUME Inv, NEW w \in Workers, CommitAprobar(w)
    PROVE  /\ op[w] = "aprobar" /\ at[w] = "post" /\ Finish(w)
           /\ target[w] \in Counts /\ fresh[w] \in Movements /\ ~Exists(fresh[w])
           /\ IsAdjustment(doc[w], target[w])
           /\ movement'[fresh[w]] = doc[w] /\ doc[w] # None /\ OnlyRow(fresh[w])
           /\ conteo'[target[w]] # None /\ conteo'[target[w]].estado = "ajustado"
           /\ \A c \in Counts \ {target[w]} : conteo'[c] = conteo[c]
<1>1. /\ op[w] = "aprobar" /\ at[w] = "post" /\ WorkerOK(w) /\ Finish(w)
      /\ movement' = [movement EXCEPT ![fresh[w]] = doc[w]]
      /\ conteo' = [conteo EXCEPT ![target[w]].estado = "ajustado",
                                  ![target[w]].ajuste = fresh[w]]
  BY DEF CommitAprobar, Posted, Inv
<1>2. PICK c, f : c = target[w] /\ f = fresh[w]
  OBVIOUS
<1>3. /\ c \in Counts /\ conteo[c] \in Conteo
      /\ f \in Movements /\ ~Exists(f)
  <2>1. c \in Counts /\ conteo[c] \in Conteo
    BY <1>1, <1>2, ConteoTarget DEF ConteoOps
  <2>2. f \in Movements /\ movement[f] = None
    BY <1>1, <1>2, NoneAssumption DEF WorkerOK, Target
  <2> QED BY <2>1, <2>2 DEF Exists
<1>4. IsAdjustment(doc[w], c) /\ doc[w] # None
  BY <1>1, <1>2, NullAssumption DEF WorkerOK, Document, IsAdjustment
<1>5. PICK r : r = [conteo[c] EXCEPT !.estado = "ajustado", !.ajuste = f]
  OBVIOUS
<1>6. r \in Conteo /\ r.estado = "ajustado" /\ r # None
  <2>1. f \in Movements \cup {None}
        /\ "ajustado" \in {"en_proceso", "finalizado", "ajustado", "anulado"}
    BY <1>3
  <2>2. r \in Conteo
    BY <1>3, <1>5, <2>1, ZenonT(60) DEF Conteo
  <2>3. r.estado = "ajustado"
    BY <1>3, <1>5, ZenonT(60) DEF Conteo
  <2> QED BY <2>2, <2>3, NullAssumption
<1>7. conteo' = [conteo EXCEPT ![c] = r]
  BY <1>1, <1>2, <1>3, <1>5 DEF Inv, TypeOK, Conteo
<1>8. /\ conteo'[c] = r /\ movement'[f] = doc[w] /\ OnlyRow(f)
      /\ \A x \in Counts \ {c} : conteo'[x] = conteo[x]
  BY <1>1, <1>2, <1>3, <1>7 DEF OnlyRow, Inv, TypeOK
<1> QED BY <1>1, <1>2, <1>3, <1>4, <1>6, <1>8

\* The writes of a count.
LEMMA CountRow ==
    ASSUME Inv, NEW w \in Workers, WritesCount(w)
    PROVE  /\ op[w] \in {"finalizar", "anular_conteo", "editar_conteo"}
           /\ Finish(w) /\ UNCHANGED <<stock, movement>>
           /\ target[w] \in Counts /\ conteo'[target[w]] # None
           /\ conteo'[target[w]].estado =
                IF op[w] = "editar_conteo" THEN conteo[target[w]].estado
                ELSE doc[w].estado
           /\ conteo[target[w]] # None
           /\ \A c \in Counts \ {target[w]} : conteo'[c] = conteo[c]
<1>1. op[w] \in {"finalizar", "anular_conteo", "editar_conteo"}
      /\ Finish(w) /\ UNCHANGED <<stock, movement>>
  BY DEF WritesCount, WriteEstadoConteo, WriteConteo
<1>2. PICK c : c = target[w]
  OBVIOUS
<1>3. c \in Counts /\ conteo[c] # None /\ conteo[c] \in Conteo
  BY <1>1, <1>2, ConteoTarget DEF ConteoOps
<1>4. \E r \in Conteo :
        /\ r.estado = IF op[w] = "editar_conteo" THEN conteo[c].estado ELSE doc[w].estado
        /\ conteo' = [conteo EXCEPT ![c] = r]
  <2>1. CASE WriteEstadoConteo(w)
    <3>1. PICK e : e = doc[w].estado
      OBVIOUS
    <3>2. op[w] \in {"finalizar", "anular_conteo"} /\ e \in {"finalizado", "anulado"}
      BY <2>1, <3>1 DEF WriteEstadoConteo, Inv, WorkerOK, Document
    <3>3. PICK r : r = [conteo[c] EXCEPT !.estado = e]
      OBVIOUS
    <3>4. r \in Conteo /\ r.estado = e
      BY <1>3, <3>2, <3>3, ZenonT(60) DEF Conteo
    <3>5. conteo' = [conteo EXCEPT ![c] = r]
      BY <1>2, <2>1, <3>1, <3>3 DEF WriteEstadoConteo
    <3> QED BY <3>1, <3>2, <3>4, <3>5
  <2>2. ASSUME NEW a \in Warehouses \cup {None}, NEW l \in CountLists \cup {None},
               WriteConteo(w, a, l)
        PROVE  \E r \in Conteo :
                 /\ r.estado = IF op[w] = "editar_conteo" THEN conteo[c].estado
                               ELSE doc[w].estado
                 /\ conteo' = [conteo EXCEPT ![c] = r]
    <3>1. PICK a1 \in Warehouses, l1 \in Seq(CountLine) :
            a1 = Or(a, conteo[c].almacen) /\ l1 = Or(l, conteo[c].lines)
      BY <1>3, InputAssumption DEF Or, Conteo
    <3>2. PICK r : r = [conteo[c] EXCEPT !.almacen = a1, !.lines = l1]
      OBVIOUS
    <3>3. r \in Conteo /\ r.estado = conteo[c].estado
      BY <1>3, <3>1, <3>2, ZenonT(60) DEF Conteo
    <3>4. conteo' = [conteo EXCEPT ![c].almacen = Or(a, @), ![c].lines = Or(l, @)]
      BY <1>2, <2>2 DEF WriteConteo
    <3>5. conteo' = [conteo EXCEPT ![c] =
                       [conteo[c] EXCEPT !.almacen = Or(a, conteo[c].almacen),
                                         !.lines = Or(l, conteo[c].lines)]]
      BY <1>3, <3>4 DEF Inv, TypeOK, Conteo
    <3>6. op[w] = "editar_conteo"
      BY <2>2 DEF WriteConteo
    <3> QED BY <3>1, <3>2, <3>3, <3>5, <3>6
  <2> QED BY <2>1, <2>2 DEF WritesCount
<1>5. PICK r \in Conteo :
        /\ r.estado = IF op[w] = "editar_conteo" THEN conteo[c].estado ELSE doc[w].estado
        /\ conteo' = [conteo EXCEPT ![c] = r]
  BY <1>4
<1>6. conteo'[c] = r /\ r # None /\ \A x \in Counts \ {c} : conteo'[x] = conteo[x]
  BY <1>3, <1>5, NullAssumption DEF Inv, TypeOK
<1> QED BY <1>1, <1>2, <1>3, <1>5, <1>6

LEMMA CreatedCount ==
    ASSUME Inv, NEW c \in Counts, NEW a \in Warehouses, NEW l \in CountLists,
           CreateConteo(c, a, l)
    PROVE  /\ conteo[c] = None /\ \A x \in Counts \ {c} : conteo'[x] = conteo[x]
           /\ UNCHANGED <<stock, movement, request, at, doc, next, seen, wrote>>
  BY DEF CreateConteo, Inv, TypeOK

\* How a movement that exists after a step came to be as it is.
LEMMA RowHistory ==
    ASSUME Inv, Next, NEW n \in Movements, movement'[n] # None
    PROVE  \/ /\ Exists(n) /\ movement'[n].maker = movement[n].maker
              /\ movement[n].maker # "client" =>
                   /\ movement'[n].header = movement[n].header
                   /\ movement'[n].lines = movement[n].lines
           \/ /\ ~Exists(n) /\ movement'[n].maker = "client"
              /\ movement'[n].estado = "borrador"
           \/ \E w \in Workers : /\ Compensates(w) \/ CommitAprobar(w)
                                 /\ n = fresh[w] /\ ~Exists(n) /\ movement'[n] = doc[w]
<1>1. CASE UNCHANGED movement
  BY <1>1 DEF Exists
<1>2. CASE Create
  <2>1. CASE \E c \in Counts, a \in Warehouses, l \in CountLists : CreateConteo(c, a, l)
    BY <1>1, <2>1 DEF CreateConteo
  <2>2. ASSUME NEW m \in Movements, NEW h \in Headers, NEW l \in LineLists,
               CreateMovement(m, h, l)
        PROVE  \/ Exists(n) /\ movement'[n] = movement[n]
               \/ /\ ~Exists(n) /\ movement'[n].maker = "client"
                  /\ movement'[n].estado = "borrador"
    BY <2>2, CreatedRow DEF OnlyRow, Exists
  <2> QED BY <1>2, <2>1, <2>2 DEF Create
<1>3. ASSUME NEW w \in Workers, WritesEstado(w) \/ WritesBody(w)
      PROVE  /\ Exists(n) /\ movement'[n].maker = movement[n].maker
             /\ movement[n].maker # "client" => movement'[n] = movement[n]
  BY <1>3, EstadoRow, BodyRow DEF OnlyRow, Exists
<1>4. ASSUME NEW w \in Workers, Compensates(w)
      PROVE  \/ /\ Exists(n) /\ movement'[n].maker = movement[n].maker
                /\ movement'[n].header = movement[n].header
                /\ movement'[n].lines = movement[n].lines
             \/ n = fresh[w] /\ ~Exists(n) /\ movement'[n] = doc[w]
  BY <1>4, CompensatedRow DEF Exists
<1>5. ASSUME NEW w \in Workers, CommitAprobar(w)
      PROVE  \/ Exists(n) /\ movement'[n] = movement[n]
             \/ n = fresh[w] /\ ~Exists(n) /\ movement'[n] = doc[w]
  BY <1>5, ApprovedRow DEF OnlyRow, Exists
<1>6. ASSUME NEW w \in Workers,
             BeginRequest(w) \/ Goes(w) \/ Rollback(w) \/ WritesCount(w)
      PROVE  UNCHANGED movement
  BY <1>6, BeginsApart, GoesApart, CountRow DEF Rollback, rows
<1>8. CASE \E w \in Workers : Compensates(w)
  BY <1>4, <1>8
<1>9. CASE \E w \in Workers : CommitAprobar(w)
  BY <1>5, <1>9
<1>10. CASE \E w \in Workers : WritesEstado(w) \/ WritesBody(w)
  BY <1>3, <1>10
<1> QED BY <1>1, <1>2, <1>6, <1>8, <1>9, <1>10, NextCases
-----------------------------------------------------------------------------
(***************************************************************************)
(* A count adjusts the stock once, if its approvals stay apart.            *)
(***************************************************************************)
\* The adjustments made for c.
AdjustmentsOf(c) ==
    {m \in Movements : /\ Exists(m) /\ movement[m].maker = "aprobar"
                       /\ movement[m].header.ref = c}

\* A count that was adjusted is closed, and nobody is about to reopen or to
\* approve it.
ClosedCounts ==
    \A c \in Counts : AdjustmentsOf(c) # {} =>
        /\ conteo[c] # None /\ conteo[c].estado \in {"ajustado", "anulado"}
        /\ \A w \in Workers : op[w] \in {"aprobar", "finalizar"} => target[w] # c

AnnulsCounts ==
    \A w \in Workers : op[w] = "anular_conteo" => doc[w].estado = "anulado"

AdjustInv == Inv /\ ClosedCounts /\ OneAdjustmentPerCount /\ AnnulsCounts

LEMMA AnnulsKept ==
    ASSUME Inv, AnnulsCounts, Next
    PROVE  AnnulsCounts'
<1> SUFFICES ASSUME NEW q \in Workers, op'[q] = "anular_conteo"
             PROVE  doc'[q].estado = "anulado"
  BY DEF AnnulsCounts
<1>1. CASE Create
  BY <1>1 DEF Create, CreateMovement, CreateConteo, request, AnnulsCounts
<1>2. ASSUME NEW w \in Workers, BeginRequest(w) \/ Step(w) \/ DeadlockVictim(w) \/ Fail(w)
      PROVE  doc'[q].estado = "anulado"
  <2>1. CASE SameRequest(q)
    BY <2>1 DEF SameRequest, AnnulsCounts
  <2>2. CASE BeginRequest(w) /\ q = w
    <3>1. PICK o, t, n, label : Begin(w, o, t, n, label)
                                /\ (o = "anular_conteo" => \E c \in Counts : BeginAnularConteo(w, c))
      BY <2>2 DEF BeginRequest, BeginAutorizar, BeginAnular, BeginProcesar, BeginEditar,
         BeginLinea, BeginEstornar, BeginFinalizar, BeginAnularConteo, BeginEditarConteo,
         BeginAprobar
    <3>2. o = "anular_conteo"
      BY <2>2, <3>1 DEF Begin, Inv, TypeOK
    <3>3. PICK c \in Counts : BeginAnularConteo(w, c)
      BY <3>1, <3>2
    <3>4. conteo[c] \in Conteo
      BY <3>3, ConteoRow DEF BeginAnularConteo, Editable, Readable
    <3>5. PICK r : r = [conteo[c] EXCEPT !.estado = "anulado"]
      OBVIOUS
    <3>6. r.estado = "anulado"
      BY <3>4, <3>5 DEF Conteo
    <3>7. doc'[w] = r
      BY <3>3, <3>5 DEF BeginAnularConteo, Inv, TypeOK
    <3> QED BY <2>2, <3>6, <3>7
  <2>3. CASE Finish(w) /\ q = w
    BY <2>3, Finishes
  <2>4. CASE Goes(w) /\ q = w
    <3>1. op[w] = "anular_conteo"
      BY <2>4, GoesApart DEF request
    <3>2. doc'[w] = doc[w]
      <4>1. WorkerOK(w)
        BY DEF Inv
      <4>2. ~Compensate(w) /\ ~ReadLines(w) /\ \A costed \in BOOLEAN : ~ReadSheet(w, costed)
        BY <3>1, <4>1 DEF WorkerOK, Labels, Compensate, ReadLines, ReadSheet
      <4>3. CASE WriteStock(w) /\ ~Rollback(w)
        BY <4>3 DEF WriteStock
      <4>4. CASE LockOriginal(w) /\ ~Rollback(w)
        BY <4>4 DEF LockOriginal
      <4> QED BY <2>4, <4>2, <4>3, <4>4 DEF Goes, SkipLine, ReadStock, WriteTotals
    <3> QED BY <2>4, <3>1, <3>2 DEF AnnulsCounts
  <2>5. OthersApart(w)
    BY <1>2, BeginsApart, GoesApart, StepCases, Finishes, EstadoRow, BodyRow, CountRow,
       CompensatedRow, ApprovedRow DEF DeadlockVictim, Fail, Rollback
  <2>6. BeginRequest(w) \/ Finish(w) \/ Goes(w)
    BY <1>2, StepCases, EstadoRow, BodyRow, CountRow, CompensatedRow, ApprovedRow
       DEF DeadlockVictim, Fail, Rollback
  <2> QED BY <2>1, <2>2, <2>3, <2>4, <2>5, <2>6 DEF OthersApart
<1> QED BY <1>1, <1>2 DEF Next

\* Only an approval makes adjustments.
LEMMA AdjustmentsKept ==
    ASSUME Inv, Next, NEW c \in Counts, NEW m \in AdjustmentsOf(c)'
    PROVE  \/ m \in AdjustmentsOf(c)
           \/ \E w \in Workers : CommitAprobar(w) /\ m = fresh[w] /\ target[w] = c
<1>1. m \in Movements /\ movement'[m] # None /\ movement'[m].maker = "aprobar"
      /\ movement'[m].header.ref = c
  BY DEF AdjustmentsOf, Exists
<1>2. ASSUME NEW w \in Workers, Compensates(w)
      PROVE  doc[w].maker = "estornar"
  BY <1>2, CompensatedRow DEF IsCompensation
<1>3. ASSUME NEW w \in Workers, CommitAprobar(w)
      PROVE  doc[w].header.ref = target[w]
  BY <1>3, ApprovedRow DEF IsAdjustment
<1> QED BY <1>1, <1>2, <1>3, RowHistory DEF AdjustmentsOf

\* A closed count that nobody is about to write otherwise stays closed.
LEMMA ClosedStays ==
    ASSUME Inv, AnnulsCounts, Next, NEW c \in Counts,
           conteo[c] # None, conteo[c].estado \in {"ajustado", "anulado"},
           \A w \in Workers : op[w] \in {"aprobar", "finalizar"} => target[w] # c
    PROVE  /\ conteo'[c] # None /\ conteo'[c].estado \in {"ajustado", "anulado"}
           /\ \A w \in Workers : op'[w] \in {"aprobar", "finalizar"} => target'[w] # c
<1>1. CASE Create
  <2>1. UNCHANGED <<op, target>> /\ conteo'[c] = conteo[c]
    BY <1>1, CreatedCount DEF Create, CreateMovement, request
  <2> QED BY <2>1
<1>2. ASSUME NEW w \in Workers, BeginRequest(w)
      PROVE  /\ conteo'[c] # None /\ conteo'[c].estado \in {"ajustado", "anulado"}
             /\ \A q \in Workers : op'[q] \in {"aprobar", "finalizar"} => target'[q] # c
  <2>1. OthersApart(w) /\ UNCHANGED conteo
    BY <1>2, BeginsApart DEF rows
  <2>2. op'[w] \in {"aprobar", "finalizar"} => target'[w] # c
    <3>1. PICK o, t, n, label :
            /\ Begin(w, o, t, n, label)
            /\ o \in {"aprobar", "finalizar"} =>
                 conteo[t].estado \in {"finalizado", "en_proceso"}
      BY <1>2 DEF BeginRequest, BeginAutorizar, BeginAnular, BeginProcesar, BeginEditar,
         BeginLinea, BeginEstornar, BeginFinalizar, BeginAnularConteo, BeginEditarConteo,
         BeginAprobar
    <3> QED BY <3>1 DEF Begin, Inv, TypeOK
  <2> QED BY <2>1, <2>2 DEF OthersApart, SameRequest
<1>3. ASSUME NEW w \in Workers, Step(w) \/ DeadlockVictim(w) \/ Fail(w)
      PROVE  /\ conteo'[c] # None /\ conteo'[c].estado \in {"ajustado", "anulado"}
             /\ \A q \in Workers : op'[q] \in {"aprobar", "finalizar"} => target'[q] # c
  <2>1. CASE Goes(w)
    <3>1. UNCHANGED <<conteo, op, target>>
      BY <2>1, GoesApart DEF rows, request
    <3> QED BY <3>1
  <2>2. CASE Finish(w)
    <3>1. OthersApart(w) /\ op'[w] = "none"
      BY <2>2, Finishes
    <3>2. conteo'[c] # None /\ conteo'[c].estado \in {"ajustado", "anulado"}
      <4>1. CASE WritesCount(w)
        BY <4>1, CountRow DEF AnnulsCounts
      <4>2. CASE CommitAprobar(w)
        BY <4>2, ApprovedRow
      <4>3. CASE UNCHANGED conteo
        BY <4>3
      <4> QED BY <1>3, <2>2, <4>1, <4>2, <4>3, StepCases, EstadoRow, BodyRow,
             CompensatedRow, GoesApart DEF DeadlockVictim, Fail, Rollback, rows
    <3> QED BY <3>1, <3>2 DEF OthersApart, SameRequest
  <2> QED BY <1>3, <2>1, <2>2, StepCases, EstadoRow, BodyRow, CountRow, CompensatedRow,
         ApprovedRow DEF DeadlockVictim, Fail, Rollback
<1> QED BY <1>1, <1>2, <1>3 DEF Next

LEMMA AdjustInvKept ==
    ASSUME AdjustInv, ApprovalsApart, Next
    PROVE  AdjustInv'
<1> USE DEF AdjustInv
<1>0. Inv' /\ AnnulsCounts'
  BY NextKeepsInv, AnnulsKept
<1>1. ASSUME NEW c \in Counts,
             ~\E w \in Workers : CommitAprobar(w) /\ target[w] = c
      PROVE  AdjustmentsOf(c)' \subseteq AdjustmentsOf(c)
  BY <1>1, AdjustmentsKept
\* An approval that commits is the first of its count.
<1>2. ASSUME NEW w \in Workers, CommitAprobar(w)
      PROVE  /\ AdjustmentsOf(target[w]) = {} /\ op[w] = "aprobar"
             /\ target[w] \in Counts
  BY <1>2, ApprovedRow DEF ClosedCounts
<1>3. OneAdjustmentPerCount'
  <2> SUFFICES ASSUME NEW c \in Counts, NEW m1 \in AdjustmentsOf(c)',
                      NEW m2 \in AdjustmentsOf(c)'
               PROVE  m1 = m2
    BY DEF OneAdjustmentPerCount, AdjustmentsOf
  <2>1. CASE \E w \in Workers : CommitAprobar(w) /\ target[w] = c
    <3>1. PICK w \in Workers : CommitAprobar(w) /\ target[w] = c
      BY <2>1
    <3>2. AdjustmentsOf(c) = {} /\ op[w] = "aprobar"
      BY <1>2, <3>1
    <3>3. \A q \in Workers : CommitAprobar(q) /\ target[q] = c => q = w
      BY <1>2, <3>1 DEF ApprovalsApart
    <3>4. m1 = fresh[w] /\ m2 = fresh[w]
      BY <3>2, <3>3, AdjustmentsKept
    <3> QED BY <3>4
  <2>2. CASE ~\E w \in Workers : CommitAprobar(w) /\ target[w] = c
    BY <1>1, <2>2 DEF OneAdjustmentPerCount, AdjustmentsOf
  <2> QED BY <2>1, <2>2
<1>4. ClosedCounts'
  <2> SUFFICES ASSUME NEW c \in Counts, AdjustmentsOf(c)' # {}
               PROVE  /\ conteo'[c] # None /\ conteo'[c].estado \in {"ajustado", "anulado"}
                      /\ \A w \in Workers : op'[w] \in {"aprobar", "finalizar"}
                                           => target'[w] # c
    BY DEF ClosedCounts
  <2>1. CASE \E w \in Workers : CommitAprobar(w) /\ target[w] = c
    <3>1. PICK w \in Workers : CommitAprobar(w) /\ target[w] = c
      BY <2>1
    <3>2. Finish(w) /\ conteo'[c] # None /\ conteo'[c].estado = "ajustado"
      BY <3>1, ApprovedRow
    <3>3. OthersApart(w) /\ op'[w] = "none"
      BY <3>2, Finishes
    <3>4. \A q \in Workers \ {w} : op[q] \in {"aprobar", "finalizar"} => target[q] # c
      BY <1>2, <3>1 DEF ApprovalsApart
    <3> QED BY <3>2, <3>3, <3>4 DEF OthersApart, SameRequest
  <2>2. CASE ~\E w \in Workers : CommitAprobar(w) /\ target[w] = c
    <3>1. AdjustmentsOf(c) # {}
      BY <1>1, <2>2
    <3> QED BY <3>1, ClosedStays DEF ClosedCounts
  <2> QED BY <2>1, <2>2
<1> QED BY <1>0, <1>3, <1>4

\* A count adjusts the stock once: whoever approves it closes it, and nobody
\* who could open it again is under way, if approvals of a count meet no
\* other approval of it and no finalizar that had read it before.
THEOREM OneAdjustmentWhenApart ==
    Spec /\ []ApprovalsApart => []OneAdjustmentPerCount
<1>1. Init => AdjustInv
  <2> SUFFICES ASSUME Init PROVE AdjustInv
    OBVIOUS
  <2>1. Inv
    BY InitInv
  <2> QED BY <2>1 DEF AdjustInv, Init, ClosedCounts, OneAdjustmentPerCount, AnnulsCounts,
         AdjustmentsOf, Exists
<1>2. AdjustInv /\ ApprovalsApart /\ [Next]_vars => AdjustInv'
  <2> SUFFICES ASSUME AdjustInv, ApprovalsApart, [Next]_vars PROVE AdjustInv'
    OBVIOUS
  <2>1. CASE UNCHANGED vars
    <3>1. UNCHANGED <<movement, conteo, op, target, doc>>
      BY <2>1 DEF vars, rows, request
    <3>2. Inv'
      BY NextKeepsInv DEF AdjustInv
    <3> QED BY <3>1, <3>2 DEF AdjustInv, ClosedCounts, OneAdjustmentPerCount, AnnulsCounts,
           AdjustmentsOf, Exists
  <2> QED BY <2>1, AdjustInvKept
<1>3. AdjustInv => OneAdjustmentPerCount
  BY DEF AdjustInv
<1> QED BY <1>1, <1>2, <1>3, PTL DEF Spec
-----------------------------------------------------------------------------
(***************************************************************************)
(* What a movement adds, posting by posting.                               *)
(***************************************************************************)
\* A set of naturals has a least element.
LEMMA LeastNatural ==
    ASSUME NEW T, T \subseteq Nat, T # {}
    PROVE  \E n \in T : \A m \in T : n <= m
<1> DEFINE Below(n) == 0..(n - 1)
           U == {Below(n) : n \in T}
           R == StrictSubsetOrdering(Nat)
<1>1. U # {} /\ U \subseteq FiniteSubsetsOf(Nat)
  <2>1. \A n \in T : Below(n) \in SUBSET Nat /\ IsFiniteSet(Below(n))
    BY FS_Interval
  <2> QED BY <2>1 DEF FiniteSubsetsOf
<1>2. PICK x \in U : \A y \in U : <<y, x>> \notin R
  <2> HIDE DEF U, R
  <2>1. IsWellFoundedOn(R, FiniteSubsetsOf(Nat))
    BY FS_StrictSubsetOrderingWellFounded DEF R
  <2> QED BY <1>1, <2>1, WFMin
<1>3. PICK n \in T : x = Below(n)
  OBVIOUS
<1>4. ASSUME NEW m \in T PROVE n <= m
  <2>1. n \in Nat /\ m \in Nat
    OBVIOUS
  <2>2. <<Below(m), Below(n)>> \notin R
    BY <1>2, <1>3
  <2> SUFFICES ASSUME m < n PROVE FALSE
    BY <2>1
  <2>3. Below(m) \subseteq Below(n)
    BY <2>1
  <2>4. m \in Below(n) /\ m \notin Below(m)
    BY <2>1
  <2>5. Below(m) \in SUBSET Nat /\ Below(n) \in SUBSET Nat
    BY <2>1
  <2> QED BY <2>2, <2>3, <2>4, <2>5 DEF StrictSubsetOrdering
<1> QED BY <1>4

LEMMA Postings ==
    ASSUME NEW d \in Movement
    PROVE  PostingCount(d) \in Nat /\ Legs(d) \in {1, 2} /\ Len(d.lines) \in Nat
<1>1. Len(d.lines) \in Nat
  <2>1. d.lines \in Seq(Line)
    BY Lines
  <2> QED BY <2>1
<1>2. Legs(d) \in {1, 2}
  BY DEF Legs
<1>3. PostingCount(d) \in {Len(d.lines) * 1, Len(d.lines) * 2}
  BY <1>2 DEF PostingCount
<1> QED BY <1>1, <1>2, <1>3

LEMMA AddsTyped ==
    ASSUME NEW d \in Movement, NEW c, NEW k \in 1..PostingCount(d)
    PROVE  Adds(d, c, k) \in Int
<1>1. LineOf(d, k) \in Line
  BY LineTyped, Postings
<1> QED BY <1>1 DEF Adds, DeltaOf, Line

\* The sums of a sequence of numbers exist.
LEMMA SumsExist ==
    ASSUME NEW N \in Nat, NEW D
    PROVE  \E g : g = [k \in 0..N |-> IF k = 0 THEN 0 ELSE g[k - 1] + D[k]]
<1> DEFINE Sums(g, n) == g = [k \in 0..n |-> IF k = 0 THEN 0 ELSE g[k - 1] + D[k]]
           T == {n \in Nat : ~\E g : Sums(g, n)}
<1> SUFFICES ASSUME T # {} PROVE FALSE
  OBVIOUS
<1>1. PICK n \in T : \A m \in T : n <= m
  BY LeastNatural
<1>2. n # 0
  <2>1. Sums([k \in 0..0 |-> 0], 0)
    OBVIOUS
  <2> QED BY <2>1
<1>3. n \in Nat /\ n - 1 \in Nat /\ n - 1 \notin T
  BY <1>1, <1>2
<1>4. PICK g : Sums(g, n - 1)
  BY <1>3
<1> DEFINE h == [k \in 0..n |-> IF k = n THEN g[n - 1] + D[n] ELSE g[k]]
<1>5. ASSUME NEW k \in 0..n
      PROVE  h[k] = IF k = 0 THEN 0 ELSE h[k - 1] + D[k]
  <2>1. CASE k = 0
    BY <1>2, <1>3, <1>4, <2>1
  <2>2. CASE k = n
    BY <1>2, <1>3, <2>2
  <2>3. CASE k \in 1..(n - 1)
    <3>1. k \in 0..(n - 1) /\ k # 0 /\ k # n /\ k - 1 # n /\ k - 1 \in 0..n
      BY <2>3, <1>3
    <3>2. g[k] = g[k - 1] + D[k]
      BY <1>4, <3>1
    <3> QED BY <3>1, <3>2
  <2> QED BY <2>1, <2>2, <2>3, <1>3
<1>6. Sums(h, n)
  BY <1>5
<1> QED BY <1>6

\* The equation that defines Running has a solution.
LEMMA RunningEquation ==
    ASSUME NEW d \in Movement, NEW c
    PROVE  Running(d, c) = [k \in 0..PostingCount(d) |->
                              IF k = 0 THEN 0 ELSE Running(d, c)[k - 1] + Adds(d, c, k)]
<1> DEFINE N == PostingCount(d)
           D == [k \in 1..N |-> Adds(d, c, k)]
           Sums(g) == g = [k \in 0..N |-> IF k = 0 THEN 0 ELSE g[k - 1] + Adds(d, c, k)]
<1>1. \E g : Sums(g)
  <2>1. N \in Nat
    BY Postings
  <2>2. PICK g : g = [k \in 0..N |-> IF k = 0 THEN 0 ELSE g[k - 1] + D[k]]
    <3> HIDE DEF N, D
    <3> QED BY <2>1, SumsExist
  <2>3. Sums(g)
    <3> HIDE DEF N
    <3> QED BY <2>1, <2>2
  <2> QED BY <2>3
<1>2. Running(d, c) = CHOOSE g : Sums(g)
  BY DEF Running
<1>3. Sums(Running(d, c))
  BY <1>1, <1>2
<1> QED BY <1>3

LEMMA RunningSteps ==
    ASSUME NEW d \in Movement, NEW c
    PROVE  /\ Running(d, c)[0] = 0
           /\ \A k \in 1..PostingCount(d) :
                Running(d, c)[k] = Running(d, c)[k - 1] + Adds(d, c, k)
<1>1. PostingCount(d) \in Nat
  BY Postings
<1>2. PICK f : f = Running(d, c)
  OBVIOUS
<1>3. f = [k \in 0..PostingCount(d) |->
             IF k = 0 THEN 0 ELSE f[k - 1] + Adds(d, c, k)]
  BY <1>2, RunningEquation
<1>4. f[0] = 0 /\ \A k \in 1..PostingCount(d) : f[k] = f[k - 1] + Adds(d, c, k)
  BY <1>1, <1>3
<1> QED BY <1>2, <1>4

LEMMA RunningTyped ==
    ASSUME NEW d \in Movement, NEW c
    PROVE  \A k \in 0..PostingCount(d) : Running(d, c)[k] \in Int
<1> DEFINE T == {n \in Nat : n <= PostingCount(d) /\ Running(d, c)[n] \notin Int}
<1> SUFFICES ASSUME T # {} PROVE FALSE
  BY Postings
<1>1. PICK n \in T : \A m \in T : n <= m
  BY LeastNatural
<1>2. n # 0
  BY RunningSteps
<1>3. n \in 1..PostingCount(d) /\ n - 1 \in Nat /\ n - 1 \notin T
  BY <1>1, <1>2, Postings
<1>4. Running(d, c)[n - 1] \in Int
  BY <1>3, Postings
<1>5. Running(d, c)[n] \in Int
  BY <1>3, <1>4, RunningSteps, AddsTyped
<1> QED BY <1>5

LEMMA EffectTyped ==
    ASSUME NEW d \in Movement, NEW c
    PROVE  Effect(d, c) \in Int
BY RunningTyped, Postings DEF Effect

-----------------------------------------------------------------------------
(***************************************************************************)
(* The compensation of a movement takes back what the movement adds.       *)
(***************************************************************************)
LEMMA MirrorLines ==
    ASSUME NEW m \in Movements, NEW d \in Movement, NEW x, x = Compensatorio(m, d)
    PROVE  /\ x \in Movement /\ x.header.clase = d.header.clase
           /\ x.header.origen = MirrorOrigen(d.header)
           /\ x.header.destino = MirrorDestino(d.header)
           /\ Len(x.lines) = Len(d.lines) /\ PostingCount(x) = PostingCount(d)
           /\ \A i \in 1..Len(d.lines) :
                /\ x.lines[i].product = d.lines[i].product
                /\ x.lines[i].qty = IF d.header.clase = "transferencia"
                                    THEN d.lines[i].qty ELSE - d.lines[i].qty
<1>1. x \in Movement
  BY NegatedLines
<1>2. d.header \in Header /\ d.lines \in Seq(Line)
  BY Lines
<1>3. x.header.clase = d.header.clase /\ x.header.origen = MirrorOrigen(d.header)
      /\ x.header.destino = MirrorDestino(d.header)
  BY <1>2 DEF Compensatorio, Header
<1>4. x.lines = [k \in 1..Len(d.lines) |->
                   [d.lines[k] EXCEPT !.qty =
                     IF d.header.clase = "transferencia" THEN @ ELSE - @]]
  BY DEF Compensatorio
<1>5. Len(x.lines) = Len(d.lines)
  <2>1. DOMAIN x.lines = 1..Len(d.lines) /\ Len(d.lines) \in Nat
    BY <1>2, <1>4
  <2>2. x.lines \in Seq(Line)
    BY <1>1, Lines
  <2> QED BY <2>1, <2>2
<1>6. ASSUME NEW i \in 1..Len(d.lines)
      PROVE  /\ x.lines[i].product = d.lines[i].product
             /\ x.lines[i].qty = IF d.header.clase = "transferencia"
                                 THEN d.lines[i].qty ELSE - d.lines[i].qty
  <2>1. PICK q : q = IF d.header.clase = "transferencia" THEN d.lines[i].qty
                     ELSE - d.lines[i].qty
    OBVIOUS
  <2>2. x.lines[i] = [d.lines[i] EXCEPT !.qty = q]
    BY <1>4, <2>1
  <2>3. d.lines[i] \in Line
    BY <1>2
  <2> QED BY <2>1, <2>2, <2>3 DEF Line
<1> QED BY <1>1, <1>3, <1>5, <1>6 DEF PostingCount, Legs

\* Other kinds than transfers: posting by posting.
LEMMA MirrorPosting ==
    ASSUME NEW m \in Movements, NEW d \in Movement, NEW x, x = Compensatorio(m, d),
           d.header.clase # "transferencia", NEW c, NEW k \in 1..PostingCount(d)
    PROVE  Adds(x, c, k) = - Adds(d, c, k)
<1>1. PostingCount(d) = Len(d.lines) /\ Len(d.lines) \in Nat
  BY Postings DEF PostingCount, Legs
<1>2. LineOf(d, k) = d.lines[k] /\ LineOf(x, k) = x.lines[k]
  <2>1. ((k - 1) \div 1) + 1 = k
    BY <1>1
  <2> QED BY <2>1, MirrorLines DEF LineOf, Legs
<1>3. /\ LineOf(x, k).product = LineOf(d, k).product
      /\ LineOf(x, k).qty = - LineOf(d, k).qty
      /\ LineOf(d, k).qty \in Int
  <2>1. d.lines[k] \in Line
    BY <1>1, Lines
  <2>2. /\ x.lines[k].product = d.lines[k].product
        /\ x.lines[k].qty = - d.lines[k].qty
    BY <1>1, MirrorLines
  <2> QED BY <1>2, <2>1, <2>2 DEF Line
<1>4. d.header \in Header
  BY Lines
<1>5. Outgoing(x, k) <=> Outgoing(d, k)
  BY MirrorLines DEF Outgoing
<1>6. WarehouseOf(x, k) = WarehouseOf(d, k)
  <2>1. d.header.clase \in {"entrada", "salida", "ajuste"}
    BY <1>4 DEF Header
  <2> QED BY <2>1, MirrorLines DEF WarehouseOf, Outgoing, MirrorOrigen, MirrorDestino
<1>7. CellOf(x, k) = CellOf(d, k)
  BY <1>3, <1>6 DEF CellOf
<1>8. DeltaOf(x, k) = - DeltaOf(d, k)
  BY <1>3, <1>5 DEF DeltaOf
<1> QED BY <1>3, <1>7, <1>8 DEF Adds

\* A transfer: the two postings of a line change places.
LEMMA MirrorTransfer ==
    ASSUME NEW m \in Movements, NEW d \in Movement, NEW x, x = Compensatorio(m, d),
           d.header.clase = "transferencia", NEW c, NEW k \in 1..PostingCount(d),
           k % 2 = 0
    PROVE  /\ k - 1 \in 1..PostingCount(d)
           /\ Adds(x, c, k) = - Adds(d, c, k - 1)
           /\ Adds(x, c, k - 1) = - Adds(d, c, k)
<1>1. PostingCount(d) = Len(d.lines) * 2 /\ Len(d.lines) \in Nat
  BY Postings DEF PostingCount, Legs
<1>2. PICK i \in Nat : k = 2 * i
  BY <1>1
<1>3. i \in 1..Len(d.lines) /\ k - 1 \in 1..PostingCount(d) /\ (k - 1) % 2 = 1
      /\ ((k - 1) \div 2) + 1 = i /\ (((k - 1) - 1) \div 2) + 1 = i
  BY <1>1, <1>2
<1>4. /\ LineOf(d, k) = d.lines[i] /\ LineOf(x, k) = x.lines[i]
      /\ LineOf(d, k - 1) = d.lines[i] /\ LineOf(x, k - 1) = x.lines[i]
  BY <1>3, MirrorLines DEF LineOf, Legs
<1>5. /\ x.lines[i].product = d.lines[i].product /\ x.lines[i].qty = d.lines[i].qty
      /\ d.lines[i].qty \in Int
  <2>1. d.lines[i] \in Line
    <3>1. d.lines \in Seq(Line) /\ i \in 1..Len(d.lines)
      BY <1>3, Lines
    <3> QED BY <3>1
  <2>2. i \in 1..Len(d.lines)
    BY <1>3
  <2>3. x.lines[i].product = d.lines[i].product /\ x.lines[i].qty = d.lines[i].qty
    BY <2>2, MirrorLines
  <2> QED BY <2>1, <2>3 DEF Line
<1>6. /\ ~Outgoing(d, k) /\ ~Outgoing(x, k)
      /\ Outgoing(d, k - 1) /\ Outgoing(x, k - 1)
  BY <1>3, MirrorLines DEF Outgoing
<1>7. WarehouseOf(x, k) = WarehouseOf(d, k - 1)
      /\ WarehouseOf(x, k - 1) = WarehouseOf(d, k)
  BY <1>6, MirrorLines DEF WarehouseOf, MirrorOrigen, MirrorDestino
<1>8. CellOf(x, k) = CellOf(d, k - 1) /\ CellOf(x, k - 1) = CellOf(d, k)
  BY <1>4, <1>5, <1>7 DEF CellOf
<1>9. /\ DeltaOf(x, k) = - DeltaOf(d, k - 1) /\ DeltaOf(x, k - 1) = - DeltaOf(d, k)
      /\ LineOf(x, k).qty = LineOf(d, k - 1).qty /\ LineOf(x, k - 1).qty = LineOf(d, k).qty
  BY <1>4, <1>5, <1>6 DEF DeltaOf
<1> QED BY <1>3, <1>8, <1>9 DEF Adds

LEMMA MirrorEffect ==
    ASSUME NEW m \in Movements, NEW d \in Movement, NEW x, x = Compensatorio(m, d), NEW c
    PROVE  Effect(x, c) = - Effect(d, c)
<1> DEFINE N == PostingCount(d)
           R(k) == Running(d, c)[k]
           X(k) == Running(x, c)[k]
<1>1. x \in Movement /\ PostingCount(x) = N /\ N \in Nat
  BY MirrorLines, Postings
<1>2. /\ R(0) = 0 /\ X(0) = 0
      /\ \A k \in 1..N : R(k) = R(k - 1) + Adds(d, c, k)
                         /\ X(k) = X(k - 1) + Adds(x, c, k)
                         /\ Adds(d, c, k) \in Int /\ Adds(x, c, k) \in Int
      /\ \A k \in 0..N : R(k) \in Int /\ X(k) \in Int
  BY <1>1, RunningSteps, RunningTyped, AddsTyped
<1> HIDE DEF R, X
<1>3. CASE d.header.clase # "transferencia"
  <2> DEFINE T == {n \in Nat : n <= N /\ X(n) # - R(n)}
  <2>1. ASSUME T # {} PROVE FALSE
    <3>1. PICK n \in T : \A k \in T : n <= k
      BY <2>1, LeastNatural
    <3>2. n # 0
      BY <1>2
    <3>3. n \in 1..N /\ n - 1 \in 0..N /\ n - 1 \notin T
      BY <1>1, <3>1, <3>2
    <3>4. X(n - 1) = - R(n - 1)
      BY <3>3
    <3>5. Adds(x, c, n) = - Adds(d, c, n)
      BY <1>3, <3>3, MirrorPosting
    <3> QED BY <1>2, <3>3, <3>4, <3>5
  <2>2. X(N) = - R(N)
    BY <1>1, <2>1
  <2> QED BY <1>1, <2>2 DEF Effect, R, X
<1>4. CASE d.header.clase = "transferencia"
  <2> DEFINE T == {n \in Nat : n <= N /\ n % 2 = 0 /\ X(n) # - R(n)}
  <2>1. ASSUME T # {} PROVE FALSE
    <3>1. PICK n \in T : \A k \in T : n <= k
      BY <2>1, LeastNatural
    <3>2. n # 0
      BY <1>2
    <3>3. n \in 1..N /\ n - 2 \in 0..N /\ n - 2 \notin T /\ n % 2 = 0 /\ (n - 2) % 2 = 0
          /\ n - 1 \in 1..N /\ (n - 1) - 1 = n - 2
      BY <1>1, <3>1, <3>2
    <3>4. X(n - 2) = - R(n - 2)
      BY <3>3
    <3>5. /\ Adds(x, c, n) = - Adds(d, c, n - 1)
          /\ Adds(x, c, n - 1) = - Adds(d, c, n)
      BY <1>4, <3>3, MirrorTransfer
    <3>6. X(n) = X(n - 2) + Adds(x, c, n - 1) + Adds(x, c, n)
          /\ R(n) = R(n - 2) + Adds(d, c, n - 1) + Adds(d, c, n)
      BY <1>2, <3>3
    <3> QED BY <1>2, <3>3, <3>4, <3>5, <3>6
  <2>2. N % 2 = 0
    <3>1. PICK l \in Nat : N = l * 2
      BY <1>4, Postings DEF PostingCount, Legs
    <3> QED BY <3>1
  <2>3. X(N) = - R(N)
    BY <1>1, <2>1, <2>2
  <2> QED BY <1>1, <2>3 DEF Effect, R, X
<1> QED BY <1>3, <1>4
-----------------------------------------------------------------------------
(***************************************************************************)
(* An estorno takes back what was posted, if postings and edits stay apart.*)
(***************************************************************************)
\* A movement that was posted, or compensated, has left borrador for good and
\* no edit of it is under way.
Frozen(m) == IsPosted(m) \/ CompensationsOf(m) # {}
FrozenRows ==
    \A m \in Movements : Frozen(m) =>
        /\ Exists(m) /\ movement[m].estado # "borrador"
        /\ \A w \in Workers : op[w] \in {"editar", "linea"} => target[w] # m

\* d says what the compensation of m has to say.
Compensation(d, m) ==
    /\ d.header = Compensatorio(m, movement[m]).header
    /\ d.lines = Compensatorio(m, movement[m]).lines

\* A locked original is posted, and what is posted against it is its mirror.
Reversing(w) ==
    op[w] = "estornar" /\ at[w] # "lock" =>
        /\ movement[target[w]].estado = "procesado"
        /\ at[w] \in {"post", "store"} => Compensation(doc[w], target[w])

Mirrored == \A m \in Movements : \A n \in CompensationsOf(m) : Compensation(movement[n], m)

MirrorInv == Inv /\ FrozenRows /\ (\A w \in Workers : Reversing(w)) /\ Mirrored

\* The compensations of a step: those before it, and that of an estorno.
LEMMA CompensationsKept ==
    ASSUME Inv, Next, NEW m \in Movements, NEW n \in CompensationsOf(m)'
    PROVE  \/ /\ n \in CompensationsOf(m) /\ movement'[n].header = movement[n].header
              /\ movement'[n].lines = movement[n].lines
           \/ \E w \in Workers : /\ Compensates(w) /\ n = fresh[w] /\ target[w] = m
                                 /\ movement'[n] = doc[w]
<1>1. n \in Movements /\ movement'[n] # None /\ movement'[n].maker = "estornar"
      /\ movement'[n].header.ref = m
  BY DEF CompensationsOf, Exists
<1>2. ASSUME NEW w \in Workers, Compensates(w)
      PROVE  doc[w].header.ref = target[w]
  BY <1>2, CompensatedRow DEF IsCompensation
<1>3. ASSUME NEW w \in Workers, CommitAprobar(w)
      PROVE  doc[w].maker = "aprobar"
  BY <1>3, ApprovedRow DEF IsAdjustment
<1> QED BY <1>1, <1>2, <1>3, RowHistory DEF CompensationsOf

\* What a step may do to a frozen movement.
LEMMA FrozenBody ==
    ASSUME MirrorInv, Next, NEW m \in Movements, Frozen(m)
    PROVE  /\ movement'[m] # None /\ movement'[m].estado # "borrador"
           /\ movement'[m].header = movement[m].header
           /\ movement'[m].lines = movement[m].lines
<1> USE DEF MirrorInv
<1>0. Exists(m) /\ movement[m].estado # "borrador"
      /\ \A w \in Workers : op[w] \in {"editar", "linea"} => target[w] # m
  BY DEF FrozenRows
<1>1. CASE UNCHANGED movement
  BY <1>0, <1>1 DEF Exists
<1>2. CASE Create
  <2>1. movement'[m] = movement[m]
    BY <1>0, <1>2, CreatedRow, CreatedCount DEF Create, OnlyRow
  <2> QED BY <1>0, <2>1 DEF Exists
<1>3. CASE \E w \in Workers : WritesEstado(w)
  <2>1. PICK w \in Workers : WritesEstado(w)
    BY <1>3
  <2>2. CASE m = target[w]
    BY <1>0, <2>1, <2>2, EstadoRow
  <2>3. CASE m # target[w]
    BY <1>0, <2>1, <2>3, EstadoRow DEF OnlyRow, Exists
  <2> QED BY <2>2, <2>3
<1>4. CASE \E w \in Workers : WritesBody(w)
  BY <1>0, <1>4, BodyRow DEF OnlyRow, Exists
<1>5. CASE \E w \in Workers : Compensates(w)
  <2>1. PICK w \in Workers : Compensates(w)
    BY <1>5
  <2>2. CASE m = target[w]
    BY <1>0, <2>1, <2>2, CompensatedRow
  <2>3. CASE m # target[w]
    BY <1>0, <2>1, <2>3, CompensatedRow DEF Exists
  <2> QED BY <2>2, <2>3
<1>6. CASE \E w \in Workers : CommitAprobar(w)
  BY <1>0, <1>6, ApprovedRow DEF OnlyRow, Exists
<1>7. ASSUME NEW w \in Workers,
             BeginRequest(w) \/ Goes(w) \/ Rollback(w) \/ WritesCount(w)
      PROVE  UNCHANGED movement
  BY <1>7, BeginsApart, GoesApart, CountRow DEF Rollback, rows
<1> QED BY <1>1, <1>2, <1>3, <1>4, <1>5, <1>6, <1>7, NextCases

\* A movement becomes posted when it is processed, or inserted as posted.
LEMMA Posts ==
    ASSUME Inv, Next, NEW m \in Movements, IsPosted(m)'
    PROVE  \/ IsPosted(m)
           \/ \E w \in Workers : \/ CommitProcesar(w) /\ m = target[w]
                                 \/ Compensates(w) /\ m = fresh[w]
                                 \/ CommitAprobar(w) /\ m = fresh[w]
<1> USE DEF IsPosted, Exists
<1>0. movement'[m] # None /\ movement'[m].estado \in {"procesado", "estornado"}
  OBVIOUS
<1>1. CASE UNCHANGED movement
  BY <1>0, <1>1
<1>2. CASE Create
  <2>1. movement'[m] = movement[m] \/ movement'[m].estado = "borrador"
    BY <1>2, CreatedRow, CreatedCount DEF Create, OnlyRow
  <2> QED BY <1>0, <2>1
<1>3. CASE \E w \in Workers : WritesEstado(w)
  <2>1. PICK w \in Workers : WritesEstado(w)
    BY <1>3
  <2>2. CASE m = target[w]
    <3>1. op[w] = "procesar"
      BY <1>0, <2>1, <2>2, EstadoRow
    <3>2. CommitProcesar(w)
      BY <2>1, <3>1 DEF WritesEstado, WriteEstado
    <3> QED BY <2>2, <3>2
  <2>3. CASE m # target[w]
    BY <1>0, <2>1, <2>3, EstadoRow DEF OnlyRow
  <2> QED BY <2>2, <2>3
<1>4. CASE \E w \in Workers : WritesBody(w)
  BY <1>0, <1>4, BodyRow DEF OnlyRow
<1>5. CASE \E w \in Workers : Compensates(w)
  BY <1>0, <1>5, CompensatedRow
<1>6. CASE \E w \in Workers : CommitAprobar(w)
  BY <1>0, <1>6, ApprovedRow DEF OnlyRow
<1>7. ASSUME NEW w \in Workers,
             BeginRequest(w) \/ Goes(w) \/ Rollback(w) \/ WritesCount(w)
      PROVE  UNCHANGED movement
  BY <1>7, BeginsApart, GoesApart, CountRow DEF Rollback, rows
<1> QED BY <1>1, <1>2, <1>3, <1>4, <1>5, <1>6, <1>7, NextCases

\* A movement becomes frozen when it becomes posted.
LEMMA Freezes ==
    ASSUME Inv, Next, NEW m \in Movements, Frozen(m)'
    PROVE  \/ Frozen(m)
           \/ \E w \in Workers : \/ CommitProcesar(w) /\ m = target[w]
                                 \/ Compensates(w) /\ m \in {target[w], fresh[w]}
                                 \/ CommitAprobar(w) /\ m = fresh[w]
<1>1. CASE CompensationsOf(m)' # {}
  <2>1. PICK n \in CompensationsOf(m)' : TRUE
    BY <1>1
  <2> QED BY <2>1, CompensationsKept DEF Frozen
<1>2. CASE IsPosted(m)'
  BY <1>2, Posts DEF Frozen
<1> QED BY <1>1, <1>2 DEF Frozen

Writers == {"procesar", "autorizar", "anular", "editar", "linea"}

\* Who is about to write a movement after a step was so before, unless the
\* movement is one such a request may begin with.
LEMMA WritersBefore ==
    ASSUME Inv, Next, NEW q \in Workers, op'[q] \in Writers
    PROVE  \/ op[q] = op'[q] /\ target[q] = target'[q]
           \/ /\ UNCHANGED movement /\ Open(target'[q])
              /\ op'[q] \in {"editar", "linea"} => Borrador(target'[q])
<1> USE DEF Writers
<1>1. CASE Create
  BY <1>1 DEF Create, CreateMovement, CreateConteo, request
<1>2. ASSUME NEW w \in Workers, BeginRequest(w)
      PROVE  \/ op[q] = op'[q] /\ target[q] = target'[q]
             \/ /\ UNCHANGED movement /\ Open(target'[q])
                /\ op'[q] \in {"editar", "linea"} => Borrador(target'[q])
  <2>1. OthersApart(w) /\ UNCHANGED movement
    BY <1>2, BeginsApart DEF rows
  <2>2. CASE q = w
    <3>1. PICK o, t, n, label :
            /\ Begin(w, o, t, n, label)
            /\ o \in Writers => Open(t)
            /\ o \in {"editar", "linea"} => Borrador(t)
      BY <1>2 DEF BeginRequest, BeginAutorizar, BeginAnular, BeginProcesar, BeginEditar,
         BeginLinea, BeginEstornar, BeginFinalizar, BeginAnularConteo, BeginEditarConteo,
         BeginAprobar, Borrador, Open, Postable
    <3> QED BY <2>1, <2>2, <3>1 DEF Begin, Inv, TypeOK
  <2> QED BY <2>1, <2>2 DEF OthersApart, SameRequest
<1>3. ASSUME NEW w \in Workers, Finish(w)
      PROVE  op[q] = op'[q] /\ target[q] = target'[q]
  BY <1>3, Finishes DEF OthersApart, SameRequest
<1>4. ASSUME NEW w \in Workers, Goes(w)
      PROVE  op[q] = op'[q] /\ target[q] = target'[q]
  BY <1>4, GoesApart DEF request
<1>5. ASSUME NEW w \in Workers, Step(w) \/ DeadlockVictim(w) \/ Fail(w)
      PROVE  Finish(w) \/ Goes(w)
  BY <1>5, StepCases, EstadoRow, BodyRow, CountRow, CompensatedRow, ApprovedRow
     DEF DeadlockVictim, Fail, Rollback
<1> QED BY <1>1, <1>2, <1>3, <1>4, <1>5 DEF Next

LEMMA FrozenKept ==
    ASSUME MirrorInv, EditsApart, Next
    PROVE  FrozenRows'
<1> USE DEF MirrorInv
<1> SUFFICES ASSUME NEW m \in Movements, Frozen(m)'
             PROVE  /\ movement'[m] # None /\ movement'[m].estado # "borrador"
                    /\ \A q \in Workers : op'[q] \in {"editar", "linea"} => target'[q] # m
  BY DEF FrozenRows, Exists
<1>1. CASE Frozen(m)
  <2>1. movement[m].estado # "borrador"
        /\ \A w \in Workers : op[w] \in {"editar", "linea"} => target[w] # m
    BY <1>1 DEF FrozenRows
  <2> QED BY <1>1, <2>1, FrozenBody, WritersBefore DEF Borrador, Writers
<1>2. ASSUME NEW w \in Workers, CommitProcesar(w), m = target[w]
      PROVE  /\ movement'[m] # None /\ movement'[m].estado = "procesado"
             /\ ~UNCHANGED movement \/ ~Borrador(m)
             /\ \A q \in Workers : op[q] \in {"editar", "linea"} => target[q] # m
  <2>1. WritesEstado(w) /\ op[w] = "procesar"
    BY <1>2 DEF WritesEstado, CommitProcesar
  <2> QED BY <1>2, <2>1, EstadoRow DEF EditsApart, Borrador
<1>3. ASSUME NEW w \in Workers, Compensates(w), m = target[w]
      PROVE  Frozen(m)
  BY <1>3, CompensatedRow DEF Frozen, IsPosted
<1>4. ASSUME NEW w \in Workers, Compensates(w) \/ CommitAprobar(w), m = fresh[w]
      PROVE  /\ movement'[m] # None /\ movement'[m].estado = "procesado"
             /\ ~Borrador(m)
             /\ \A q \in Workers : op[q] \in {"editar", "linea"} => target[q] # m
  <2>1. movement'[m] # None /\ movement'[m].estado = "procesado" /\ ~Exists(m)
    BY <1>4, CompensatedRow, ApprovedRow DEF IsCompensation, IsAdjustment
  <2>2. \A q \in Workers : op[q] \in {"editar", "linea"} => Exists(target[q])
    BY ClientTarget DEF MovementOps
  <2> QED BY <2>1, <2>2 DEF Borrador
<1> QED BY <1>1, <1>2, <1>3, <1>4, Freezes, WritersBefore DEF Writers

LEMMA MirroredKept ==
    ASSUME MirrorInv, Next
    PROVE  Mirrored'
<1> USE DEF MirrorInv
<1> SUFFICES ASSUME NEW m \in Movements, NEW n \in CompensationsOf(m)'
             PROVE  Compensation(movement[n], m)'
  BY DEF Mirrored
<1>1. CASE n \in CompensationsOf(m)
  <2>1. movement'[m].header = movement[m].header /\ movement'[m].lines = movement[m].lines
    BY <1>1, FrozenBody DEF Frozen
  <2>2. movement'[n].header = movement[n].header /\ movement'[n].lines = movement[n].lines
    <3>1. CASE \E w \in Workers : Compensates(w) /\ n = fresh[w]
      BY <1>1, <3>1, CompensatedRow DEF CompensationsOf
    <3> QED BY <3>1, CompensationsKept
  <2>3. Compensation(movement[n], m)
    BY <1>1 DEF Mirrored
  <2> QED BY <2>1, <2>2, <2>3 DEF Compensation, Compensatorio
<1>2. ASSUME NEW w \in Workers, Compensates(w), target[w] = m, movement'[n] = doc[w]
      PROVE  Compensation(movement[n], m)'
  <2>1. movement'[m].header = movement[m].header /\ movement'[m].lines = movement[m].lines
        /\ op[w] = "estornar" /\ at[w] = "post"
    BY <1>2, CompensatedRow
  <2>2. Compensation(doc[w], m)
    BY <1>2, <2>1 DEF Reversing
  <2> QED BY <1>2, <2>1, <2>2 DEF Compensation, Compensatorio
<1> QED BY <1>1, <1>2, CompensationsKept

\* The state of a locked original is its estorno's to write.
LEMMA LockedEstado ==
    ASSUME MirrorInv, Next, NEW q \in Workers, op[q] = "estornar", at[q] # "lock",
           SameRequest(q)
    PROVE  /\ target[q] \in Movements /\ movement'[target[q]].estado = "procesado"
           /\ movement'[target[q]].header = movement[target[q]].header
           /\ movement'[target[q]].lines = movement[target[q]].lines
<1> USE DEF MirrorInv
<1>1. PICK m : m = target[q]
  OBVIOUS
<1>2. m \in Movements /\ Exists(m) /\ movement[m].estado = "procesado"
      /\ HoldsMovement(q, m) /\ Frozen(m)
  <2>1. m \in Movements /\ Exists(m)
    BY <1>1 DEF Inv, WorkerOK, Target, MovementOps
  <2>2. movement[m].estado = "procesado"
    BY <1>1 DEF Reversing
  <2> QED BY <1>1, <2>1, <2>2 DEF HoldsMovement, Frozen, IsPosted
<1>3. movement'[m].header = movement[m].header /\ movement'[m].lines = movement[m].lines
  BY <1>2, FrozenBody
<1>4. movement'[m].estado = movement[m].estado
  <2>1. CASE UNCHANGED movement
    BY <2>1
  <2>2. CASE Create
    BY <1>2, <2>2, CreatedRow, CreatedCount DEF Create, OnlyRow
  <2>3. ASSUME NEW w \in Workers, Finish(w) PROVE w # q
    BY <2>3, Finishes DEF SameRequest
  <2>4. ASSUME NEW w \in Workers, WritesEstado(w)
        PROVE  movement'[m] = movement[m]
    <3>1. w # q /\ q \in MovementHolders(m)
      BY <1>2, <2>3, <2>4, EstadoRow DEF MovementHolders
    <3>2. m # target[w]
      BY <2>4, <3>1, EstadoRow
    <3> QED BY <1>2, <2>4, <3>2, EstadoRow DEF OnlyRow
  <2>5. ASSUME NEW w \in Workers, WritesBody(w)
        PROVE  movement'[m].estado = movement[m].estado
    BY <1>2, <2>5, BodyRow DEF OnlyRow
  <2>6. ASSUME NEW w \in Workers, Compensates(w)
        PROVE  movement'[m] = movement[m]
    <3>1. w # q
      BY <2>3, <2>6, CompensatedRow
    <3>2. HoldsMovement(w, target[w]) /\ HoldsMovement(q, target[q])
      BY <1>1, <1>2, <2>6, CompensatedRow DEF HoldsMovement
    <3>3. m # target[w]
      BY <1>1, <3>1, <3>2 DEF Inv, Apart
    <3>4. m # fresh[w]
      BY <1>2, <2>6, CompensatedRow
    <3> QED BY <1>2, <2>6, <3>3, <3>4, CompensatedRow
  <2>7. ASSUME NEW w \in Workers, CommitAprobar(w)
        PROVE  movement'[m] = movement[m]
    BY <1>2, <2>7, ApprovedRow DEF OnlyRow
  <2>8. ASSUME NEW w \in Workers,
               BeginRequest(w) \/ Goes(w) \/ Rollback(w) \/ WritesCount(w)
        PROVE  UNCHANGED movement
    BY <2>8, BeginsApart, GoesApart, CountRow DEF Rollback, rows
  <2> QED BY <2>1, <2>2, <2>4, <2>5, <2>6, <2>7, <2>8, NextCases
<1> QED BY <1>1, <1>2, <1>3, <1>4

LEMMA ReversingKept ==
    ASSUME MirrorInv, Next, NEW q \in Workers
    PROVE  Reversing(q)'
<1> USE DEF MirrorInv
<1>1. CASE SameRequest(q)
  <2> SUFFICES ASSUME op[q] = "estornar", at[q] # "lock"
               PROVE  /\ movement'[target[q]].estado = "procesado"
                      /\ at[q] \in {"post", "store"} => Compensation(doc[q], target[q])'
    BY <1>1 DEF Reversing, SameRequest
  <2>1. /\ movement'[target[q]].estado = "procesado"
        /\ movement'[target[q]].header = movement[target[q]].header
        /\ movement'[target[q]].lines = movement[target[q]].lines
    BY <1>1, LockedEstado
  <2>2. ASSUME at[q] \in {"post", "store"}
        PROVE  Compensation(doc[q], target[q])'
    <3>1. PICK m, d : m = target[q] /\ d = doc[q]
      OBVIOUS
    <3>2. Compensation(d, m)
      BY <2>2, <3>1 DEF Reversing
    <3>3. movement'[m].header = movement[m].header /\ movement'[m].lines = movement[m].lines
      BY <2>1, <3>1
    <3>4. Compensatorio(m, movement'[m]) = Compensatorio(m, movement[m])
      BY <3>3 DEF Compensatorio
    <3>5. Compensation(d, m)'
      BY <3>2, <3>4 DEF Compensation
    <3> QED BY <1>1, <3>1, <3>5 DEF SameRequest, Compensation
  <2> QED BY <2>1, <2>2
<1>2. CASE Finish(q)
  BY <1>2, Finishes DEF Reversing
<1>3. CASE BeginRequest(q)
  <2>1. op'[q] = "estornar" => at'[q] = "lock"
    <3>1. PICK o, t, n, label : Begin(q, o, t, n, label) /\ (o = "estornar" => label = "lock")
      BY <1>3 DEF BeginRequest, BeginAutorizar, BeginAnular, BeginProcesar, BeginEditar,
         BeginLinea, BeginEstornar, BeginFinalizar, BeginAnularConteo, BeginEditarConteo,
         BeginAprobar
    <3> QED BY <3>1 DEF Begin, Goto, Inv, TypeOK
  <2> QED BY <2>1 DEF Reversing
<1>4. CASE Goes(q)
  <2>1. UNCHANGED <<movement, op, target>>
    BY <1>4, GoesApart DEF rows, request
  <2> SUFFICES ASSUME op[q] = "estornar", at'[q] # "lock"
               PROVE  /\ movement[target[q]].estado = "procesado"
                      /\ at'[q] \in {"post", "store"} =>
                           Compensation(doc'[q], target[q])
    BY <2>1 DEF Reversing, Compensation
  <2>2. WorkerOK(q)
    BY DEF Inv
  <2>3. CASE LockOriginal(q) /\ ~Rollback(q)
    BY <2>3 DEF LockOriginal, Reversible, Goto, Inv, TypeOK
  <2>4. CASE Compensate(q)
    <3>1. at[q] = "gates" /\ doc'[q] = Compensatorio(target[q], movement[target[q]])
      BY <2>4 DEF Compensate, Inv, TypeOK
    <3> QED BY <3>1 DEF Reversing, Compensation
  <2>5. CASE SkipLine(q)
    <3>1. at[q] = "post" /\ doc' = doc
      BY <2>5 DEF SkipLine, Posting
    <3> QED BY <3>1 DEF Reversing, Compensation
  <2>6. CASE ReadStock(q)
    <3>1. at[q] = "post" /\ doc' = doc
      BY <2>6 DEF ReadStock, Posting
    <3> QED BY <3>1 DEF Reversing, Compensation
  <2>7. CASE WriteStock(q) /\ ~Rollback(q)
    <3>1. at[q] = "store" /\ doc' = doc
      BY <2>7 DEF WriteStock
    <3> QED BY <3>1 DEF Reversing, Compensation
  <2>8. ~WriteTotals(q) /\ ~ReadLines(q) /\ \A costed \in BOOLEAN : ~ReadSheet(q, costed)
    BY <2>2 DEF WriteTotals, ReadLines, ReadSheet, WorkerOK, Labels
  <2> QED BY <1>4, <2>3, <2>4, <2>5, <2>6, <2>7, <2>8 DEF Goes
<1>5. CASE Create
  BY <1>1, <1>5 DEF Create, CreateMovement, CreateConteo, SameRequest, request
<1>6. ASSUME NEW w \in Workers, BeginRequest(w) \/ Step(w) \/ DeadlockVictim(w) \/ Fail(w)
      PROVE  BeginRequest(w) \/ Finish(w) \/ Goes(w)
  BY <1>6, StepCases, EstadoRow, BodyRow, CountRow, CompensatedRow, ApprovedRow
     DEF DeadlockVictim, Fail, Rollback
<1>7. ASSUME NEW w \in Workers, BeginRequest(w) \/ Finish(w) \/ Goes(w), w # q
      PROVE  SameRequest(q)
  BY <1>7, BeginsApart, Finishes, GoesApart DEF OthersApart
<1> QED BY <1>1, <1>2, <1>3, <1>4, <1>5, <1>6, <1>7 DEF Next

LEMMA MirrorInvInverse ==
    ASSUME MirrorInv
    PROVE  EstornoIsInverse
<1> SUFFICES ASSUME NEW m \in Movements, NEW n \in CompensationsOf(m), NEW c \in Cells
             PROVE  Effect(movement[n], c) = - Effect(movement[m], c)
  BY DEF EstornoIsInverse
<1>1. movement[m] \in Movement /\ movement[n] \in Movement
  BY MovementRow DEF MirrorInv, FrozenRows, Frozen, CompensationsOf
<1>2. PICK x : x = Compensatorio(m, movement[m])
  OBVIOUS
<1>3. movement[n].header = x.header /\ movement[n].lines = x.lines
  BY <1>2 DEF MirrorInv, Mirrored, Compensation
<1>4. Running(movement[n], c) = Running(x, c) /\ PostingCount(movement[n]) = PostingCount(x)
  BY <1>3 DEF Running, Adds, PostingCount, Legs, LineOf, CellOf, WarehouseOf, Outgoing,
     DeltaOf
<1>5. Effect(movement[n], c) = Effect(x, c)
  BY <1>4 DEF Effect
<1> QED BY <1>1, <1>2, <1>5, MirrorEffect

\* A reversal gives back exactly what its original had moved, for every kind
\* of movement, any lines and any pair of warehouses, if no edit of a movement
\* is under way while it is processed: nothing then changes a movement that
\* was posted, and each pair of postings of the two adds up to nothing.
THEOREM EstornoIsInverseWhenApart ==
    Spec /\ []EditsApart => []EstornoIsInverse
<1>1. Init => MirrorInv
  <2> SUFFICES ASSUME Init PROVE MirrorInv
    OBVIOUS
  <2>1. Inv
    BY InitInv
  <2> QED BY <2>1 DEF MirrorInv, Init, FrozenRows, Frozen, IsPosted, Mirrored, Reversing,
         CompensationsOf, Exists
<1>2. MirrorInv /\ EditsApart /\ [Next]_vars => MirrorInv'
  <2> SUFFICES ASSUME MirrorInv, EditsApart, [Next]_vars PROVE MirrorInv'
    OBVIOUS
  <2>0. Inv'
    BY NextKeepsInv DEF MirrorInv
  <2>1. CASE UNCHANGED vars
    <3>1. UNCHANGED <<movement, op, at, target, doc>>
      BY <2>1 DEF vars, rows, request
    <3>2. FrozenRows' /\ Mirrored'
      BY <3>1 DEF MirrorInv, FrozenRows, Frozen, IsPosted, Mirrored, Compensation,
         CompensationsOf, Exists
    <3>3. \A w \in Workers : Reversing(w)'
      BY <3>1 DEF MirrorInv, Reversing, Compensation
    <3> QED BY <2>0, <3>2, <3>3 DEF MirrorInv
  <2>2. CASE Next
    BY <2>0, <2>2, FrozenKept, MirroredKept, ReversingKept DEF MirrorInv
  <2> QED BY <2>1, <2>2
<1>3. MirrorInv => EstornoIsInverse
  BY MirrorInvInverse
<1> QED BY <1>1, <1>2, <1>3, PTL DEF Spec
-----------------------------------------------------------------------------
(***************************************************************************)
(* The stock is the ledger of the posted movements, if postings stay apart.*)
(***************************************************************************)
\* Nobody is about to write a movement that was posted, except its estorno.
PostedAlone ==
    \A m \in Movements : IsPosted(m) =>
        \A w \in Workers : op[w] \in {"procesar", "autorizar", "anular", "editar", "linea"}
                           => target[w] # m

\* What procesar posts is what its movement says.
HeldDocument(w) ==
    op[w] = "procesar" =>
        /\ doc[w].header = movement[target[w]].header
        /\ at[w] \in {"post", "store"} => doc[w].lines = movement[target[w]].lines

\* A cell has what it had and what the postings so far add; a cell that was
\* not written has nothing to add.
WroteOK(w, c) ==
    IF wrote[w][c] = None THEN Running(doc[w], c)[next[w] - 1] = 0
    ELSE /\ c \in CellsOf(w)
         /\ wrote[w][c] = OnHand(c) + Running(doc[w], c)[next[w] - 1]
StoreOK(w) ==
    /\ next[w] <= PostingCount(doc[w]) /\ NextQty(w) # 0 /\ NextCell(w) \in Cells
    /\ Or(seen[w], 0) = OnHand(NextCell(w)) + Running(doc[w], NextCell(w))[next[w] - 1]
PostingAt(w) ==
    IF at[w] \in {"post", "store"}
    THEN /\ next[w] <= PostingCount(doc[w]) + 1
         /\ \A c \in Cells : WroteOK(w, c)
         /\ at[w] = "store" => StoreOK(w)
    ELSE wrote[w] = NothingWritten

LedgerInv ==
    Inv /\ PostedAlone /\ \A w \in Workers : HeldDocument(w) /\ PostingAt(w)

LEMMA SameEffect ==
    ASSUME NEW x, NEW y, x.header = y.header, x.lines = y.lines
    PROVE  /\ PostingCount(x) = PostingCount(y)
           /\ \A c : Effect(x, c) = Effect(y, c)
<1>1. PostingCount(x) = PostingCount(y)
  BY DEF PostingCount, Legs
<1>2. ASSUME NEW c PROVE Running(x, c) = Running(y, c)
  BY <1>1 DEF Running, Adds, PostingCount, Legs, LineOf, CellOf, WarehouseOf, Outgoing,
     DeltaOf
<1> QED BY <1>1, <1>2 DEF Effect

\* The steps that change the stock.
Commits(w) == CommitProcesar(w) \/ Compensates(w) \/ CommitAprobar(w)

LEMMA CommitsAt ==
    ASSUME Inv, NEW w \in Workers, Commits(w)
    PROVE  /\ at[w] = "post" /\ next[w] > PostingCount(doc[w])
           /\ Finish(w) /\ StoreStock(w)
  BY DEF Commits, CommitProcesar, Compensates, CommitEstornar, CommitAprobar, Posted

LEMMA StepKinds ==
    ASSUME Inv, Next
    PROVE  \/ Create /\ UNCHANGED <<stock, op, at, target, doc, next, seen, wrote>>
           \/ \E w \in Workers : /\ OthersApart(w)
                                 /\ \/ BeginRequest(w) \/ Goes(w)
                                    \/ Finish(w) /\ (UNCHANGED stock \/ Commits(w))
<1>1. CASE Create
  BY <1>1 DEF Create, CreateMovement, CreateConteo, request
<1>2. ASSUME NEW w \in Workers, BeginRequest(w) \/ Goes(w)
      PROVE  OthersApart(w)
  BY <1>2, BeginsApart, GoesApart
<1>3. ASSUME NEW w \in Workers, Finish(w)
      PROVE  OthersApart(w)
  BY <1>3, Finishes
<1>4. ASSUME NEW w \in Workers, Step(w) \/ DeadlockVictim(w) \/ Fail(w)
      PROVE  Goes(w) \/ (Finish(w) /\ (UNCHANGED stock \/ Commits(w)))
  <2>1. CASE Rollback(w)
    BY <2>1 DEF Rollback, rows
  <2>2. CASE WritesEstado(w)
    <3>1. CASE WriteEstado(w)
      BY <3>1 DEF WriteEstado
    <3>2. CASE CommitProcesar(w)
      BY <3>2 DEF CommitProcesar, Commits
    <3> QED BY <2>2, <3>1, <3>2 DEF WritesEstado
  <2>3. CASE WritesBody(w)
    BY <2>3, BodyRow
  <2>4. CASE WritesCount(w)
    BY <2>4, CountRow
  <2>5. CASE Compensates(w) \/ CommitAprobar(w)
    BY <2>5, CommitsAt DEF Commits
  <2>6. DeadlockVictim(w) \/ Fail(w) => Rollback(w)
    BY DEF DeadlockVictim, Fail
  <2> QED BY <1>4, <2>1, <2>2, <2>3, <2>4, <2>5, <2>6, StepCases
<1> QED BY <1>1, <1>2, <1>3, <1>4 DEF Next

LEMMA OnHandTyped ==
    ASSUME Inv, NEW c \in Cells
    PROVE  OnHand(c) \in Nat
  BY NoneAssumption DEF OnHand, Or, Inv, TypeOK

\* A request that is posting does not notice the commits of others.
LEMMA PostingStays ==
    ASSUME LedgerInv, PostingsApart, NEW q \in Workers, SameRequest(q),
           wrote'[q] = wrote[q],
           \/ UNCHANGED stock
           \/ \E w \in Workers \ {q} : Commits(w)
    PROVE  PostingAt(q)'
<1> USE DEF LedgerInv
<1>1. op'[q] = op[q] /\ at'[q] = at[q] /\ doc'[q] = doc[q] /\ next'[q] = next[q]
      /\ seen'[q] = seen[q]
  BY DEF SameRequest
<1>2. CellsOf(q)' = CellsOf(q)
  BY <1>1 DEF CellsOf
<1>3. PostingAt(q)
  OBVIOUS
<1>4. CASE at[q] \notin {"post", "store"}
  <2>1. NothingWritten' = NothingWritten
    BY DEF NothingWritten
  <2> QED BY <1>1, <1>3, <1>4, <2>1 DEF PostingAt
<1>5. CASE at[q] \in {"post", "store"}
  <2>1. \A c \in CellsOf(q) \cap Cells : stock'[c] = stock[c]
    <3>1. CASE \E w \in Workers \ {q} : Commits(w)
      <4>1. PICK w \in Workers \ {q} : Commits(w)
        BY <3>1
      <4>2. at[w] = "post" /\ StoreStock(w)
        BY <4>1, CommitsAt
      <4>3. CellsOf(w) \cap CellsOf(q) = {}
        BY <1>5, <4>2 DEF PostingsApart
      <4>4. \A c \in Cells : c \notin CellsOf(w) => wrote[w][c] = None
        BY <4>2 DEF PostingAt, WroteOK
      <4> QED BY <4>2, <4>3, <4>4 DEF StoreStock
    <3> QED BY <3>1
  <2>2. \A c \in CellsOf(q) \cap Cells : OnHand(c)' = OnHand(c)
    BY <2>1 DEF OnHand, Or
  <2>3. ASSUME NEW c \in Cells PROVE WroteOK(q, c)'
    BY <1>1, <1>2, <1>3, <1>5, <2>2 DEF PostingAt, WroteOK
  <2>4. ASSUME at[q] = "store" PROVE StoreOK(q)'
    <3>1. StoreOK(q) /\ next[q] \in Nat /\ next[q] # 0
      BY <1>3, <2>4, PostingDoc DEF PostingAt
    <3>2. PICK c : c = NextCell(q)
      OBVIOUS
    <3>3. c \in CellsOf(q) \cap Cells
      <4>1. next[q] \in 1..PostingCount(doc[q])
        <5>1. PostingCount(doc[q]) \in Nat
          BY <1>5, PostingDoc, Postings
        <5> QED BY <3>1, <5>1 DEF StoreOK
      <4> QED BY <3>1, <3>2, <4>1 DEF StoreOK, CellsOf, NextCell, NextQty
    <3>4. NextCell(q)' = c /\ NextQty(q)' = NextQty(q)
      BY <1>1, <3>2 DEF NextCell, NextQty
    <3>5. OnHand(c)' = OnHand(c)
      BY <2>2, <3>3
    <3> QED BY <1>1, <3>1, <3>2, <3>4, <3>5 DEF StoreOK
  <2> QED BY <1>1, <1>3, <1>5, <2>3, <2>4 DEF PostingAt
<1> QED BY <1>4, <1>5

LEMMA PostingEnters ==
    ASSUME LedgerInv, NEW w \in Workers, at[w] \notin {"post", "store"},
           at'[w] = "post", next'[w] = 1, doc'[w] \in Movement, UNCHANGED wrote
    PROVE  PostingAt(w)'
<1>1. wrote'[w] = NothingWritten
  BY DEF LedgerInv, PostingAt
<1>2. PICK d \in Movement : d = doc'[w]
  OBVIOUS
<1>3. PostingCount(d) \in Nat /\ \A c : Running(d, c)[0] = 0
  BY Postings, RunningSteps
<1>4. ASSUME NEW c \in Cells PROVE WroteOK(w, c)'
  BY <1>1, <1>2, <1>3 DEF WroteOK, NothingWritten
<1>5. next'[w] <= PostingCount(doc'[w]) + 1
  BY <1>2, <1>3
<1> QED BY <1>4, <1>5 DEF PostingAt

LEMMA SkipPosting ==
    ASSUME LedgerInv, NEW w \in Workers, SkipLine(w)
    PROVE  PostingAt(w)'
<1> USE DEF LedgerInv
<1>1. PICK d, n : d = doc[w] /\ n = next[w]
  OBVIOUS
<1>2. at[w] = "post" /\ n \in 1..PostingCount(d) /\ LineOf(d, n).qty = 0 /\ d \in Movement
      /\ PostingCount(d) \in Nat
  <2>1. at[w] = "post" /\ n <= PostingCount(d) /\ LineOf(d, n).qty = 0
    BY <1>1 DEF SkipLine, Posting, NextQty
  <2>2. d \in Movement /\ n \in Nat /\ n # 0
    BY <1>1, <2>1, PostingDoc
  <2> QED BY <2>1, <2>2, Postings
<1>3. at'[w] = "post" /\ doc'[w] = d /\ next'[w] = n + 1 /\ wrote' = wrote /\ stock' = stock
  BY <1>1, <1>2 DEF SkipLine, rows, Inv, TypeOK
<1>4. ASSUME NEW c \in Cells PROVE WroteOK(w, c)'
  <2>1. WroteOK(w, c)
    BY <1>2 DEF PostingAt
  <2>2. Running(d, c)[n] = Running(d, c)[n - 1]
    <3>1. Running(d, c)[n] = Running(d, c)[n - 1] + Adds(d, c, n)
      BY <1>2, RunningSteps
    <3>2. Adds(d, c, n) = 0
      BY <1>2 DEF Adds
    <3>3. Running(d, c)[n - 1] \in Int
      <4>1. n - 1 \in 0..PostingCount(d)
        BY <1>2
      <4> QED BY <1>2, <4>1, RunningTyped
    <3> QED BY <3>1, <3>2, <3>3
  <2>3. CellsOf(w)' = CellsOf(w) /\ OnHand(c)' = OnHand(c)
    BY <1>1, <1>3 DEF CellsOf, OnHand
  <2>4. next'[w] - 1 = n
    BY <1>2, <1>3
  <2> QED BY <1>1, <1>3, <2>1, <2>2, <2>3, <2>4 DEF WroteOK
<1>5. next'[w] <= PostingCount(doc'[w]) + 1
  BY <1>2, <1>3
<1> QED BY <1>3, <1>4, <1>5 DEF PostingAt

LEMMA ReadPosting ==
    ASSUME LedgerInv, NEW w \in Workers, ReadStock(w)
    PROVE  PostingAt(w)'
<1> USE DEF LedgerInv
<1>1. at[w] = "post" /\ doc[w] \in Movement /\ next[w] \in Nat
      /\ next[w] # 0 /\ next[w] <= PostingCount(doc[w]) /\ HasWarehouses(doc[w])
      /\ NextQty(w) # 0
  BY PostingDoc DEF ReadStock, Posting, CanPost
<1>2. PICK c : c = NextCell(w)
  OBVIOUS
<1>3. c \in Cells
  BY <1>1, <1>2, CellTyped DEF NextCell
<1>4. /\ seen'[w] = InView(w, c) /\ at'[w] = "store"
      /\ doc'[w] = doc[w] /\ next'[w] = next[w] /\ wrote' = wrote /\ stock' = stock
  BY <1>2 DEF ReadStock, Goto, rows, Inv, TypeOK
<1>5. WroteOK(w, c)
  BY <1>1, <1>3 DEF PostingAt
<1>6. Or(InView(w, c), 0) = OnHand(c) + Running(doc[w], c)[next[w] - 1]
  <2>1. wrote[w][c] \in Nat \cup {None} /\ OnHand(c) \in Nat
    BY <1>3, OnHandTyped DEF Inv, TypeOK
  <2>2. CASE wrote[w][c] = None
    BY <1>5, <2>1, <2>2 DEF WroteOK, InView, OnHand
  <2>3. CASE wrote[w][c] # None
    BY <1>5, <2>3 DEF WroteOK, InView, Or
  <2> QED BY <2>2, <2>3
<1>7. StoreOK(w)'
  <2>1. NextCell(w)' = c /\ NextQty(w)' = NextQty(w)
    BY <1>2, <1>4 DEF NextCell, NextQty
  <2>2. OnHand(c)' = OnHand(c)
    BY <1>4 DEF OnHand
  <2>3. Or(seen'[w], 0) = OnHand(c) + Running(doc[w], c)[next[w] - 1]
    BY <1>4, <1>6
  <2> QED BY <1>1, <1>3, <1>4, <2>1, <2>2, <2>3 DEF StoreOK, Or
<1>8. ASSUME NEW e \in Cells PROVE WroteOK(w, e)'
  <2>1. WroteOK(w, e)
    BY <1>1 DEF PostingAt
  <2>2. CellsOf(w)' = CellsOf(w) /\ OnHand(e)' = OnHand(e)
    BY <1>4 DEF CellsOf, OnHand
  <2> QED BY <1>4, <2>1, <2>2 DEF WroteOK
<1>9. next'[w] <= PostingCount(doc'[w]) + 1
  <2>1. PostingCount(doc[w]) \in Nat
    BY <1>1, Postings
  <2> QED BY <1>1, <1>4, <2>1
<1> QED BY <1>4, <1>7, <1>8, <1>9 DEF PostingAt

LEMMA WritePosting ==
    ASSUME LedgerInv, NEW w \in Workers, WriteStock(w), ~Rollback(w)
    PROVE  PostingAt(w)'
<1> USE DEF LedgerInv
<1>1. PICK d, n, c, v : /\ d = doc[w] /\ n = next[w] /\ c = NextCell(w)
                        /\ v = Or(seen[w], 0) + DeltaOf(doc[w], next[w])
  OBVIOUS
<1>2. /\ at[w] = "store" /\ d \in Movement /\ PostingCount(d) \in Nat
      /\ n \in 1..PostingCount(d) /\ StoreOK(w)
  <2>1. at[w] = "store"
    BY DEF WriteStock
  <2>2. StoreOK(w) /\ d \in Movement /\ n \in Nat /\ n # 0
    BY <1>1, <2>1, PostingDoc DEF PostingAt
  <2> QED BY <1>1, <2>1, <2>2, Postings DEF StoreOK
<1>3. /\ c \in Cells /\ LineOf(d, n).qty # 0 /\ c = CellOf(d, n) /\ c \in CellsOf(w)
      /\ v = OnHand(c) + Running(d, c)[n - 1] + DeltaOf(d, n)
  BY <1>1, <1>2 DEF StoreOK, NextCell, NextQty, CellsOf
<1>4. v \in Nat /\ v # None
  <2>1. v \in Nat
    BY <1>1, <1>2 DEF Inv, WorkerOK, Document
  <2> QED BY <2>1, NoneAssumption
<1>5. /\ at'[w] = "post" /\ doc'[w] = d /\ next'[w] = n + 1 /\ stock' = stock
      /\ wrote'[w][c] = v /\ \A e \in Cells \ {c} : wrote'[w][e] = wrote[w][e]
  <2>1. /\ wrote' = [wrote EXCEPT ![w][c] = v] /\ next' = [next EXCEPT ![w] = @ + 1]
        /\ Goto(w, "post") /\ UNCHANGED <<rows, doc>>
    BY <1>1 DEF WriteStock
  <2> QED BY <1>1, <1>3, <2>1 DEF Goto, rows, Inv, TypeOK
<1>6. ASSUME NEW e \in Cells PROVE WroteOK(w, e)'
  <2>1. WroteOK(w, e)
    BY <1>2 DEF PostingAt
  <2>2. Running(d, e)[n] = Running(d, e)[n - 1] + Adds(d, e, n)
        /\ Running(d, e)[n - 1] \in Int /\ Adds(d, e, n) \in Int
    <3>1. n - 1 \in 0..PostingCount(d)
      BY <1>2
    <3> QED BY <1>2, <3>1, RunningSteps, RunningTyped, AddsTyped
  <2>3. CellsOf(w)' = CellsOf(w) /\ OnHand(e)' = OnHand(e)
    BY <1>1, <1>5 DEF CellsOf, OnHand
  <2>4. next'[w] - 1 = n
    BY <1>2, <1>5
  <2>5. CASE e = c
    <3>1. Adds(d, e, n) = DeltaOf(d, n)
      BY <1>3, <2>5 DEF Adds
    <3>2. v = OnHand(e) + Running(d, e)[n]
      <4>1. OnHand(e) \in Nat
        BY OnHandTyped
      <4> QED BY <1>3, <2>2, <2>5, <3>1, <4>1
    <3> QED BY <1>3, <1>4, <1>5, <2>3, <2>4, <2>5, <3>2 DEF WroteOK
  <2>6. CASE e # c
    <3>1. Adds(d, e, n) = 0
      BY <1>3, <2>6 DEF Adds
    <3>2. Running(d, e)[n] = Running(d, e)[n - 1]
      BY <2>2, <3>1
    <3> QED BY <1>1, <1>5, <2>1, <2>3, <2>4, <2>6, <3>2 DEF WroteOK
  <2> QED BY <2>5, <2>6
<1>7. next'[w] <= PostingCount(doc'[w]) + 1
  BY <1>2, <1>5
<1> QED BY <1>5, <1>6, <1>7 DEF PostingAt

LEMMA OwnPosting ==
    ASSUME LedgerInv, NEW w \in Workers, BeginRequest(w) \/ Goes(w) \/ Finish(w)
    PROVE  PostingAt(w)'
<1> USE DEF LedgerInv
<1>0. Labels(w) /\ PostingAt(w)
  BY DEF Inv, WorkerOK
<1>1. CASE Finish(w)
  <2>1. at'[w] = "begin" /\ wrote'[w] = NothingWritten'
    BY <1>1, Finishes DEF NothingWritten
  <2> QED BY <2>1 DEF PostingAt
<1>2. CASE BeginRequest(w)
  <2>1. PICK o, t, n, label : Begin(w, o, t, n, label) /\ label \in {"write", "lines", "lock"}
    BY <1>2 DEF BeginRequest, BeginAutorizar, BeginAnular, BeginProcesar, BeginEditar,
       BeginLinea, BeginEstornar, BeginFinalizar, BeginAnularConteo, BeginEditarConteo,
       BeginAprobar
  <2>2. at[w] = "begin" /\ at'[w] \notin {"post", "store"} /\ wrote' = wrote
    BY <1>0, <2>1 DEF Begin, Goto, Labels, Inv, TypeOK
  <2>3. wrote'[w] = NothingWritten'
    BY <1>0, <2>2 DEF PostingAt, NothingWritten
  <2> QED BY <2>2, <2>3 DEF PostingAt
<1>3. CASE SkipLine(w)
  BY <1>3, SkipPosting
<1>4. CASE ReadStock(w)
  BY <1>4, ReadPosting
<1>5. CASE WriteStock(w) /\ ~Rollback(w)
  BY <1>5, WritePosting
<1>6. CASE LockOriginal(w) /\ ~Rollback(w)
  <2>1. at[w] = "lock" /\ at'[w] = "gates" /\ wrote' = wrote
    BY <1>6 DEF LockOriginal, Goto, Inv, TypeOK
  <2>2. wrote'[w] = NothingWritten'
    BY <1>0, <2>1 DEF PostingAt, NothingWritten
  <2> QED BY <2>1, <2>2 DEF PostingAt
<1>7. CASE \E costed \in BOOLEAN : ReadSheet(w, costed) /\ ~Rollback(w)
  <2>1. at[w] = "lines" /\ at'[w] = "totals" /\ wrote' = wrote
    BY <1>7 DEF ReadSheet, Goto, Inv, TypeOK
  <2>2. wrote'[w] = NothingWritten'
    BY <1>0, <2>1 DEF PostingAt, NothingWritten
  <2> QED BY <2>1, <2>2 DEF PostingAt
<1>8. CASE \/ Compensate(w) \/ WriteTotals(w)
           \/ ReadLines(w) /\ ~Rollback(w)
  <2>1. Inv' /\ at[w] \notin {"post", "store"} /\ at'[w] = "post" /\ next'[w] = 1
        /\ UNCHANGED wrote
    <3>1. Inv'
      BY <1>8, CompensateKeepsInv, WriteTotalsKeepsInv, ReadLinesKeepsInv
    <3>2. CASE Compensate(w)
      BY <3>1, <3>2 DEF Compensate, Goto, Inv, TypeOK
    <3>3. CASE WriteTotals(w)
      BY <3>1, <3>3 DEF WriteTotals, Goto, Inv, TypeOK
    <3>4. CASE ReadLines(w) /\ ~Rollback(w)
      BY <3>1, <3>4 DEF ReadLines, Goto, Inv, TypeOK
    <3> QED BY <1>8, <3>2, <3>3, <3>4
  <2>2. doc'[w] \in Movement
    <3>1. WorkerOK(w)'
      BY <2>1 DEF Inv
    <3> QED BY <2>1, <3>1 DEF WorkerOK, Labels, Document, Reversal, IsCompensation, IsAdjustment
  <2> QED BY <2>1, <2>2, PostingEnters
<1> QED BY <1>1, <1>2, <1>3, <1>4, <1>5, <1>6, <1>7, <1>8 DEF Goes

LEMMA PostingKept ==
    ASSUME LedgerInv, PostingsApart, Next, NEW q \in Workers
    PROVE  PostingAt(q)'
<1>0. Inv
  BY DEF LedgerInv
<1>1. CASE Create /\ UNCHANGED <<stock, op, at, target, doc, next, seen, wrote>>
  <2>1. SameRequest(q)
    BY <1>1 DEF SameRequest, Create, CreateMovement, CreateConteo, request
  <2> QED BY <1>1, <2>1, PostingStays
<1>2. ASSUME NEW w \in Workers, OthersApart(w),
             \/ BeginRequest(w) \/ Goes(w)
             \/ Finish(w) /\ (UNCHANGED stock \/ Commits(w))
      PROVE  PostingAt(q)'
  <2>1. CASE q = w
    BY <1>2, <2>1, OwnPosting
  <2>2. CASE q # w
    <3>1. SameRequest(q) /\ wrote'[q] = wrote[q]
      BY <1>2, <2>2 DEF OthersApart
    <3>2. UNCHANGED stock \/ Commits(w)
      BY <1>0, <1>2, BeginsApart, GoesApart DEF rows
    <3> QED BY <2>2, <3>1, <3>2, PostingStays
  <2> QED BY <2>1, <2>2
<1> QED BY <1>0, <1>1, <1>2, StepKinds

\* The movement procesar works on is its own to write.
LEMMA HeldKept ==
    ASSUME LedgerInv, PostingsApart, Next, NEW q \in Workers
    PROVE  HeldDocument(q)'
<1> USE DEF LedgerInv
<1>0. Inv /\ HeldDocument(q)
  OBVIOUS
<1>1. ASSUME op[q] = "procesar"
      PROVE  /\ movement'[target[q]].header = movement[target[q]].header
             /\ movement'[target[q]].lines = movement[target[q]].lines
  <2>1. PICK m : m = target[q]
    OBVIOUS
  <2>2. m \in Movements /\ Exists(m)
    BY <1>1, <2>1, ClientTarget DEF MovementOps
  <2>3. CASE Create
    BY <2>1, <2>2, <2>3, CreatedRow, CreatedCount DEF Create, OnlyRow
  <2>4. ASSUME NEW w \in Workers, WritesEstado(w)
        PROVE  movement'[m].header = movement[m].header
               /\ movement'[m].lines = movement[m].lines
    BY <2>2, <2>4, EstadoRow DEF OnlyRow
  <2>5. ASSUME NEW w \in Workers, WritesBody(w)
        PROVE  movement'[m] = movement[m]
    <3>1. op[w] \in {"editar", "linea"}
      BY <2>5, BodyRow
    <3>2. target[w] # m
      BY <1>1, <2>1, <3>1 DEF PostingsApart
    <3> QED BY <2>2, <2>5, <3>2, BodyRow DEF OnlyRow
  <2>6. ASSUME NEW w \in Workers, Compensates(w)
        PROVE  movement'[m].header = movement[m].header
               /\ movement'[m].lines = movement[m].lines
    <3>1. m # fresh[w]
      BY <2>2, <2>6, CompensatedRow
    <3> QED BY <2>2, <2>6, <3>1, CompensatedRow
  <2>7. ASSUME NEW w \in Workers, CommitAprobar(w)
        PROVE  movement'[m] = movement[m]
    BY <2>2, <2>7, ApprovedRow DEF OnlyRow
  <2>8. ASSUME NEW w \in Workers,
               BeginRequest(w) \/ Goes(w) \/ Rollback(w) \/ WritesCount(w)
        PROVE  UNCHANGED movement
    BY <2>8, BeginsApart, GoesApart, CountRow DEF Rollback, rows
  <2> QED BY <2>1, <2>3, <2>4, <2>5, <2>6, <2>7, <2>8, NextCases
<1>2. CASE SameRequest(q)
  <2> SUFFICES ASSUME op[q] = "procesar"
               PROVE  /\ doc[q].header = movement'[target[q]].header
                      /\ at[q] \in {"post", "store"} =>
                           doc[q].lines = movement'[target[q]].lines
    BY <1>2 DEF HeldDocument, SameRequest
  <2> QED BY <1>0, <1>1 DEF HeldDocument
<1>3. CASE Finish(q)
  BY <1>3, Finishes DEF HeldDocument
<1>4. CASE BeginRequest(q)
  <2> SUFFICES ASSUME op'[q] = "procesar" PROVE HeldDocument(q)'
    BY DEF HeldDocument
  <2>1. PICK o, t, n, label : Begin(q, o, t, n, label)
                              /\ (o = "procesar" => \E m \in Movements : BeginProcesar(q, m))
    BY <1>4 DEF BeginRequest, BeginAutorizar, BeginAnular, BeginProcesar, BeginEditar,
       BeginLinea, BeginEstornar, BeginFinalizar, BeginAnularConteo, BeginEditarConteo,
       BeginAprobar
  <2>2. PICK m \in Movements : BeginProcesar(q, m)
    BY <2>1 DEF Begin, Inv, TypeOK
  <2>3. doc'[q] = movement[m] /\ target'[q] = m /\ at'[q] = "lines" /\ movement' = movement
    BY <2>2 DEF BeginProcesar, Begin, Goto, rows, Inv, TypeOK
  <2> QED BY <2>3 DEF HeldDocument
<1>5. CASE Goes(q)
  <2>1. UNCHANGED <<movement, op, target>>
    BY <1>5, GoesApart DEF rows, request
  <2> SUFFICES ASSUME op[q] = "procesar"
               PROVE  /\ doc'[q].header = movement[target[q]].header
                      /\ at'[q] \in {"post", "store"} =>
                           doc'[q].lines = movement[target[q]].lines
    BY <2>1 DEF HeldDocument
  <2>2. Labels(q) /\ doc[q] \in Movement
    BY DEF Inv, WorkerOK, Document
  <2>3. CASE ReadLines(q) /\ ~Rollback(q)
    <3>1. PICK l : l = movement[target[q]].lines
      OBVIOUS
    <3>2. doc' = [doc EXCEPT ![q].lines = l]
      BY <2>3, <3>1 DEF ReadLines
    <3>3. PICK r : r = [doc[q] EXCEPT !.lines = l]
      OBVIOUS
    <3>4. r.header = doc[q].header /\ r.lines = l
      BY <2>2, <3>3 DEF Movement
    <3>5. doc'[q] = r
      BY <3>2, <3>3 DEF Inv, TypeOK
    <3> QED BY <1>0, <3>1, <3>4, <3>5 DEF HeldDocument
  <2>4. CASE SkipLine(q)
    BY <1>0, <2>4 DEF SkipLine, Posting, HeldDocument
  <2>5. CASE ReadStock(q)
    <3>1. at[q] = "post" /\ doc' = doc
      BY <2>5 DEF ReadStock, Posting
    <3> QED BY <1>0, <3>1 DEF HeldDocument
  <2>6. CASE WriteStock(q) /\ ~Rollback(q)
    <3>1. at[q] = "store" /\ doc' = doc
      BY <2>6 DEF WriteStock
    <3> QED BY <1>0, <3>1 DEF HeldDocument
  <2>7. /\ ~Compensate(q) /\ ~WriteTotals(q) /\ ~LockOriginal(q)
        /\ \A costed \in BOOLEAN : ~ReadSheet(q, costed)
    BY <2>2 DEF Compensate, WriteTotals, LockOriginal, ReadSheet, Labels
  <2> QED BY <1>5, <2>3, <2>4, <2>5, <2>6, <2>7 DEF Goes
<1>6. CASE Create
  BY <1>2, <1>6 DEF Create, CreateMovement, CreateConteo, SameRequest, request
<1>7. ASSUME NEW w \in Workers, OthersApart(w),
             \/ BeginRequest(w) \/ Goes(w)
             \/ Finish(w) /\ (UNCHANGED stock \/ Commits(w))
      PROVE  HeldDocument(q)'
  <2>1. CASE q = w
    BY <1>3, <1>4, <1>5, <1>7, <2>1
  <2>2. CASE q # w
    BY <1>2, <1>7, <2>2 DEF OthersApart
  <2> QED BY <2>1, <2>2
<1> QED BY <1>0, <1>6, <1>7, StepKinds

LEMMA PostedAloneKept ==
    ASSUME LedgerInv, PostingsApart, Next
    PROVE  PostedAlone'
<1> USE DEF LedgerInv, Writers
<1> SUFFICES ASSUME NEW m \in Movements, IsPosted(m)', NEW q \in Workers,
                    op'[q] \in Writers, target'[q] = m
             PROVE  FALSE
  BY DEF PostedAlone
<1>1. op[q] \in Writers /\ target[q] = m
  <2>1. ASSUME UNCHANGED movement, Open(m) PROVE FALSE
    BY <2>1 DEF IsPosted, Open, Exists
  <2> QED BY <2>1, WritersBefore
<1>2. ~IsPosted(m)
  BY <1>1 DEF PostedAlone
<1>3. Exists(m)
  BY <1>1, ClientTarget DEF MovementOps
<1>4. ASSUME NEW w \in Workers, CommitProcesar(w), m = target[w] PROVE FALSE
  <2>1. op[w] = "procesar" /\ Finish(w)
    BY <1>4 DEF CommitProcesar
  <2>2. q # w
    BY <2>1, Finishes
  <2> QED BY <1>1, <1>4, <2>1, <2>2 DEF PostingsApart
<1>5. ASSUME NEW w \in Workers, Compensates(w) \/ CommitAprobar(w), m = fresh[w]
      PROVE  FALSE
  BY <1>3, <1>5, CompensatedRow, ApprovedRow
<1> QED BY <1>2, <1>4, <1>5, Posts

\* What was posted stays posted, and says what it said.
LEMMA PostedStays ==
    ASSUME LedgerInv, Next, NEW m \in Movements, IsPosted(m)
    PROVE  /\ IsPosted(m)'
           /\ movement'[m].header = movement[m].header
           /\ movement'[m].lines = movement[m].lines
<1> USE DEF LedgerInv, IsPosted, Exists
<1>1. CASE UNCHANGED movement
  BY <1>1
<1>2. CASE Create
  BY <1>2, CreatedRow, CreatedCount DEF Create, OnlyRow
<1>3. ASSUME NEW w \in Workers, WritesEstado(w) \/ WritesBody(w)
      PROVE  movement'[m] = movement[m]
  <2>1. op[w] \in Writers
    BY <1>3, EstadoRow, BodyRow DEF Writers
  <2>2. target[w] # m
    BY <2>1 DEF PostedAlone, Writers
  <2> QED BY <1>3, <2>2, EstadoRow, BodyRow DEF OnlyRow
<1>4. ASSUME NEW w \in Workers, Compensates(w)
      PROVE  /\ IsPosted(m)'
             /\ movement'[m].header = movement[m].header
             /\ movement'[m].lines = movement[m].lines
  <2>1. m # fresh[w]
    BY <1>4, CompensatedRow
  <2>2. CASE m = target[w]
    BY <1>4, <2>2, CompensatedRow
  <2>3. CASE m # target[w]
    BY <1>4, <2>1, <2>3, CompensatedRow
  <2> QED BY <2>2, <2>3
<1>5. ASSUME NEW w \in Workers, CommitAprobar(w)
      PROVE  movement'[m] = movement[m]
  BY <1>5, ApprovedRow DEF OnlyRow
<1>6. ASSUME NEW w \in Workers,
             BeginRequest(w) \/ Goes(w) \/ Rollback(w) \/ WritesCount(w)
      PROVE  UNCHANGED movement
  BY <1>6, BeginsApart, GoesApart, CountRow DEF Rollback, rows
<1> QED BY <1>1, <1>2, <1>3, <1>4, <1>5, <1>6, NextCases

LEMMA CommitsDoc ==
    ASSUME LedgerInv, NEW w \in Workers, Commits(w)
    PROVE  doc[w] \in Movement
BY CommitsAt, PostingDoc DEF LedgerInv

\* A commit adds to the stock what its document adds.
LEMMA CommitsStock ==
    ASSUME LedgerInv, NEW w \in Workers, Commits(w), NEW c \in Cells
    PROVE  OnHand(c)' = OnHand(c) + Effect(doc[w], c)
<1> USE DEF LedgerInv
<1>1. PICK d : d = doc[w]
  OBVIOUS
<1>2. /\ at[w] = "post" /\ next[w] > PostingCount(d) /\ StoreStock(w)
      /\ d \in Movement /\ PostingCount(d) \in Nat /\ next[w] \in Nat
  BY <1>1, CommitsAt, CommitsDoc, Postings DEF Inv, TypeOK
<1>3. WroteOK(w, c) /\ next[w] - 1 = PostingCount(d)
  BY <1>1, <1>2 DEF PostingAt
<1>4. OnHand(c) \in Nat /\ wrote[w][c] \in Nat \cup {None}
  BY OnHandTyped DEF Inv, TypeOK
<1>5. CASE wrote[w][c] = None
  <2>1. stock'[c] = stock[c] /\ Effect(d, c) = 0
    BY <1>1, <1>2, <1>3, <1>5 DEF StoreStock, WroteOK, Effect
  <2>2. OnHand(c)' = OnHand(c)
    BY <2>1 DEF OnHand, Or
  <2> QED BY <1>1, <1>4, <2>1, <2>2
<1>6. CASE wrote[w][c] # None
  <2>1. stock'[c] = wrote[w][c] /\ wrote[w][c] = OnHand(c) + Effect(d, c)
    BY <1>1, <1>2, <1>3, <1>6 DEF StoreStock, WroteOK, Effect
  <2>2. OnHand(c)' = wrote[w][c]
    BY <1>6, <2>1 DEF OnHand, Or
  <2> QED BY <1>1, <2>1, <2>2
<1> QED BY <1>5, <1>6

\* A commit posts one movement, the one its document describes.
LEMMA CommitsRow ==
    ASSUME LedgerInv, NEW w \in Workers, Commits(w)
    PROVE  \E m \in Movements :
             /\ ~IsPosted(m) /\ IsPosted(m)'
             /\ movement'[m].header = doc[w].header
             /\ movement'[m].lines = doc[w].lines
             /\ \A x \in Movements \ {m} : IsPosted(x)' => IsPosted(x)
<1> USE DEF LedgerInv, IsPosted, Exists
<1>1. CASE CommitProcesar(w)
  <2>1. op[w] = "procesar" /\ at[w] = "post" /\ WritesEstado(w)
    BY <1>1 DEF CommitProcesar, Posted, WritesEstado
  <2>2. /\ target[w] \in Movements /\ OnlyRow(target[w])
        /\ movement'[target[w]] # None /\ movement'[target[w]].estado = "procesado"
        /\ movement'[target[w]].header = movement[target[w]].header
        /\ movement'[target[w]].lines = movement[target[w]].lines
    BY <2>1, EstadoRow
  <2>3. ~IsPosted(target[w])
    BY <2>1, <2>2 DEF PostedAlone
  <2>4. movement'[target[w]].header = doc[w].header
        /\ movement'[target[w]].lines = doc[w].lines
    BY <2>1, <2>2 DEF HeldDocument
  <2> QED BY <2>2, <2>3, <2>4 DEF OnlyRow
<1>2. CASE Compensates(w)
  <2>1. /\ fresh[w] \in Movements /\ movement[fresh[w]] = None
        /\ movement'[fresh[w]] = doc[w] /\ doc[w] # None
        /\ doc[w].estado = "procesado"
        /\ movement[target[w]] # None /\ movement[target[w]].estado = "procesado"
        /\ \A n \in Movements \ {target[w], fresh[w]} : movement'[n] = movement[n]
    BY <1>2, CompensatedRow DEF IsCompensation
  <2> QED BY <2>1
<1>3. CASE CommitAprobar(w)
  <2>1. /\ fresh[w] \in Movements /\ movement[fresh[w]] = None
        /\ movement'[fresh[w]] = doc[w] /\ doc[w] # None
        /\ doc[w].estado = "procesado" /\ OnlyRow(fresh[w])
    BY <1>3, ApprovedRow DEF IsAdjustment
  <2> QED BY <2>1 DEF OnlyRow
<1> QED BY <1>1, <1>2, <1>3 DEF Commits

EntryOf(m) == IF IsPosted(m) THEN [c \in Cells |-> Effect(movement[m], c)] ELSE None

LEMMA EntryStays ==
    ASSUME LedgerInv, Next, NEW m \in Movements, IsPosted(m) \/ ~IsPosted(m)'
    PROVE  EntryOf(m)' = EntryOf(m)
<1>1. CASE IsPosted(m)
  <2>1. /\ IsPosted(m)' /\ movement'[m].header = movement[m].header
        /\ movement'[m].lines = movement[m].lines
    BY <1>1, PostedStays
  <2>2. \A c : Effect(movement'[m], c) = Effect(movement[m], c)
    BY <2>1, SameEffect
  <2> QED BY <1>1, <2>1, <2>2 DEF EntryOf
<1>2. CASE ~IsPosted(m)
  BY <1>2 DEF EntryOf
<1> QED BY <1>1, <1>2

LEMMA PostsEntry ==
    ASSUME LedgerInv, TypeOK', Next, NEW w \in Workers, Commits(w)
    PROVE  \E m \in Movements : Ledger!Post(m)
<1>1. PICK m \in Movements :
        /\ ~IsPosted(m) /\ IsPosted(m)'
        /\ movement'[m].header = doc[w].header /\ movement'[m].lines = doc[w].lines
        /\ \A x \in Movements \ {m} : IsPosted(x)' => IsPosted(x)
  BY CommitsRow
<1>2. doc[w] \in Movement
  BY CommitsDoc
<1>3. \A c : Effect(movement'[m], c) = Effect(doc[w], c)
  BY <1>1, SameEffect
<1> DEFINE E == [c \in Cells |-> Effect(doc[w], c)]
<1>4. EntryOf(m) = None /\ EntryOf(m)' = E
  <2>1. EntryOf(m)' = [c \in Cells |-> Effect(movement'[m], c)]
    BY <1>1 DEF EntryOf
  <2> QED BY <1>1, <1>3, <2>1 DEF EntryOf
<1>5. E # None
  <2>1. E \in [Cells -> Int]
    BY <1>2, EffectTyped
  <2> HIDE DEF E
  <2> QED BY <2>1, NullAssumption
<1>6. \A x \in Movements \ {m} : EntryOf(x)' = EntryOf(x)
  BY <1>1, EntryStays
<1>7. \A c \in Cells : OnHand(c)' = OnHand(c) + E[c]
  BY CommitsStock
<1>8. \A c \in Cells : OnHand(c)' \in Nat
  BY NoneAssumption DEF TypeOK, OnHand, Or
<1> HIDE DEF E
<1> DEFINE L == [x \in Movements |-> EntryOf(x)]
           H == [c \in Cells |-> OnHand(c)]
<1>9. L[m] = None /\ L'[m] # None /\ L' = [L EXCEPT ![m] = L'[m]]
  <2>1. L' = [x \in Movements |-> EntryOf(x)']
    OBVIOUS
  <2>2. L[m] = None /\ L'[m] = EntryOf(m)' /\ EntryOf(m)' # None
    BY <1>4, <1>5, <2>1
  <2>3. ASSUME NEW x \in Movements PROVE L'[x] = [L EXCEPT ![m] = L'[m]][x]
    BY <1>6, <2>1
  <2> HIDE DEF L
  <2>4. DOMAIN L = Movements /\ L = [x \in Movements |-> L[x]]
    BY DEF L
  <2>5. L' = [x \in Movements |-> L'[x]]
    BY DEF L
  <2> QED BY <2>2, <2>3, <2>4, <2>5
<1>10. H' = [c \in Cells |-> H[c] + L'[m][c]] /\ \A c \in Cells : H'[c] >= 0
  BY <1>4, <1>7, <1>8
<1>11. Ledger!Post(m)
  BY <1>9, <1>10 DEF Ledger!Post, EntryOf
<1> QED BY <1>11

LEMMA NextRefinesLedger ==
    ASSUME LedgerInv, TypeOK', [Next]_vars
    PROVE  Ledger!Next \/ UNCHANGED Ledger!vars
<1>1. CASE UNCHANGED vars
  BY <1>1 DEF vars, rows, Ledger!vars, IsPosted, Exists, OnHand
<1>2. CASE Next /\ \E w \in Workers : Commits(w)
  BY <1>2, PostsEntry DEF Ledger!Next
<1>3. CASE Next /\ ~\E w \in Workers : Commits(w)
  <2>1. UNCHANGED stock
    <3>1. Inv
      BY DEF LedgerInv
    <3> QED BY <1>3, <3>1, StepKinds, BeginsApart, GoesApart DEF rows
  <2>2. \A m \in Movements : EntryOf(m)' = EntryOf(m)
    <3>1. \A m \in Movements : IsPosted(m)' => IsPosted(m)
      BY <1>3, Posts DEF Commits, LedgerInv
    <3> QED BY <1>3, <3>1, EntryStays
  <2>3. \A c \in Cells : OnHand(c)' = OnHand(c)
    BY <2>1 DEF OnHand
  <2>4. [m \in Movements |-> EntryOf(m)]' = [m \in Movements |-> EntryOf(m)]
    BY <2>2
  <2>5. [c \in Cells |-> OnHand(c)]' = [c \in Cells |-> OnHand(c)]
    BY <2>3
  <2> QED BY <2>4, <2>5 DEF Ledger!vars, EntryOf
<1> QED BY <1>1, <1>2, <1>3

LEMMA LedgerInvKept ==
    ASSUME LedgerInv, PostingsApart, [Next]_vars
    PROVE  LedgerInv'
<1>0. Inv'
  BY NextKeepsInv DEF LedgerInv
<1>1. CASE UNCHANGED vars
  <2>1. UNCHANGED <<stock, movement, op, at, target, doc, next, seen, wrote>>
    BY <1>1 DEF vars, rows, request
  <2>2. PostedAlone' /\ \A w \in Workers : HeldDocument(w)'
    BY <2>1 DEF LedgerInv, PostedAlone, IsPosted, Exists, HeldDocument
  <2>3. ASSUME NEW w \in Workers PROVE PostingAt(w)'
    <3>1. SameRequest(w)
      BY <1>1 DEF SameRequest, vars, request
    <3> QED BY <2>1, <3>1, PostingStays
  <2> QED BY <1>0, <2>2, <2>3 DEF LedgerInv
<1>2. CASE Next
  BY <1>0, <1>2, PostedAloneKept, HeldKept, PostingKept DEF LedgerInv
<1> QED BY <1>1, <1>2

\* The posted movements and the stock implement the ledger: a movement is
\* posted once, whole, and the stock moves by its entry at that moment only,
\* for any movements, lines and workers, if a movement that is processed is
\* written by nobody else meanwhile and no two requests post to one stock row.
THEOREM ImplementsLedgerWhenApart ==
    Spec /\ []PostingsApart => ImplementsLedger
<1>1. Init => LedgerInv
  <2> SUFFICES ASSUME Init PROVE LedgerInv
    OBVIOUS
  <2>1. Inv
    BY InitInv
  <2> QED BY <2>1 DEF LedgerInv, Init, PostedAlone, IsPosted, Exists, HeldDocument,
         PostingAt
<1>2. LedgerInv /\ PostingsApart /\ [Next]_vars => LedgerInv'
  BY LedgerInvKept
<1>3. Init => Ledger!Init
  BY DEF Init, Ledger!Init, IsPosted, Exists, OnHand, Or
<1>4. LedgerInv => TypeOK
  BY DEF LedgerInv, Inv
<1>5. LedgerInv /\ TypeOK' /\ [Next]_vars => [Ledger!Next]_(Ledger!vars)
  BY NextRefinesLedger
<1> QED BY <1>1, <1>2, <1>3, <1>4, <1>5, PTL DEF Spec, ImplementsLedger, Ledger!Spec
=============================================================================
