--------------------------- MODULE InventoryProps ---------------------------
(***************************************************************************)
(* Correctness of the inventory operations.                                *)
(***************************************************************************)
EXTENDS Inventory, FiniteSetsExt

IsPosted(m) == Exists(m) /\ movement[m].estado \in {"procesado", "estornado"}

\* What posting k of movement d adds to cell c, what its first k postings
\* add, and what the movement adds.
Adds(d, c, k) ==
    IF LineOf(d, k).qty # 0 /\ CellOf(d, k) = c THEN DeltaOf(d, k) ELSE 0

Running(d, c) ==
    LET upTo[k \in 0..PostingCount(d)] ==
          IF k = 0 THEN 0 ELSE upTo[k - 1] + Adds(d, c, k)
    IN  upTo

Effect(d, c) == Running(d, c)[PostingCount(d)]

OnHand(c) == Or(stock[c], 0)

\* INV_FRONTEND_CONSUMPTION_RC1.md: inv_stock is derived, it changes when a
\* movement is processed and at no other time.  The stock of every product
\* in every warehouse is the sum of the movements that were processed.
StockIsDerived ==
    \A c \in Cells :
        OnHand(c) = MapThenSumSet(LAMBDA m : IF IsPosted(m)
                                             THEN Effect(movement[m], c) ELSE 0,
                                  Movements)

\* The movements estornar made for m.
CompensationsOf(m) ==
    {n \in Movements : /\ Exists(n) /\ movement[n].maker = "estornar"
                       /\ movement[n].header.ref = m}

\* INV_IMPLEMENTACION_P0-003.md 6.3, "double compensation": however many
\* requests estorno a movement at once, and even if a late autorizar has
\* made it processable again, it is compensated once.
OneCompensation ==
    \A m \in Movements : \A n1, n2 \in CompensationsOf(m) : n1 = n2

\* The same section, "original estornado without processed compensation":
\* nothing that races with an estorno can take its counterpart away.
EstornadoIsCompensated ==
    \A m \in Movements :
        Exists(m) /\ movement[m].estado = "estornado" =>
            \E n \in CompensationsOf(m) : IsPosted(n)

\* A reversal gives back exactly what its original had moved, for every kind
\* of movement and pair of warehouses.
EstornoIsInverse ==
    \A m \in Movements : \A n \in CompensationsOf(m), c \in Cells :
        Effect(movement[n], c) = - Effect(movement[m], c)

\* An adjusted count names the movement that adjusted it; that movement was
\* posted for this count and can no longer be reversed.
AdjustedCountIsPosted ==
    \A c \in Counts :
        conteo[c] # None /\ conteo[c].estado = "ajustado" =>
            LET m == conteo[c].ajuste
            IN  m # None /\ Exists(m) /\ movement[m].estado = "procesado"
                /\ movement[m].header.ref = c

\* A count adjusts the stock once.
OneAdjustmentPerCount ==
    \A c \in Counts : \A m1, m2 \in Movements :
        (/\ Exists(m1) /\ movement[m1].maker = "aprobar" /\ movement[m1].header.ref = c
         /\ Exists(m2) /\ movement[m2].maker = "aprobar" /\ movement[m2].header.ref = c)
        => m1 = m2

-----------------------------------------------------------------------------
(***************************************************************************)
(* The posted movements and the stock implement the ledger.                *)
(***************************************************************************)
Ledger == INSTANCE StockLedger WITH
    NoEntry <- None,
    ledger <- [m \in Movements |->
                IF IsPosted(m) THEN [c \in Cells |-> Effect(movement[m], c)]
                ELSE None],
    onHand <- [c \in Cells |-> OnHand(c)]

ImplementsLedger == Ledger!Spec

-----------------------------------------------------------------------------
(***************************************************************************)
(* Requests that meet can break OneAdjustmentPerCount, EstornoIsInverse    *)
(* and ImplementsLedger.  These are the meetings that have to be excluded. *)
(***************************************************************************)
\* Approving a count does not meet another approval of it, or a request to
\* finalise it that read it before.
ApprovalsApart ==
    \A w, q \in Workers :
        w # q /\ op[w] = "aprobar" /\ op[q] \in {"aprobar", "finalizar"}
        => target[w] # target[q]

\* Processing a movement does not meet an edit of it.
EditsApart ==
    \A w, q \in Workers :
        op[w] = "procesar" /\ op[q] \in {"editar", "linea"} => target[w] # target[q]

\* The stock rows a request posts to.
CellsOf(w) ==
    {CellOf(doc[w], k) : k \in {i \in 1..PostingCount(doc[w]) : LineOf(doc[w], i).qty # 0}}

\* Processing a movement meets no other request that writes it, and no two
\* requests post to the same stock row.
PostingsApart ==
    \A w, q \in Workers : w # q =>
        /\ op[w] = "procesar" /\ op[q] \in {"procesar", "autorizar", "anular",
                                           "editar", "linea"}
           => target[w] # target[q]
        /\ at[w] \in {"post", "store"} /\ at[q] \in {"post", "store"}
           => CellsOf(w) \cap CellsOf(q) = {}

-----------------------------------------------------------------------------
(***************************************************************************)
(* Progress: SQL Server grants a row lock in the order it was asked for,   *)
(* and its lock monitor eventually breaks a wait cycle.                    *)
(***************************************************************************)
Fairness == \A w \in Workers : SF_vars(Step(w)) /\ WF_vars(DeadlockVictim(w))

FairSpec == Spec /\ Fairness

\* Every request ends, though transfers lock warehouses in both orders and
\* estornos, approvals and edits wait for each other's rows.
RequestsEnd == \A w \in Workers : op[w] # "none" ~> op[w] = "none"
=============================================================================
