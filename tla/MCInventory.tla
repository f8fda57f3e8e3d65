---------------------------- MODULE MCInventory ----------------------------
(***************************************************************************)
(* Instances of Inventory for TLC.                                         *)
(***************************************************************************)
EXTENDS InventoryProps, TLC

CONSTANTS a, b, p, q, m1, m2, m3, m4, c1, w1, w2

H(clase, origen, destino, costed, requires, kind, ref) ==
    [clase |-> clase, origen |-> origen, destino |-> destino, costed |-> costed,
     requires |-> requires, refKind |-> kind, ref |-> ref]

L(qty, priced) == [product |-> p, qty |-> qty, priced |-> priced]
Receive(x, y) == <<[product |-> x, qty |-> 1, priced |-> TRUE],
                   [product |-> y, qty |-> 1, priced |-> TRUE]>>
C(sistema, contada) == [product |-> p, sistema |-> sistema, contada |-> contada,
                        priced |-> TRUE]

RaceHeaders == {H("entrada", None, a, FALSE, FALSE, "none", None)}
\* Every kind of movement, costed and not, with and without authorisation,
\* with one warehouse and with two.
AllHeaders ==
    {H("entrada", None, a, TRUE, FALSE, "none", None),
     H("salida", a, b, TRUE, TRUE, "none", None),
     H("transferencia", a, b, TRUE, FALSE, "none", None),
     H("ajuste", a, b, FALSE, FALSE, "none", None)}

BothLines == {Receive(p, q)}
\* Counted in the other order, so that approving and processing can deadlock.
CrossedSheet ==
    {<<[product |-> q, sistema |-> 0, contada |-> 1, priced |-> TRUE],
       [product |-> p, sistema |-> 0, contada |-> 1, priced |-> TRUE]>>}
OneLine == {<<L(1, TRUE)>>}
MixedLines == {<<>>, <<L(1, TRUE)>>, <<L(-1, TRUE)>>}
OneSheet == {<<C(0, 1)>>}
Sheets == {<<C(1, 1), C(0, 2)>>}

AllOperations == OperationNames
PostingOperations == {"procesar", "estornar", "autorizar", "aprobar",
                      "finalizar"}

Symmetry == Permutations(Movements) \cup Permutations(Workers)
=============================================================================
