---------------------------- MODULE StockLedger ----------------------------
(***************************************************************************)
(* What the inventory promises: stock is derived from a ledger.  A         *)
(* movement is posted at most once, with all its lines or none; its entry  *)
(* is never changed afterwards; the stock moves by exactly that entry, at  *)
(* that moment and at no other, and is never negative.                     *)
(***************************************************************************)
EXTENDS Integers

CONSTANTS Movements, Cells, NoEntry

VARIABLES
    ledger,   \* the entry of each posted movement: what it adds to each cell
    onHand    \* the stock of each cell

vars == <<ledger, onHand>>

Init ==
    /\ ledger = [m \in Movements |-> NoEntry]
    /\ onHand = [c \in Cells |-> 0]

Post(m) ==
    /\ ledger[m] = NoEntry /\ ledger'[m] # NoEntry
    /\ ledger' = [ledger EXCEPT ![m] = ledger'[m]]
    /\ onHand' = [c \in Cells |-> onHand[c] + ledger'[m][c]]
    /\ \A c \in Cells : onHand'[c] >= 0

Next == \E m \in Movements : Post(m)

Spec == Init /\ [][Next]_vars
=============================================================================
