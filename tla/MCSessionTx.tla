---------------------------- MODULE MCSessionTx ----------------------------
(***************************************************************************)
(* Instances of SessionTx for TLC.  All sessions belong to one user unless *)
(* a configuration says otherwise.                                         *)
(***************************************************************************)
EXTENDS SessionTxProps, TLC

CONSTANTS u1, s1, s2, t1, t2, t3, t4, w1, w2, w3

OneOwner == [s \in Sessions |-> u1]

AllOperations == OperationNames

Symmetry == Permutations(Sessions) \cup Permutations(Tokens)
              \cup Permutations(Workers)
=============================================================================
