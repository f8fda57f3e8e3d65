-------------------------- MODULE MCSessionService --------------------------
(***************************************************************************)
(* Instances of SessionService for TLC: one user.                          *)
(***************************************************************************)
EXTENDS SessionServiceProps, TLC

CONSTANTS u1, s1, s2, s3, t1, t2, t3, t4, r1, r2

OneOwner == [s \in Sessions |-> u1]

AllOperations == OperationNames

Symmetry == Permutations(Sessions) \cup Permutations(Tokens)
              \cup Permutations(Requests)
=============================================================================
