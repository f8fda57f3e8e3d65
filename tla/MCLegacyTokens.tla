--------------------------- MODULE MCLegacyTokens ---------------------------
(***************************************************************************)
(* Instances of LegacyTokens for TLC.                                      *)
(***************************************************************************)
EXTENDS LegacyTokensProps, TLC

CONSTANTS t1, t2, t3, t4, w1, w2

Symmetry == Permutations(Tokens) \cup Permutations(Workers)
=============================================================================
