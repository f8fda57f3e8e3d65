--------------------------- MODULE MCPermissionSync ---------------------------
(***************************************************************************)
(* Instances of PermissionSync for TLC.                                    *)
(***************************************************************************)
EXTENDS PermissionSync, TLC

CONSTANTS acceder, leer, crear, INV, p1, p2

\* core.app.acceder belongs to no module, the codes of the inventory do.
MCModuloDe == [k \in Codigos |-> IF k = acceder THEN Ninguno ELSE INV]
\* One version adds an endpoint, the next one drops another.
MCVersiones == {{acceder, leer}, {acceder, leer, crear}, {acceder, crear}}

Symmetry == Permutations(Procesos)
===============================================================================
