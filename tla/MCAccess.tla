------------------------------ MODULE MCAccess ------------------------------
(***************************************************************************)
(* Instances of Access for TLC.                                            *)
(***************************************************************************)
EXTENDS AccessProps

CONSTANTS u1, r1, p2, m1, e1, k1, k2, w1, w2

\* Each worker in a process of its own; p2 belongs to the module m1.
OneEach == [w \in Workers |-> IF w = w1 THEN k1 ELSE k2]
SecondInModule == [p \in Permisos |-> IF p = p2 THEN m1 ELSE None]

\* In the shared database w1 serves every kind of request, w2 looks up and
\* replaces permissions, and the role is switched on and off.  For a tenant
\* with its own w1 changes and w2 looks up, with and without the filter, and
\* the catalogue changes.
ByKind(shared, own) == [d \in BOOLEAN |-> IF d THEN own ELSE shared]
ToEach(first, second) == [w \in Workers |-> IF w = w1 THEN first ELSE second]
Served ==
    ByKind(ToEach({"consultas", "permisos", "asignaciones", "usuarios", "modulos"},
                  {"consultas", "permisos"}),
           ToEach({"permisos", "asignaciones"}, {"consultas"}))
Filters == ByKind({FALSE}, BOOLEAN)
Switched == ByKind({r1}, {p2, m1})
=============================================================================
