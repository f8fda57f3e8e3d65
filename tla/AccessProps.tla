---------------------------- MODULE AccessProps ----------------------------
(***************************************************************************)
(* Correctness of authorization.                                           *)
(***************************************************************************)
EXTENDS Access

\* Read l gave X: it would have given X at some moment at most d ago, or it
\* failed, or it gave nothing.
Visto(l, u, e, X, d) == X \in {{}, TrasError(l)} \/ since[u][e][l][X] <= d

\* C is what the reads L gave together: the permissions in every result.
Leida(u, e, L, C, d) ==
    \E X \in [L -> SUBSET Permisos] :
        /\ \A l \in L : Visto(l, u, e, X[l], d)
        /\ C = {p \in Permisos : \A l \in L : p \in X[l]}

Reciente(u, e, C, d) == \E f \in Filtros[dedicada] : Leida(u, e, Lecturas(f), C, d)

\* Every answer of the resolver that grants something is what its reads gave,
\* each at a moment of the last TTL + MaxFill.  In the shared database that is
\* exactly what was granted at one moment.  For a tenant with its own it is
\* what the roles granted at one moment, limited to what the catalogue and the
\* contracts allowed at another; a filter by subscription has a moment of its
\* own.  So it is on every process, whatever is cached, invalidated, or stored
\* after an invalidation.  (An entry cached for a call without the filter is
\* also given to one with it.)
AnswersAreRecent ==
    told # None => Reciente(told.usr, told.emp, told.codes, TTL + MaxFill)

\* set_permisos_negocio_rol "Reemplaza los permisos de negocio": a permission
\* that a role had before the last DELETE is not there any more, unless a
\* call still running at that moment asks for it.
OnlyAskedFor == \A r \in Roles : permisos[r] \subseteq pedido[r]
=============================================================================
