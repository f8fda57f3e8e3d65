-------------------------- MODULE TenantGrantsProps --------------------------
(***************************************************************************)
(* What provisioning promises.                                             *)
(***************************************************************************)
EXTENDS TenantGrants

\* Codes that have been active, in module m, since worker w began.
Firmes(w, m) == {k \in Codigos : <<k, m>> \in firme[w].parejas}

\* What the owner and the two operative roles of a tenant must hold.
Completo(w, c, filas, dados) ==
    /\ \A m \in Plan : filas[m] # "no" /\ Firmes(w, m) \subseteq dados["ADMIN"]
    /\ Globales \cap Firmes(w, Ninguno) \subseteq dados["ADMIN"]
    /\ \A r \in Operativos : Base \cap firme[w].codigos \subseteq dados[r]

\* cliente_onboarding_service.py:2 "rollback completo si falla": a tenant
\* appears with its modules, its owner's permissions and the base of the
\* operative roles, or not at all, whatever processes did to the catalogue in
\* between; so does a tenant that is told repaired.
TenantsAreComplete ==
    [][\A w \in Workers :
         LET c == T(w).cliente IN
         \/ T(w).op = "alta" /\ c \in clientes' \ clientes
         \/ T(w).op = "reparar" /\ tarea'[w] = Libre /\ told'[w] = "ok"
         => Completo(w, c, contrato'[c], grants'[c])]_vars

\* A standard role that was assigned with success holds its base.
AssignedRolesHaveBase ==
    [][\A w \in Workers :
         T(w).op = "asegurar" /\ tarea'[w] = Libre /\ told'[w] = "ok"
         => Base \cap firme[w].codigos \subseteq grants'[T(w).cliente][T(w).rol]]_vars
=============================================================================
