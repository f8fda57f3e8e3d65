----------------------------- MODULE LifeCycle -----------------------------
(***************************************************************************)
(* What the transition endpoints promise: a document that serves one       *)
(* request at a time.  A request answered "ok" was performed at one moment *)
(* between its start and its answer; a request answered "no" changed       *)
(* nothing.  A transition whose UPDATE repeats the source estado leaves    *)
(* that very estado; any other may be late, and all that is left of its    *)
(* guard is that the document has been in a source estado.                 *)
(***************************************************************************)
CONSTANTS Types, SendEstado, Workers

VARIABLES tipo, estado, contenido, visited, told

T == Types[tipo]
document == <<tipo, estado, contenido, visited>>

Init ==
    /\ tipo \in DOMAIN Types
    /\ estado \in T.created
    /\ contenido = FALSE
    /\ visited = {estado}
    /\ told = [w \in Workers |-> "none"]

May(from, where) == IF where = {} THEN from \cap visited # {} ELSE estado \in where

Tell(w, answers) == \E a \in answers : told' = [told EXCEPT ![w] = a]

Ask(w) == Tell(w, {"none"}) /\ UNCHANGED document
Turn(w) == Tell(w, {"no", "lost", "row"}) /\ UNCHANGED document

\* A second request for what has been done.
Confirm(w) ==
    /\ \E o \in DOMAIN T.ops : estado = T.ops[o].to
    /\ Tell(w, {"ok"})
    /\ UNCHANGED document

Move(w) ==
    /\ \E o \in DOMAIN T.ops :
         /\ May(T.ops[o].from, T.ops[o].where)
         /\ estado' = T.ops[o].to
    /\ visited' = visited \cup {estado'}
    /\ Tell(w, {"ok", "lost", "row"})
    /\ UNCHANGED <<tipo, contenido>>

Edit(w) ==
    /\ May(DOMAIN T.put, T.putWhere)
    /\ contenido' = ~contenido
    /\ \/ estado' = estado
       \/ tipo \in SendEstado /\ \E s \in visited \cap DOMAIN T.put : estado' \in T.put[s]
    /\ visited' = visited \cup {estado'}
    /\ Tell(w, {"ok", "lost"})
    /\ UNCHANGED tipo

\* A line may change late, and where it may be moved between documents, ever.
EditLines(w) ==
    /\ T.lines.loose \/ May(T.lines.in, {})
    /\ contenido' = ~contenido
    /\ Tell(w, {"ok", "lost"})
    /\ UNCHANGED <<tipo, estado, visited>>

Next ==
    \E w \in Workers :
        Ask(w) \/ Turn(w) \/ Confirm(w) \/ Move(w) \/ Edit(w) \/ EditLines(w)

Spec == Init /\ [][Next]_<<document, told>>
=============================================================================
