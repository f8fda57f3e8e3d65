----------------------------- MODULE Documents -----------------------------
(***************************************************************************)
(* One business document and the requests that move it, for every document *)
(* type of DocumentCatalogue.                                              *)
(*                                                                         *)
(* Every service works alike: it reads the document, decides on what it    *)
(* read, and sends one UPDATE in a transaction of its own (UnitOfWork or   *)
(* execute_update).  Nothing is held between the two, so requests          *)
(* interleave there; a process may stop, or an answer be lost, anywhere.   *)
(***************************************************************************)
EXTENDS FiniteSets

CONSTANTS
    Types,       \* the types: a function from names to records (see WellFormed)
    SendEstado,  \* the types whose clients put estado in the body of a PUT
    Workers,     \* concurrent requests
    None

\* A type is well formed: its operations stay among its estados.
WellFormed(t) ==
    /\ DOMAIN t = {"states", "created", "inicial", "put", "putWhere", "lines", "ops",
                   "reads"}
    /\ t.created \subseteq t.states /\ t.lines.in \subseteq t.states
    /\ t.inicial \subseteq t.created
    /\ {"put", "line"} \cap DOMAIN t.ops = {}
    /\ \A s \in DOMAIN t.put : s \in t.states /\ t.put[s] \subseteq t.states
    /\ \A n \in DOMAIN t.ops :
         /\ t.ops[n].to \in t.states
         /\ t.ops[n].done \subseteq {t.ops[n].to}
         /\ t.ops[n].miss \in {"refused", "row", "reread"}

ASSUME TypesAssumption == \A n \in DOMAIN Types : WellFormed(Types[n])
ASSUME NoneAssumption ==
    \A n \in DOMAIN Types :
        None \notin Types[n].states \cup DOMAIN Types[n].ops \cup {"put", "line"}

VARIABLES
    tipo,       \* the document's type
    estado,     \* its column estado
    contenido,  \* the rest of the row and its lines: it alternates with an edit
    op,         \* the transition, "put" or "line", a worker performs
    read,       \* the estado the worker has read
    told,       \* what its client was last answered
    visited     \* every estado the document has been in (history)

document == <<tipo, estado, contenido, visited>>
vars == <<document, op, read, told>>

T == Types[tipo]
Op(o) == T.ops[o]

\* "row": the document as it is, which may not be what was asked for;
\* "lost": an answer that does not tell whether the UPDATE was made.
Answers == {"none", "ok", "row", "no", "lost"}

TypeOK ==
    /\ tipo \in DOMAIN Types
    /\ estado \in T.states
    /\ contenido \in BOOLEAN
    /\ op \in [Workers -> DOMAIN T.ops \cup {"put", "line", None}]
    /\ read \in [Workers -> T.states \cup {None}]
    /\ told \in [Workers -> Answers]
    /\ visited \subseteq T.states

Init ==
    /\ tipo \in DOMAIN Types
    /\ estado \in T.created
    /\ contenido = FALSE
    /\ op = [w \in Workers |-> None]
    /\ read = [w \in Workers |-> None]
    /\ told = [w \in Workers |-> "none"]
    /\ visited = {estado}

Answer(w, a) ==
    /\ op' = [op EXCEPT ![w] = None]
    /\ read' = [read EXCEPT ![w] = None]
    /\ told' = [told EXCEPT ![w] = a]

\* (Faulty: the UPDATE names the row only.)
FindsAlways(where) == TRUE

\* An UPDATE that repeats estados finds the row only in one of them.
Finds(where) == where = {} \/ estado \in where

-----------------------------------------------------------------------------
(***************************************************************************)
(* Transition endpoints.                                                   *)
(***************************************************************************)
\* (Faulty: the estado read is not looked at.)
BeginUnread(w, o) ==
    /\ op' = [op EXCEPT ![w] = o]
    /\ read' = [read EXCEPT ![w] = estado]
    /\ told' = [told EXCEPT ![w] = "none"]
    /\ UNCHANGED document

Begin(w, o) ==
    /\ estado \in Op(o).from
    /\ op' = [op EXCEPT ![w] = o]
    /\ read' = [read EXCEPT ![w] = estado]
    /\ told' = [told EXCEPT ![w] = "none"]
    /\ UNCHANGED document

\* The document is in the target estado already.
Confirm(w, o) ==
    /\ estado \in Op(o).done
    /\ Answer(w, "ok")
    /\ UNCHANGED document

\* The estado read, or another check of the request, does not allow it.
Reject(w) == Answer(w, "no") /\ UNCHANGED document

Move(w) ==
    /\ op[w] \notin {"put", "line"}
    /\ Finds(Op(op[w]).where)
    /\ estado' = Op(op[w]).to
    /\ visited' = visited \cup {estado'}
    /\ \E a \in {"lost", IF Op(op[w]).miss = "row" THEN "row" ELSE "ok"} : Answer(w, a)
    /\ UNCHANGED <<tipo, contenido>>

Miss(w) ==
    /\ op[w] \notin {"put", "line"}
    /\ ~Finds(Op(op[w]).where)
    /\ Answer(w, CASE Op(op[w]).miss = "row" -> "row"
                   [] Op(op[w]).miss = "reread" /\ estado = Op(op[w]).to -> "ok"
                   [] OTHER -> "no")
    /\ UNCHANGED document

-----------------------------------------------------------------------------
(***************************************************************************)
(* PUT: edits the row, and may write an estado with it.                    *)
(***************************************************************************)
BeginPut(w) ==
    /\ estado \in DOMAIN T.put
    /\ op' = [op EXCEPT ![w] = "put"]
    /\ read' = [read EXCEPT ![w] = estado]
    /\ told' = [told EXCEPT ![w] = "none"]
    /\ UNCHANGED document

\* (Faulty: an estado left out of the body is written as NULL.)
WrittenNull(w) == T.put[read[w]] \cup {None}

\* The estados an accepted PUT writes.
Written(w) == IF tipo \in SendEstado THEN T.put[read[w]] ELSE {}

Edit(w) ==
    /\ op[w] = "put"
    /\ Finds(T.putWhere)
    /\ contenido' = ~contenido
    /\ estado' \in {estado} \cup Written(w)
    /\ visited' = visited \cup {estado'}
    /\ \E a \in {"ok", "lost"} : Answer(w, a)
    /\ UNCHANGED tipo

MissEdit(w) ==
    /\ op[w] = "put"
    /\ ~Finds(T.putWhere)
    /\ Answer(w, "no")
    /\ UNCHANGED document

-----------------------------------------------------------------------------
(***************************************************************************)
(* Lines: the endpoints read the document, and write the line by its own   *)
(* key.                                                                    *)
(***************************************************************************)
BeginLine(w) ==
    /\ estado \in T.lines.in
    /\ op' = [op EXCEPT ![w] = "line"]
    /\ read' = [read EXCEPT ![w] = estado]
    /\ told' = [told EXCEPT ![w] = "none"]
    /\ UNCHANGED document

WriteLine(w) ==
    /\ contenido' = ~contenido
    /\ \E a \in {"ok", "lost"} : Answer(w, a)
    /\ UNCHANGED <<tipo, estado, visited>>

EditLine(w) == op[w] = "line" /\ WriteLine(w)

\* A line leaves this document for another, or comes from another, and it is
\* the other one whose estado was read.
TakeLine(w) == T.lines.loose /\ WriteLine(w)

-----------------------------------------------------------------------------
\* The reading endpoints.
Look(w) ==
    /\ \E o \in DOMAIN T.reads :
          Answer(w, IF Finds(T.reads[o]) THEN "row" ELSE "no")
    /\ UNCHANGED document

\* The process stops, or the statement fails, before the UPDATE.
Fail(w) == \E a \in {"no", "lost"} : Answer(w, a) /\ UNCHANGED document

Start(w) ==
    /\ op[w] = None
    /\ \/ \E o \in DOMAIN T.ops : Begin(w, o) \/ Confirm(w, o)
       \/ BeginPut(w)
       \/ BeginLine(w)
       \/ TakeLine(w)
       \/ Reject(w)
       \/ Look(w)

Continue(w) ==
    /\ op[w] # None
    /\ Move(w) \/ Miss(w) \/ Edit(w) \/ MissEdit(w) \/ EditLine(w) \/ Fail(w)

Next == \E w \in Workers : Start(w) \/ Continue(w)

Spec == Init /\ [][Next]_vars
=============================================================================
