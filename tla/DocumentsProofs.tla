--------------------------- MODULE DocumentsProofs ---------------------------
(***************************************************************************)
(* Theorems about Documents, for every table of document types that is     *)
(* well formed and respects the order of its estados, and for any number   *)
(* of concurrent requests.                                                 *)
(***************************************************************************)
EXTENDS DocumentsProps, TLAPS

\* What a request has read is no longer true, but it was: the estado it read
\* is one the document has been in, and one its operation starts from.
WorkerOK(w) ==
    /\ op[w] \notin {None, "put", "line"} =>
         read[w] \in visited /\ read[w] \in Op(op[w]).from
    /\ op[w] = "put" => read[w] \in visited /\ read[w] \in DOMAIN T.put
    /\ op[w] = "line" => read[w] \in visited /\ read[w] \in T.lines.in

Inv ==
    /\ TypeOK
    /\ estado \in visited
    /\ \A w \in Workers : WorkerOK(w)
    /\ NothingIsSkipped

-----------------------------------------------------------------------------
(***************************************************************************)
(* The table of the document's type.                                       *)
(***************************************************************************)
LEMMA TypeFacts ==
    ASSUME tipo \in DOMAIN Types
    PROVE  /\ T.created \subseteq T.states
           /\ \A s \in DOMAIN T.put : s \in T.states /\ T.put[s] \subseteq T.states
           /\ \A o \in DOMAIN T.ops : /\ Op(o).to \in T.states
                                      /\ Op(o).done \subseteq {Op(o).to}
           /\ None \notin T.states /\ None \notin DOMAIN T.ops
           /\ None # "put" /\ None # "line"
           /\ "put" \notin DOMAIN T.ops /\ "line" \notin DOMAIN T.ops
  BY TypesAssumption, NoneAssumption DEF WellFormed, T, Op

LEMMA OrderFacts ==
    ASSUME tipo \in DOMAIN Types, tipo \in DOMAIN ComesFirst
    PROVE  Ordered(tipo)
  BY OrderAssumption

\* A transition enters p[2] from an estado of its Sources, all After p[1].
LEMMA MoveKeepsOrder ==
    ASSUME tipo \in DOMAIN Types, tipo \in DOMAIN ComesFirst,
           NEW o \in DOMAIN T.ops, NEW s \in Sources(Op(o)), s \in visited,
           NothingIsSkipped,
           First[tipo] \in visited \cup {Op(o).to},
           NEW p \in ComesFirst[tipo], p[2] \in visited \cup {Op(o).to}
    PROVE  p[1] \in visited
<1>1. Ordered(tipo)
  BY OrderFacts
<1>2. /\ Op(o).to # First[tipo]
      /\ Op(o).to = p[2] => After(tipo, p[1], s)
  BY <1>1 DEF Ordered, T, Op
<1>3. First[tipo] \in visited
  BY <1>2
<1>4. CASE p[2] \in visited
  BY <1>3, <1>4 DEF NothingIsSkipped
<1>5. CASE Op(o).to = p[2]
  <2>1. CASE s = p[1]
    BY <2>1
  <2>2. CASE <<p[1], s>> \in ComesFirst[tipo]
    <3>1. <<p[1], s>>[1] = p[1] /\ <<p[1], s>>[2] = s
      OBVIOUS
    <3>2. \A q \in ComesFirst[tipo] : q[2] \in visited => q[1] \in visited
      BY <1>3 DEF NothingIsSkipped
    <3> QED BY <2>2, <3>1, <3>2
  <2> QED BY <1>2, <1>5, <2>1, <2>2 DEF After
<1> QED BY <1>4, <1>5

\* A PUT enters p[2] from p[2] itself, or from an estado After p[1].
LEMMA PutKeepsOrder ==
    ASSUME tipo \in DOMAIN Types, tipo \in DOMAIN ComesFirst,
           NEW s \in DOMAIN T.put, s \in visited, NEW t \in T.put[s],
           NothingIsSkipped,
           First[tipo] \in visited \cup {t},
           NEW p \in ComesFirst[tipo], p[2] \in visited \cup {t}
    PROVE  p[1] \in visited
<1>1. Ordered(tipo)
  BY OrderFacts
<1>2. /\ First[tipo] = t => s = First[tipo]
      /\ p[2] = t => s = p[2] \/ After(tipo, p[1], s)
  BY <1>1 DEF Ordered, T
<1>3. First[tipo] \in visited
  BY <1>2
<1>4. CASE p[2] \in visited
  BY <1>3, <1>4 DEF NothingIsSkipped
<1>5. CASE t = p[2] /\ p[2] \notin visited
  <2>1. CASE s = p[1]
    BY <2>1
  <2>2. CASE <<p[1], s>> \in ComesFirst[tipo]
    <3>1. <<p[1], s>>[1] = p[1] /\ <<p[1], s>>[2] = s
      OBVIOUS
    <3>2. \A q \in ComesFirst[tipo] : q[2] \in visited => q[1] \in visited
      BY <1>3 DEF NothingIsSkipped
    <3> QED BY <2>2, <3>1, <3>2
  <2> QED BY <1>2, <1>5, <2>1, <2>2 DEF After
<1> QED BY <1>4, <1>5

-----------------------------------------------------------------------------
(***************************************************************************)
(* The inductive invariant.                                                *)
(***************************************************************************)
LEMMA InitInv == Init => Inv
<1> SUFFICES ASSUME Init PROVE Inv
  OBVIOUS
<1>1. /\ None \notin T.states /\ None # "put" /\ None # "line" /\ T.created \subseteq T.states
  BY TypeFacts DEF Init
<1>2. TypeOK
  BY <1>1 DEF Init, TypeOK, Answers
<1>3. NothingIsSkipped
  <2> SUFFICES ASSUME tipo \in DOMAIN ComesFirst, First[tipo] \in visited,
                      NEW p \in ComesFirst[tipo], p[2] \in visited
               PROVE  FALSE
    BY DEF NothingIsSkipped
  <2>1. Ordered(tipo)
    BY OrderFacts DEF Init
  <2>2. p[2] # First[tipo]
    BY <2>1 DEF Ordered
  <2> QED BY <2>2 DEF Init
<1> QED BY <1>1, <1>2, <1>3 DEF Inv, Init, WorkerOK

\* An answer frees the worker; the others keep what they read.
LEMMA AnswerKeepsInv ==
    ASSUME Inv, NEW w \in Workers, NEW a \in Answers, Answer(w, a),
           tipo' = tipo, estado' \in T.states, visited' = visited \cup {estado'},
           contenido' \in BOOLEAN, NothingIsSkipped'
    PROVE  Inv'
<1>1. TypeOK' /\ (estado \in visited)'
  BY DEF Inv, TypeOK, Answer, T
<1>2. ASSUME NEW v \in Workers PROVE WorkerOK(v)'
  <2>1. WorkerOK(v) /\ op \in [Workers -> DOMAIN T.ops \cup {"put", "line", None}]
                    /\ read \in [Workers -> T.states \cup {None}]
    BY DEF Inv, TypeOK
  <2>2. None # "put" /\ None # "line"
    BY TypeFacts DEF Inv, TypeOK
  <2>3. CASE v = w
    BY <2>1, <2>2, <2>3 DEF WorkerOK, Answer
  <2>4. CASE v # w
    BY <2>1, <2>4 DEF WorkerOK, Answer, T, Op
  <2> QED BY <2>3, <2>4
<1> QED BY <1>1, <1>2 DEF Inv

LEMMA SameDocumentKeepsOrder ==
    ASSUME NothingIsSkipped, UNCHANGED document
    PROVE  NothingIsSkipped'
  BY DEF NothingIsSkipped, document

LEMMA AnswerOnly ==
    ASSUME Inv, NEW w \in Workers, NEW a \in Answers, Answer(w, a), UNCHANGED document
    PROVE  Inv'
<1>1. NothingIsSkipped'
  BY SameDocumentKeepsOrder DEF Inv
<1>2. estado' \in T.states /\ visited' = visited \cup {estado'} /\ contenido' \in BOOLEAN
  BY DEF Inv, TypeOK, document
<1> QED BY <1>1, <1>2, AnswerKeepsInv DEF document

\* A request that has read the document.
LEMMA ReadKeepsInv ==
    ASSUME Inv, NEW w \in Workers, NEW o \in DOMAIN T.ops \cup {"put", "line"},
           \/ o \notin {"put", "line"} /\ estado \in Op(o).from
           \/ o = "put" /\ estado \in DOMAIN T.put
           \/ o = "line" /\ estado \in T.lines.in,
           op' = [op EXCEPT ![w] = o], read' = [read EXCEPT ![w] = estado],
           told' = [told EXCEPT ![w] = "none"], UNCHANGED document
    PROVE  Inv'
<1>1. TypeOK' /\ (estado \in visited)'
  BY DEF Inv, TypeOK, document, T, Answers
<1>2. ASSUME NEW v \in Workers PROVE WorkerOK(v)'
  <2>1. WorkerOK(v) /\ op \in [Workers -> DOMAIN T.ops \cup {"put", "line", None}]
                    /\ read \in [Workers -> T.states \cup {None}]
                    /\ estado \in visited
    BY DEF Inv, TypeOK
  <2>2. CASE v = w
    BY <2>1, <2>2 DEF WorkerOK, T, Op, document
  <2>3. CASE v # w
    BY <2>1, <2>3 DEF WorkerOK, document, T, Op
  <2> QED BY <2>2, <2>3
<1>3. NothingIsSkipped'
  BY SameDocumentKeepsOrder DEF Inv
<1> QED BY <1>1, <1>2, <1>3 DEF Inv

\* Where a transition or a PUT may start from, at the moment it is made.
LEMMA MoveSource ==
    ASSUME Inv, NEW w \in Workers, op[w] # None, Move(w)
    PROVE  /\ op[w] \in DOMAIN T.ops
           /\ \E s \in Sources(Op(op[w])) : s \in visited
<1>1. op[w] \in DOMAIN T.ops
  BY DEF Inv, TypeOK, Move
<1>2. read[w] \in visited /\ read[w] \in Op(op[w]).from /\ estado \in visited
  BY DEF Inv, WorkerOK, Move
<1>3. CASE Op(op[w]).where = {}
  BY <1>1, <1>2, <1>3 DEF Sources
<1>4. CASE Op(op[w]).where # {}
  BY <1>1, <1>2, <1>4 DEF Sources, Move, Finds
<1> QED BY <1>1, <1>3, <1>4

LEMMA MoveKeepsInv ==
    ASSUME Inv, NEW w \in Workers, op[w] # None, Move(w)
    PROVE  Inv'
<1>1. PICK s \in Sources(Op(op[w])) : s \in visited
  BY MoveSource
<1>2. op[w] \in DOMAIN T.ops
  BY MoveSource
<1>3. /\ tipo \in DOMAIN Types /\ NothingIsSkipped /\ contenido \in BOOLEAN
  BY DEF Inv, TypeOK
<1>4. /\ tipo' = tipo /\ contenido' = contenido
      /\ estado' = Op(op[w]).to /\ visited' = visited \cup {estado'}
  BY DEF Move
<1>5. estado' \in T.states
  BY <1>2, <1>3, <1>4, TypeFacts
<1>6. NothingIsSkipped'
  <2> SUFFICES ASSUME tipo \in DOMAIN ComesFirst, First[tipo] \in visited',
                      NEW p \in ComesFirst[tipo], p[2] \in visited'
               PROVE  p[1] \in visited
    BY <1>4 DEF NothingIsSkipped
  <2> QED BY <1>1, <1>2, <1>3, <1>4, MoveKeepsOrder
<1>7. PICK a \in {"lost", IF Op(op[w]).miss = "row" THEN "row" ELSE "ok"} : Answer(w, a)
  BY DEF Move
<1>8. a \in Answers
  BY <1>7 DEF Answers
<1> QED BY <1>3, <1>4, <1>5, <1>6, <1>7, <1>8, AnswerKeepsInv

LEMMA EditKeepsInv ==
    ASSUME Inv, NEW w \in Workers, Edit(w)
    PROVE  Inv'
<1>1. /\ tipo \in DOMAIN Types /\ NothingIsSkipped /\ contenido \in BOOLEAN
      /\ estado \in T.states /\ estado \in visited
      /\ read[w] \in visited /\ read[w] \in DOMAIN T.put
  BY DEF Inv, TypeOK, WorkerOK, Edit
<1>2. /\ tipo' = tipo /\ contenido' = ~contenido
      /\ visited' = visited \cup {estado'}
      /\ estado' = estado \/ estado' \in T.put[read[w]]
  BY DEF Edit, Written
<1>3. estado' \in T.states
  BY <1>1, <1>2, TypeFacts
<1>4. NothingIsSkipped'
  <2>1. CASE estado' = estado
    BY <1>1, <1>2, <2>1 DEF NothingIsSkipped
  <2>2. CASE estado' \in T.put[read[w]]
    <3> SUFFICES ASSUME tipo \in DOMAIN ComesFirst, First[tipo] \in visited',
                        NEW p \in ComesFirst[tipo], p[2] \in visited'
                 PROVE  p[1] \in visited
      BY <1>2 DEF NothingIsSkipped
    <3> QED BY <1>1, <1>2, <2>2, PutKeepsOrder
  <2> QED BY <1>2, <2>1, <2>2
<1>5. PICK a \in {"ok", "lost"} : Answer(w, a)
  BY DEF Edit
<1>6. a \in Answers
  BY <1>5 DEF Answers
<1> QED BY <1>1, <1>2, <1>3, <1>4, <1>5, <1>6, AnswerKeepsInv

LEMMA LineKeepsInv ==
    ASSUME Inv, NEW w \in Workers, WriteLine(w)
    PROVE  Inv'
<1>1. /\ tipo' = tipo /\ contenido' \in BOOLEAN /\ visited' = visited \cup {estado'}
      /\ estado' \in T.states
  BY DEF Inv, TypeOK, WriteLine
<1>2. NothingIsSkipped'
  BY DEF Inv, NothingIsSkipped, WriteLine
<1>3. PICK a \in {"ok", "lost"} : Answer(w, a)
  BY DEF WriteLine
<1>4. a \in Answers
  BY <1>3 DEF Answers
<1> QED BY <1>1, <1>2, <1>3, <1>4, AnswerKeepsInv

LEMMA NextInv == Inv /\ [Next]_vars => Inv'
<1> SUFFICES ASSUME Inv, [Next]_vars PROVE Inv'
  OBVIOUS
<1>1. CASE UNCHANGED vars
  BY <1>1 DEF vars, document, Inv, TypeOK, WorkerOK, NothingIsSkipped, T, Op
<1>2. ASSUME NEW w \in Workers, NEW o \in DOMAIN T.ops, Begin(w, o)
      PROVE  Inv'
  <2>1. o \notin {"put", "line"}
    BY <1>2, TypeFacts DEF Inv, TypeOK
  <2> QED BY <1>2, <2>1, ReadKeepsInv DEF Begin
<1>3. ASSUME NEW w \in Workers, BeginPut(w)
      PROVE  Inv'
  BY <1>3, ReadKeepsInv DEF BeginPut
<1>7. ASSUME NEW w \in Workers, BeginLine(w)
      PROVE  Inv'
  BY <1>7, ReadKeepsInv DEF BeginLine
<1>4. ASSUME NEW w \in Workers, NEW a \in Answers, Answer(w, a), UNCHANGED document
      PROVE  Inv'
  BY <1>4, AnswerOnly
<1>5. ASSUME NEW w \in Workers, Start(w) PROVE Inv'
  <2>1. ASSUME NEW o \in DOMAIN T.ops, Confirm(w, o) PROVE Inv'
    BY <1>4, <2>1 DEF Confirm, Answers
  <2>2. CASE Reject(w)
    BY <1>4, <2>2 DEF Reject, Answers
  <2>3. CASE TakeLine(w)
    BY <2>3, LineKeepsInv DEF TakeLine
  <2>4. CASE Look(w)
    BY <1>4, <2>4 DEF Look, Answers
  <2> QED BY <1>2, <1>3, <1>7, <1>5, <2>1, <2>2, <2>3, <2>4 DEF Start
<1>6. ASSUME NEW w \in Workers, Continue(w) PROVE Inv'
  <2>1. CASE Move(w)
    BY <1>6, <2>1, MoveKeepsInv DEF Continue
  <2>2. CASE Miss(w)
    BY <1>4, <2>2 DEF Miss, Answers
  <2>3. CASE Edit(w)
    BY <2>3, EditKeepsInv
  <2>4. CASE MissEdit(w)
    BY <1>4, <2>4 DEF MissEdit, Answers
  <2>5. CASE Fail(w)
    BY <1>4, <2>5 DEF Fail, Answers
  <2>6. CASE EditLine(w)
    BY <2>6, LineKeepsInv DEF EditLine
  <2> QED BY <1>6, <2>1, <2>2, <2>3, <2>4, <2>5, <2>6 DEF Continue
<1> QED BY <1>1, <1>5, <1>6 DEF Next

THEOREM InvAlways == Spec => []Inv
  BY InitInv, NextInv, PTL DEF Spec

-----------------------------------------------------------------------------
(***************************************************************************)
(* The theorems.                                                           *)
(***************************************************************************)
\* Every endpoint leaves the document in an estado of its type.
THEOREM DocumentsTypeCorrect == Spec => []TypeOK
<1>1. Inv => TypeOK
  BY DEF Inv
<1> QED BY <1>1, InvAlways, PTL

\* However many requests race, with UPDATEs that do not look at the estado
\* they replace, no estado is reached before those that must come first.
THEOREM NothingIsSkippedAlways == Spec => []NothingIsSkipped
<1>1. Inv => NothingIsSkipped
  BY DEF Inv
<1> QED BY <1>1, InvAlways, PTL

LEMMA LCInit == Init => LC!Init
  BY DEF Init, LC!Init, LC!T, T

LEMMA LCTell ==
    ASSUME NEW w \in Workers, NEW a, Answer(w, a), NEW S, a \in S
    PROVE  LC!Tell(w, S)
  BY DEF Answer, LC!Tell

\* An answer that changes nothing is a turn, or confirms the estado.
LEMMA LCAnswer ==
    ASSUME NEW w \in Workers, NEW a \in {"no", "lost", "row"}, Answer(w, a),
           UNCHANGED document
    PROVE  LC!Next
<1>1. LC!Turn(w)
  BY LCTell DEF LC!Turn, LC!document, document
<1> QED BY <1>1 DEF LC!Next

LEMMA LCConfirm ==
    ASSUME NEW w \in Workers, NEW o \in DOMAIN T.ops, estado = Op(o).to,
           Answer(w, "ok"), UNCHANGED document
    PROVE  LC!Next
<1>1. LC!Tell(w, {"ok"})
  BY LCTell
<1>2. LC!Confirm(w)
  BY <1>1 DEF LC!Confirm, LC!T, T, Op, LC!document, document
<1> QED BY <1>2 DEF LC!Next

LEMMA LCMove ==
    ASSUME Inv, NEW w \in Workers, op[w] # None, Move(w)
    PROVE  LC!Next
<1>1. op[w] \in DOMAIN T.ops
  BY MoveSource
<1>2. read[w] \in visited /\ read[w] \in Op(op[w]).from
  BY DEF Inv, WorkerOK, Move
<1>3. LC!May(Op(op[w]).from, Op(op[w]).where)
  BY <1>2 DEF LC!May, Move, Finds
<1>4. \E o \in DOMAIN LC!T.ops : /\ LC!May(LC!T.ops[o].from, LC!T.ops[o].where)
                                /\ estado' = LC!T.ops[o].to
  BY <1>1, <1>3 DEF LC!T, T, Op, Move
<1>5. LC!Tell(w, {"ok", "lost", "row"})
  BY LCTell DEF Move
<1>6. LC!Move(w)
  BY <1>4, <1>5 DEF LC!Move, Move
<1> QED BY <1>6 DEF LC!Next

LEMMA LCEdit ==
    ASSUME Inv, NEW w \in Workers, Edit(w)
    PROVE  LC!Next
<1>1. read[w] \in visited /\ read[w] \in DOMAIN T.put
  BY DEF Inv, WorkerOK, Edit
<1>2. LC!May(DOMAIN LC!T.put, LC!T.putWhere)
  BY <1>1 DEF LC!May, LC!T, T, Edit, Finds
<1>3. \/ estado' = estado
      \/ tipo \in SendEstado /\ \E s \in visited \cap DOMAIN LC!T.put :
                                    estado' \in LC!T.put[s]
  BY <1>1 DEF Edit, Written, LC!T, T
<1>4. LC!Tell(w, {"ok", "lost"})
  BY LCTell DEF Edit
<1>5. LC!Edit(w)
  BY <1>2, <1>3, <1>4 DEF LC!Edit, Edit
<1> QED BY <1>5 DEF LC!Next

LEMMA LCLine ==
    ASSUME NEW w \in Workers, WriteLine(w), T.lines.loose \/ T.lines.in \cap visited # {}
    PROVE  LC!Next
<1>1. LC!T.lines.loose \/ LC!May(LC!T.lines.in, {})
  BY DEF LC!May, LC!T, T
<1>2. LC!Tell(w, {"ok", "lost"})
  BY LCTell DEF WriteLine
<1>3. LC!EditLines(w)
  BY <1>1, <1>2 DEF LC!EditLines, WriteLine
<1> QED BY <1>3 DEF LC!Next

LEMMA LCNext == Inv /\ [Next]_vars => [LC!Next]_<<LC!document, told>>
<1> SUFFICES ASSUME Inv, Next PROVE LC!Next \/ UNCHANGED <<LC!document, told>>
  BY DEF vars, document, LC!document
<1>1. ASSUME NEW w \in Workers, told' = [told EXCEPT ![w] = "none"], UNCHANGED document
      PROVE  LC!Next
  BY <1>1 DEF LC!Next, LC!Ask, LC!Tell, LC!document, document
<1>2. ASSUME NEW w \in Workers, Start(w) PROVE LC!Next
  <2>1. ASSUME NEW o \in DOMAIN T.ops, Begin(w, o) PROVE LC!Next
    BY <1>1, <2>1 DEF Begin
  <2>2. ASSUME NEW o \in DOMAIN T.ops, Confirm(w, o) PROVE LC!Next
    <3>1. Op(o).done \subseteq {Op(o).to}
      BY TypeFacts DEF Inv, TypeOK
    <3> QED BY <2>2, <3>1, LCConfirm DEF Confirm
  <2>3. CASE BeginPut(w)
    BY <1>1, <2>3 DEF BeginPut
  <2>4. CASE Reject(w)
    BY <2>4, LCAnswer DEF Reject
  <2>5. CASE BeginLine(w)
    BY <1>1, <2>5 DEF BeginLine
  <2>6. CASE TakeLine(w)
    BY <2>6, LCLine DEF TakeLine
  <2>7. CASE Look(w)
    BY <2>7, LCAnswer DEF Look
  <2> QED BY <1>2, <2>1, <2>2, <2>3, <2>4, <2>5, <2>6, <2>7 DEF Start
<1>3. ASSUME NEW w \in Workers, Continue(w) PROVE LC!Next
  <2>1. CASE Move(w)
    BY <1>3, <2>1, LCMove DEF Continue
  <2>2. CASE Miss(w)
    <3>1. op[w] \in DOMAIN T.ops
      BY <1>3, <2>2 DEF Continue, Miss, Inv, TypeOK
    <3>2. CASE Op(op[w]).miss = "row"
      BY <2>2, <3>2, LCAnswer DEF Miss
    <3>3. CASE Op(op[w]).miss = "reread" /\ estado = Op(op[w]).to
      BY <2>2, <3>1, <3>3, LCConfirm DEF Miss
    <3>4. CASE Op(op[w]).miss # "row" /\ ~(/\ Op(op[w]).miss = "reread"
                                          /\ estado = Op(op[w]).to)
      BY <2>2, <3>4, LCAnswer DEF Miss
    <3> QED BY <3>2, <3>3, <3>4
  <2>3. CASE Edit(w)
    BY <2>3, LCEdit
  <2>4. CASE MissEdit(w)
    BY <2>4, LCAnswer DEF MissEdit
  <2>5. CASE Fail(w)
    BY <2>5, LCAnswer DEF Fail
  <2>6. CASE EditLine(w)
    <3>1. T.lines.in \cap visited # {}
      BY <2>6 DEF EditLine, Inv, WorkerOK
    <3> QED BY <2>6, <3>1, LCLine DEF EditLine
  <2> QED BY <1>3, <2>1, <2>2, <2>3, <2>4, <2>5, <2>6 DEF Continue
<1> QED BY <1>2, <1>3 DEF Next

\* The endpoints implement the life cycle: an answer "ok" means that the
\* transition was made, "no" that it was not, whatever was interleaved.
THEOREM ImplementsLifeCycleAlways == Spec => ImplementsLifeCycle
  BY InvAlways, LCInit, LCNext, PTL DEF Spec, ImplementsLifeCycle, LC!Spec
=============================================================================
