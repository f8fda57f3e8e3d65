------------------------- MODULE LegacyTokensProofs -------------------------
(***************************************************************************)
(* Type correctness of the default session engine, its two invariants, and *)
(* the proof that its chains of rows implement sessions.                   *)
(***************************************************************************)
EXTENDS LegacyTokensProps, TLAPS

TableType ==
    /\ row \in [Tokens -> Present \cup {"absent", "purged"}]
    /\ root \in [Tokens -> Tokens \cup {NoToken}]
RequestType ==
    /\ pc \in [Workers -> Steps]
    /\ task \in [Workers -> Tasks]
    /\ token \in [Workers -> Tokens \cup {NoToken}]
    /\ rows \in [Workers -> SUBSET Tokens]
    /\ sent \in [Workers -> {"nothing", "access", "tokens"}]
    /\ late \in [Workers -> BOOLEAN]

\* Tokens without a row have no session; every session began with its root.
RootsOK ==
    /\ \A t \in Tokens : row[t] = "absent" => root[t] = NoToken
    /\ \A t \in Active : root[t] # NoToken
    /\ \A t \in Tokens : root[t] # NoToken => root[root[t]] = root[t]

TableInv == TableType /\ RootsOK /\ OneActivePerSession

\* A late refresh never comes to the rotation.
LocalOK(w) ==
    /\ pc[w] \in {"read", "close_idle", "reason", "rotate"} =>
         token[w] \in Tokens /\ row[token[w]] # "absent"
    /\ late[w] =>
         /\ pc[w] \in {"read", "reason", "all", "sweep"}
         /\ task[w] = "refresh" /\ sent[w] = "nothing"
         /\ pc[w] = "read" => root[token[w]] # NoToken /\ Ended(root[token[w]])

Inv == TableInv /\ RequestType /\ \A w \in Workers : LocalOK(w)

LEMMA InvType == Inv => TypeOK
  BY DEF Inv, TableInv, TableType, RequestType, TypeOK

LEMMA InvNoAccess == Inv => NoAccessAfterEnd
  BY DEF Inv, LocalOK, NoAccessAfterEnd

LEMMA InvOne == Inv => OneActivePerSession
  BY DEF Inv, TableInv

LEMMA InitInv == Init => Inv
<1> SUFFICES ASSUME Init PROVE Inv
  OBVIOUS
<1>1. TableType
  BY DEF Init, TableType, Present, Revoked
<1>2. Active = {} /\ RootsOK
  BY <1>1 DEF Init, Active, RootsOK
<1>3. OneActivePerSession
  BY <1>2 DEF OneActivePerSession
<1>4. RequestType /\ \A w \in Workers : LocalOK(w)
  BY DEF Init, RequestType, LocalOK, Steps, Tasks
<1> QED BY <1>1, <1>2, <1>3, <1>4 DEF Inv, TableInv

-----------------------------------------------------------------------------
(***************************************************************************)
(* What a step does to the table.                                          *)
(***************************************************************************)
\* Rows are only revoked, expired or deleted.
Falls ==
    /\ TableType'
    /\ root' = root
    /\ \A t \in Tokens :
         /\ row'[t] = "absent" <=> row[t] = "absent"
         /\ row'[t] = "active" => row[t] = "active"
         /\ t \in Active' => t \in Active

\* Token o is rotated into n.
Rotates(o, n) ==
    /\ o \in Tokens /\ n \in Tokens
    /\ Usable(o) /\ row[n] = "absent"
    /\ row' = [row EXCEPT ![n] = "active", ![o] = "rotated"]
    /\ root' = [root EXCEPT ![n] = root[o]]

Stores(n) == n \in Tokens /\ Insert(n, n)

\* What the requests in progress rely on.
Grows ==
    /\ \A t \in Tokens : row[t] # "absent" =>
         row'[t] # "absent" /\ root'[t] = root[t]
    /\ \A t \in Tokens : root[t] # NoToken /\ Ended(root[t]) =>
         \A u \in Tokens : root'[u] = root[t] => row'[u] # "active"

TableStep == Falls \/ (\E o, n \in Tokens : Rotates(o, n)) \/ (\E n \in Tokens : Stores(n))

LEMMA FallsInv ==
  ASSUME TableInv, Falls
  PROVE  TableInv' /\ Grows
<1>1. RootsOK'
  BY DEF TableInv, Falls, RootsOK, Active
<1>2. OneActivePerSession'
  BY DEF TableInv, Falls, OneActivePerSession, Active
<1>3. Grows
  BY DEF Falls, Grows, Ended, Usable
<1> QED BY <1>1, <1>2, <1>3 DEF TableInv, Falls

LEMMA RotatesInv ==
  ASSUME TableInv, NEW o \in Tokens, NEW n \in Tokens, Rotates(o, n)
  PROVE  TableInv' /\ Grows
<1>1. /\ TableType'
      /\ o \in Active /\ o # n /\ root[o] \in Tokens /\ root[n] = NoToken
  BY DEF TableInv, TableType, Rotates, RootsOK, Usable, Active, Present, Revoked
<1>2. /\ row'[n] = "active" /\ row'[o] = "rotated" /\ root'[n] = root[o]
      /\ \A t \in Tokens \ {n} : root'[t] = root[t]
      /\ \A t \in Tokens \ {n, o} : row'[t] = row[t]
  BY <1>1 DEF Rotates, TableInv, TableType
<1>3. Active' = (Active \ {o}) \cup {n}
  BY <1>1, <1>2 DEF Active
<1>4. root[root[o]] = root[o] /\ root[o] # n
  BY <1>1, NoTokenAssumption DEF TableInv, RootsOK
<1>5. RootsOK'
  <2>1. \A t \in Tokens : row'[t] = "absent" => root'[t] = NoToken
    BY <1>1, <1>2 DEF TableInv, RootsOK
  <2>2. \A t \in Active' : root'[t] # NoToken
    BY <1>1, <1>2, <1>3, NoTokenAssumption DEF TableInv, RootsOK, Active
  <2>3. ASSUME NEW t \in Tokens, root'[t] # NoToken
        PROVE  root'[root'[t]] = root'[t]
    <3>1. CASE t = n
      BY <3>1, <1>1, <1>2, <1>4
    <3>2. CASE t # n
      <4>1. root'[t] = root[t] /\ root[t] \in Tokens /\ root[root[t]] = root[t]
        BY <3>2, <2>3, <1>2 DEF TableInv, TableType, RootsOK
      <4>2. root[t] # n
        BY <4>1, <1>1, NoTokenAssumption
      <4> QED BY <4>1, <4>2, <1>2
    <3> QED BY <3>1, <3>2
  <2> QED BY <2>1, <2>2, <2>3 DEF RootsOK
<1>6. OneActivePerSession'
  <2> SUFFICES ASSUME NEW t \in Active', NEW u \in Active', root'[t] = root'[u]
               PROVE  t = u
    BY DEF OneActivePerSession
  <2>1. ASSUME NEW v \in Active', v # n
        PROVE  v \in Active /\ v # o /\ root'[v] = root[v] /\ root[v] # root[o]
    BY <2>1, <1>1, <1>2, <1>3 DEF TableInv, OneActivePerSession, Active
  <2> QED BY <2>1, <1>2 DEF TableInv, OneActivePerSession
<1>7. Grows
  <2>1. \A t \in Tokens : row[t] # "absent" => row'[t] # "absent" /\ root'[t] = root[t]
    BY <1>2 DEF Rotates
  <2>2. ASSUME NEW t \in Tokens, root[t] # NoToken, Ended(root[t])
        PROVE  \A u \in Tokens : root'[u] = root[t] => row'[u] # "active"
    <3>1. root[t] # root[o]
      BY <2>2, <1>1 DEF Ended, Rotates
    <3> QED BY <2>2, <3>1, <1>1, <1>2 DEF Ended, Usable
  <2> QED BY <2>1, <2>2 DEF Grows
<1> QED BY <1>1, <1>5, <1>6, <1>7 DEF TableInv

LEMMA StoresInv ==
  ASSUME TableInv, NEW n \in Tokens, Stores(n)
  PROVE  TableInv' /\ Grows /\ \A t \in Tokens : root[t] # n
<1>1. TableType' /\ root[n] = NoToken /\ row[n] = "absent"
  BY DEF TableInv, TableType, Stores, Insert, RootsOK, Present, Revoked
<1>2. /\ row'[n] = "active" /\ root'[n] = n
      /\ \A t \in Tokens \ {n} : row'[t] = row[t] /\ root'[t] = root[t]
  BY <1>1 DEF Stores, Insert, TableInv, TableType
<1>3. \A t \in Tokens : root[t] # n
  BY <1>1, NoTokenAssumption DEF TableInv, RootsOK
<1>4. Active' = Active \cup {n}
  BY <1>1, <1>2 DEF Active
<1>5. RootsOK'
  <2>1. \A t \in Tokens : row'[t] = "absent" => root'[t] = NoToken
    BY <1>1, <1>2 DEF TableInv, RootsOK
  <2>2. \A t \in Active' : root'[t] # NoToken
    BY <1>1, <1>2, <1>4, NoTokenAssumption DEF TableInv, RootsOK, Active
  <2>3. ASSUME NEW t \in Tokens, root'[t] # NoToken
        PROVE  root'[root'[t]] = root'[t]
    BY <2>3, <1>2, <1>3 DEF TableInv, TableType, RootsOK
  <2> QED BY <2>1, <2>2, <2>3 DEF RootsOK
<1>6. OneActivePerSession'
  BY <1>2, <1>3, <1>4 DEF TableInv, OneActivePerSession, Active
<1>7. Grows
  <2>1. \A t \in Tokens : row[t] # "absent" => row'[t] # "absent" /\ root'[t] = root[t]
    BY <1>1, <1>2
  <2>2. ASSUME NEW t \in Tokens, root[t] # NoToken, Ended(root[t])
        PROVE  \A u \in Tokens : root'[u] = root[t] => row'[u] # "active"
    BY <2>2, <1>2, <1>3 DEF Ended, Usable
  <2> QED BY <2>1, <2>2 DEF Grows
<1> QED BY <1>1, <1>3, <1>5, <1>6, <1>7 DEF TableInv

LEMMA TableStepInv ==
  ASSUME TableInv, TableStep
  PROVE  TableInv' /\ Grows
BY FallsInv, RotatesInv, StoresInv DEF TableStep

LEMMA StillFalls == ASSUME TableInv, UNCHANGED table PROVE Falls
  BY DEF TableInv, TableType, table, Falls, Active

LEMMA RevokeFalls ==
  ASSUME TableInv, NEW S, \A t \in S \cap Tokens : row[t] # "absent",
         Revoke(S), UNCHANGED root
  PROVE  Falls
<1>1. \A t \in Tokens : row'[t] = IF t \in S THEN "closed" ELSE row[t]
  BY DEF Revoke
<1>2. TableType'
  BY DEF TableInv, TableType, Revoke, Present, Revoked
<1> QED BY <1>1, <1>2 DEF Falls, Active

LEMMA RevokeByHashFalls ==
  ASSUME TableInv, NEW t, RevokeByHash(t), UNCHANGED root
  PROVE  Falls
BY RevokeFalls DEF RevokeByHash, Present, Revoked

-----------------------------------------------------------------------------
(***************************************************************************)
(* What a step does to the requests.                                       *)
(***************************************************************************)
OthersStay(w) ==
    \A v \in Workers \ {w} :
        /\ pc'[v] = pc[v] /\ task'[v] = task[v] /\ token'[v] = token[v]
        /\ sent'[v] = sent[v] /\ late'[v] = late[v]

LEMMA ContinueMoves ==
  ASSUME RequestType, NEW w \in Workers, NEW next \in Steps,
         NEW set \in SUBSET Tokens, Continue(w, next, set)
  PROVE  /\ RequestType' /\ OthersStay(w)
         /\ pc'[w] = next /\ task'[w] = task[w] /\ token'[w] = token[w]
         /\ sent'[w] = sent[w] /\ late'[w] = late[w]
BY DEF RequestType, Continue, OthersStay

LEMMA AnswerMoves ==
  ASSUME RequestType, NEW w \in Workers, NEW a \in {"nothing", "access", "tokens"},
         Answer(w, a), late[w] => a = "nothing"
  PROVE  RequestType' /\ OthersStay(w) /\ LocalOK(w)'
<1>1. RequestType' /\ OthersStay(w)
  BY DEF RequestType, Answer, OthersStay, Steps, Tasks
<1>2. pc'[w] = "free" /\ ~late'[w]
  BY DEF RequestType, Answer
<1> QED BY <1>1, <1>2 DEF LocalOK

LEMMA MoveInv ==
  ASSUME Inv, NEW w \in Workers, TableStep, RequestType', OthersStay(w), LocalOK(w)'
  PROVE  Inv'
<1>1. TableInv' /\ Grows
  BY TableStepInv DEF Inv
<1>2. ASSUME NEW v \in Workers \ {w}
      PROVE  LocalOK(v)'
  <2>1. LocalOK(v)
    BY DEF Inv
  <2>2. /\ pc'[v] = pc[v] /\ task'[v] = task[v] /\ token'[v] = token[v]
        /\ sent'[v] = sent[v] /\ late'[v] = late[v]
    BY DEF OthersStay
  <2>3. pc[v] \in {"read", "close_idle", "reason", "rotate"} =>
          /\ token[v] \in Tokens /\ row'[token[v]] # "absent"
          /\ root'[token[v]] = root[token[v]]
    BY <2>1, <1>1 DEF LocalOK, Grows
  <2>4. late[v] /\ pc[v] = "read" =>
          \A u \in Tokens : root'[u] = root'[token[v]] => row'[u] # "active"
    BY <2>1, <2>3, <1>1 DEF LocalOK, Grows
  <2> QED BY <2>1, <2>2, <2>3, <2>4 DEF LocalOK, Ended, Usable
<1> QED BY <1>1, <1>2 DEF Inv

LEMMA AnswerInv ==
  ASSUME Inv, NEW w \in Workers, NEW a \in {"nothing", "access", "tokens"},
         Answer(w, a), late[w] => a = "nothing", TableStep
  PROVE  Inv'
BY AnswerMoves, MoveInv DEF Inv

LEMMA ContinueInv ==
  ASSUME Inv, NEW w \in Workers, NEW next \in Steps, NEW set \in SUBSET Tokens,
         Continue(w, next, set), TableStep,
         next \in {"close_idle", "reason", "rotate"} =>
           pc[w] \in {"read", "close_idle"},
         next # "read",
         late[w] => next \in {"reason", "all", "sweep"}
  PROVE  Inv'
<1>1. /\ RequestType' /\ OthersStay(w)
      /\ pc'[w] = next /\ task'[w] = task[w] /\ token'[w] = token[w]
      /\ sent'[w] = sent[w] /\ late'[w] = late[w]
  BY ContinueMoves DEF Inv
<1>2. TableInv' /\ Grows
  BY TableStepInv DEF Inv
<1>3. LocalOK(w)
  BY DEF Inv
<1>4. pc'[w] \in {"read", "close_idle", "reason", "rotate"} =>
        token'[w] \in Tokens /\ row'[token'[w]] # "absent"
  BY <1>1, <1>2, <1>3 DEF LocalOK, Grows
<1>5. LocalOK(w)'
  BY <1>1, <1>3, <1>4 DEF LocalOK
<1> QED BY <1>1, <1>5, MoveInv

LEMMA BeginInv ==
  ASSUME Inv, NEW w \in Workers, NEW k \in Tasks, NEW t \in Tokens \cup {NoToken},
         NEW first \in Steps, Begin(w, k, t, first),
         first # "read" => k # "refresh",
         first \in {"read", "close_idle", "reason", "rotate"} =>
           t \in Tokens /\ row[t] # "absent"
  PROVE  Inv'
<1>1. /\ RequestType' /\ OthersStay(w) /\ UNCHANGED <<row, root>>
      /\ pc'[w] = first /\ task'[w] = k /\ token'[w] = t /\ sent'[w] = "nothing"
      /\ late'[w] = (k = "refresh" /\ root[t] # NoToken /\ Ended(root[t]))
  BY DEF Inv, RequestType, Begin, OthersStay, table
<1>2. Falls
  BY StillFalls DEF Inv, Begin
<1>3. LocalOK(w)'
  BY <1>1 DEF LocalOK, Ended, Usable
<1> QED BY <1>1, <1>2, <1>3, MoveInv DEF TableStep

LEMMA QuietInv ==
  ASSUME Inv, Falls, UNCHANGED request
  PROVE  Inv'
<1>1. TableInv' /\ Grows
  BY TableStepInv DEF Inv, TableStep
<1>2. RequestType'
  BY DEF Inv, RequestType, request
<1>3. ASSUME NEW w \in Workers
      PROVE  LocalOK(w)'
  <2>1. LocalOK(w)
    BY DEF Inv
  <2>2. pc[w] \in {"read", "close_idle", "reason", "rotate"} =>
          /\ token[w] \in Tokens /\ row'[token[w]] # "absent"
          /\ root'[token[w]] = root[token[w]]
    BY <2>1, <1>1 DEF LocalOK, Grows
  <2>3. late[w] /\ pc[w] = "read" =>
          \A u \in Tokens : root'[u] = root'[token[w]] => row'[u] # "active"
    BY <2>1, <2>2, <1>1 DEF LocalOK, Grows
  <2> QED BY <2>1, <2>2, <2>3 DEF LocalOK, Ended, Usable, request
<1> QED BY <1>1, <1>2, <1>3 DEF Inv

-----------------------------------------------------------------------------
(***************************************************************************)
(* The actions.                                                            *)
(***************************************************************************)
LEMMA RefreshInv ==
  ASSUME Inv, NEW w \in Workers, Refresh(w)
  PROVE  Inv' /\ TableStep
<1>0. TableInv /\ LocalOK(w) /\ {} \in SUBSET Tokens
  BY DEF Inv
<1>1. CASE BeginRefresh(w)
  <2>1. PICK t \in Given : Begin(w, "refresh", t, "read")
    BY <1>1 DEF BeginRefresh
  <2>2. Inv'
    BY <2>1, BeginInv DEF Given, Tasks, Steps
  <2> QED BY <2>1, <2>2, <1>0, StillFalls DEF Begin, TableStep
<1>2. CASE Validate(w)
  <2>1. Falls
    BY <1>2, <1>0, StillFalls DEF Validate
  <2>2. PICK next \in IF Usable(token[w]) THEN {"close_idle", "rotate"} ELSE {"reason"} :
          Continue(w, next, {})
    BY <1>2 DEF Validate
  <2>3. late[w] => ~Usable(token[w])
    BY <1>0, <1>2 DEF LocalOK, Validate, Ended
  <2>4. next \in Steps /\ next # "read" /\ (late[w] => next = "reason")
    BY <2>2, <2>3 DEF Steps
  <2> QED BY <2>1, <2>2, <2>4, <1>2, <1>0, ContinueInv DEF Validate, TableStep
<1>3. CASE CloseIdle(w)
  <2>1. Falls
    BY <1>3, <1>0, RevokeByHashFalls DEF CloseIdle
  <2> QED BY <2>1, <1>3, <1>0, ContinueInv DEF CloseIdle, TableStep, Steps, LocalOK
<1>4. CASE RefuseInvalid(w)
  <2>1. Falls
    BY <1>4, <1>0, StillFalls DEF RefuseInvalid
  <2> QED BY <2>1, <1>4, AnswerInv DEF RefuseInvalid, TableStep
<1>5. CASE DetectReuse(w)
  <2>1. Falls
    BY <1>5, <1>0, StillFalls DEF DetectReuse
  <2> QED BY <2>1, <1>5, <1>0, ContinueInv DEF DetectReuse, TableStep, Steps
<1>6. CASE Rotate(w)
  <2>1. token[w] \in Tokens /\ ~late[w]
    BY <1>6, <1>0 DEF Rotate, LocalOK
  <2>2. \E n \in Tokens : Rotates(token[w], n)
    BY <1>6, <2>1 DEF Rotate, Rotates
  <2>3. TableStep
    BY <2>1, <2>2 DEF TableStep
  <2> QED BY <2>1, <2>3, <1>6, AnswerInv DEF Rotate
<1>7. CASE RotateIdle(w)
  <2>1. Falls
    BY <1>7, <1>0, RevokeFalls DEF RotateIdle, LocalOK
  <2> QED BY <2>1, <1>7, AnswerInv DEF RotateIdle, TableStep
<1>8. CASE Overtaken(w)
  <2>1. Falls /\ ~late[w]
    BY <1>8, <1>0, StillFalls DEF Overtaken, LocalOK
  <2> QED BY <2>1, <1>8, AnswerInv DEF Overtaken, TableStep
<1>9. CASE RotateRefused(w)
  <2>1. Falls
    BY <1>9, <1>0, StillFalls DEF RotateRefused
  <2> QED BY <2>1, <1>9, AnswerInv DEF RotateRefused, TableStep
<1> QED
  BY <1>1, <1>2, <1>3, <1>4, <1>5, <1>6, <1>7, <1>8, <1>9 DEF Refresh

LEMMA ExcessType == ASSUME NEW S \in Excess PROVE S \in SUBSET Tokens
<1> DEFINE live == {t \in Tokens : Usable(t)}
           n == Cardinality(live) - MaxSessions
<1>1. S = {} \/ S \in {U \in SUBSET live : Cardinality(U) = n + 1}
  BY DEF Excess
<1> QED BY <1>1

LEMMA LoginInv ==
  ASSUME Inv, NEW w \in Workers, Login(w)
  PROVE  Inv' /\ TableStep
<1>0. TableInv /\ LocalOK(w) /\ rows[w] \in SUBSET Tokens
  BY DEF Inv, RequestType
<1>1. CASE BeginCompany(w)
  <2>1. CASE \E t \in Given : Begin(w, "company", t, "rotate")
    <3>1. Inv'
      BY <2>1, BeginInv DEF Given, Tasks, Steps
    <3> QED BY <2>1, <3>1, <1>0, StillFalls DEF Begin, TableStep
  <2>2. CASE Begin(w, "company", NoToken, "insert")
    <3>1. Inv'
      BY <2>2, BeginInv DEF Tasks, Steps
    <3> QED BY <2>2, <3>1, <1>0, StillFalls DEF Begin, TableStep
  <2> QED BY <1>1, <2>1, <2>2 DEF BeginCompany
<1>2. CASE BeginLogin(w)
  <2>1. Inv'
    BY <1>2, BeginInv DEF BeginLogin, Tasks, Steps
  <2> QED BY <1>2, <2>1, <1>0, StillFalls DEF BeginLogin, Begin, TableStep
<1>3. CASE ReadSessions(w)
  <2>1. Falls
    BY <1>3, <1>0, StillFalls DEF ReadSessions
  <2>2. PICK S \in Excess : Continue(w, IF S = {} THEN "insert" ELSE "evict", S)
    BY <1>3 DEF ReadSessions
  <2>3. ~late[w]
    BY <1>3, <1>0 DEF ReadSessions, LocalOK
  <2> QED BY <2>1, <2>2, <2>3, ExcessType, ContinueInv DEF TableStep, Steps
<1>4. CASE Evict(w)
  <2>1. PICK t \in rows[w] :
          /\ Revoke({t} \cap Active)
          /\ Continue(w, IF rows[w] = {t} THEN "insert" ELSE "evict", rows[w] \ {t})
    BY <1>4 DEF Evict
  <2>2. Falls
    BY <2>1, <1>4, <1>0, RevokeFalls DEF Evict, Active
  <2>3. ~late[w]
    BY <1>4, <1>0 DEF Evict, LocalOK
  <2> QED BY <2>1, <2>2, <2>3, <1>0, ContinueInv DEF TableStep, Steps
<1>5. CASE Store(w)
  <2>1. \E n \in Tokens : Stores(n)
    BY <1>5 DEF Store, Stores
  <2>2. ~late[w]
    BY <1>5, <1>0 DEF Store, LocalOK
  <2> QED BY <2>1, <2>2, <1>5, AnswerInv DEF Store, TableStep
<1> QED BY <1>1, <1>2, <1>3, <1>4, <1>5 DEF Login

LEMMA RevocationInv ==
  ASSUME Inv, NEW w \in Workers, Revocation(w)
  PROVE  Inv' /\ TableStep
<1>0. TableInv /\ LocalOK(w) /\ {} \in SUBSET Tokens /\ Active \subseteq Tokens
  BY DEF Inv, Active
<1>1. CASE Logout(w)
  <2>1. Falls
    BY <1>1, <1>0, RevokeByHashFalls DEF Logout
  <2> QED BY <2>1, <1>1, QuietInv DEF Logout, TableStep
<1>2. CASE RevokeById(w)
  <2>1. Falls
    BY <1>2, <1>0, RevokeFalls DEF RevokeById, Active
  <2> QED BY <2>1, <1>2, QuietInv DEF RevokeById, TableStep
<1>3. CASE BeginLogoutAll(w)
  <2>1. Inv'
    BY <1>3, BeginInv DEF BeginLogoutAll, Tasks, Steps
  <2> QED BY <1>3, <2>1, <1>0, StillFalls DEF BeginLogoutAll, Begin, TableStep
<1>4. CASE BeginPassword(w)
  <2>1. PICK t \in Given \cup {NoToken} : Begin(w, "password", t, "all")
    BY <1>4 DEF BeginPassword
  <2>2. Inv'
    BY <2>1, BeginInv DEF Given, Tasks, Steps
  <2> QED BY <2>1, <2>2, <1>0, StillFalls DEF Begin, TableStep
<1>5. CASE StartAll(w)
  <2>1. Falls
    BY <1>5, <1>0, StillFalls DEF StartAll
  <2> QED BY <2>1, <1>5, <1>0, ContinueInv DEF StartAll, TableStep, Steps
<1>6. CASE RevokeAll(w)
  <2>1. Falls
    BY <1>6, <1>0, RevokeFalls DEF RevokeAll, Active
  <2>2. CASE task[w] = "password"
    <3>1. Continue(w, "hash", {}) /\ ~late[w]
      BY <2>2, <1>6, <1>0 DEF RevokeAll, LocalOK
    <3> QED BY <2>1, <3>1, <1>0, ContinueInv DEF TableStep, Steps
  <2>3. CASE task[w] # "password"
    BY <2>1, <2>3, <1>6, AnswerInv DEF RevokeAll, TableStep
  <2> QED BY <2>2, <2>3
<1>7. CASE RevokeOwn(w)
  <2>1. Falls
    <3>1. CASE token[w] = NoToken
      BY <3>1, <1>7, <1>0, StillFalls DEF RevokeOwn, table
    <3>2. CASE token[w] # NoToken
      BY <3>2, <1>7, <1>0, RevokeByHashFalls DEF RevokeOwn
    <3> QED BY <3>1, <3>2
  <2>2. Continue(w, "limit", {}) /\ ~late[w]
    BY <1>7, <1>0 DEF RevokeOwn, LocalOK
  <2> QED BY <2>1, <2>2, <1>0, ContinueInv DEF TableStep, Steps
<1> QED BY <1>1, <1>2, <1>3, <1>4, <1>5, <1>6, <1>7 DEF Revocation

LEMMA NextInv ==
  ASSUME Inv, [Next]_vars
  PROVE  Inv' /\ TableStep
<1>0. TableInv
  BY DEF Inv
<1>1. CASE \E w \in Workers : Refresh(w) \/ Login(w) \/ Revocation(w)
  BY <1>1, RefreshInv, LoginInv, RevocationInv
<1>2. CASE \E w \in Workers : Fail(w)
  <2>1. PICK w \in Workers : Fail(w)
    BY <1>2
  <2>2. Falls
    BY <2>1, <1>0, StillFalls DEF Fail
  <2>3. late[w] => task[w] # "login"
    BY DEF Inv, LocalOK
  <2> QED BY <2>1, <2>2, <2>3, AnswerInv DEF Fail, TableStep
<1>3. CASE \E t \in Tokens : Expire(t)
  <2>1. Falls
    BY <1>3, <1>0 DEF TableInv, TableType, Expire, Falls, Active, Usable, Present
  <2> QED BY <2>1, <1>3, QuietInv DEF Expire, TableStep
<1>4. CASE Purge
  <2>1. PICK S \in SUBSET {t \in Tokens : row[t] \in Revoked} :
          row' = [t \in Tokens |-> IF t \in S THEN "purged" ELSE row[t]]
    BY <1>4 DEF Purge
  <2>2. TableType' /\ root' = root
    BY <2>1, <1>4, <1>0 DEF TableInv, TableType, Purge
  <2>3. Falls
    BY <2>1, <2>2 DEF Falls, Active, Revoked
  <2> QED BY <2>3, <1>4, QuietInv DEF Purge, TableStep
<1>5. CASE UNCHANGED vars
  BY <1>5, <1>0, StillFalls, QuietInv DEF vars, TableStep
<1> QED BY <1>1, <1>2, <1>3, <1>4, <1>5 DEF Next

LEMMA InvAlways == Spec => []Inv
<1>1. Inv /\ [Next]_vars => Inv'
  BY NextInv
<1> QED BY InitInv, <1>1, PTL DEF Spec

\* Every variable keeps its type: no request is left without its token.
THEOREM LegacyTypeCorrect == Spec => []TypeOK
BY InvAlways, InvType, PTL

\* No race of refreshes, logins and revocations gives a session two tokens.
THEOREM OneActivePerSessionAlways == Spec => []OneActivePerSession
BY InvAlways, InvOne, PTL

\* A refresh that begins after its session has ended gets no access token,
\* though a token that was rotated is answered with one.
THEOREM NoAccessAfterEndAlways == Spec => []NoAccessAfterEnd
BY InvAlways, InvNoAccess, PTL

-----------------------------------------------------------------------------
(***************************************************************************)
(* The chains of rows implement sessions.                                  *)
(***************************************************************************)
Issued == {t \in Tokens : root[t] # NoToken}

LEMMA ContractInit == Init => Contract!Init
<1> SUFFICES ASSUME Init PROVE Contract!Init
  OBVIOUS
<1>1. \A s \in Tokens : Of(s) = {} /\ Ended(s)
  BY NoTokenAssumption DEF Init, Of, Ended
<1> QED BY <1>1 DEF Init, Contract!Init, Phase, Credential

\* The credential of a session that has not ended is its one usable token.
LEMMA TheCredential ==
  ASSUME TableInv, NEW s \in Tokens, NEW t \in Tokens, root[t] = s, Usable(t)
  PROVE  ~Ended(s) /\ Phase[s] = "live" /\ Credential[s] = t
<1>1. t \in Of(s) /\ ~Ended(s)
  BY DEF Of, Ended
<1>2. \A u \in Of(s) : Usable(u) => u = t
  BY DEF Of, TableInv, OneActivePerSession, Active, Usable
<1> QED BY <1>1, <1>2 DEF Phase, Credential

\* The same after a step.
LEMMA TheNextCredential ==
  ASSUME TableInv', NEW s \in Tokens, NEW t \in Tokens, root'[t] = s, Usable(t)'
  PROVE  ~Ended(s)' /\ Phase'[s] = "live" /\ Credential'[s] = t
<1>1. t \in Of(s)' /\ ~Ended(s)'
  BY DEF Of, Ended
<1>2. \A u \in Of(s)' : Usable(u)' => u = t
  BY DEF Of, TableInv, OneActivePerSession, Active, Usable
<1> QED BY <1>1, <1>2 DEF Phase, Credential

LEMMA FallsEnd ==
  ASSUME TableInv, TableInv', Falls
  PROVE  Contract!End({s \in Tokens : Phase[s] = "live" /\ Phase'[s] # "live"})
<1> DEFINE E == {s \in Tokens : Phase[s] = "live" /\ Phase'[s] # "live"}
<1>1. \A s \in Tokens : Of(s)' = Of(s)
  BY DEF Of, Falls
<1>2. Issued' = Issued
  BY DEF Issued, Falls
<1>3. ASSUME NEW s \in Tokens
      PROVE  /\ Phase'[s] = IF s \in E THEN "ended" ELSE Phase[s]
             /\ Credential'[s] = IF s \in E THEN NoToken ELSE Credential[s]
  <2>1. CASE Ended(s)
    <3>1. Ended(s)'
      BY <2>1 DEF Ended, Usable, Falls
    <3> QED BY <2>1, <3>1, <1>1 DEF Phase, Credential
  <2>2. CASE ~Ended(s) /\ Ended(s)'
    BY <2>2, <1>1 DEF Phase, Credential, Of, Ended
  <2>3. CASE ~Ended(s) /\ ~Ended(s)'
    <3>1. PICK t \in Tokens : root'[t] = s /\ Usable(t)'
      BY <2>3 DEF Ended
    <3>2. root[t] = s /\ Usable(t)
      BY <3>1 DEF Falls, Usable
    <3>3. Phase[s] = "live" /\ Credential[s] = t
      BY <3>2, TheCredential
    <3>4. Phase'[s] = "live" /\ Credential'[s] = t
      BY <3>1, TheNextCredential
    <3> QED BY <3>3, <3>4
  <2> QED BY <2>1, <2>2, <2>3
<1> QED BY <1>2, <1>3 DEF Contract!End, Phase, Credential, Issued

\* A session whose rows a step leaves alone is as it was.
LEMMA SameSession ==
  ASSUME NEW s \in Tokens,
         \A t \in Tokens : root'[t] = s <=> root[t] = s,
         \A t \in Tokens : root[t] = s => row'[t] = row[t]
  PROVE  Phase'[s] = Phase[s] /\ Credential'[s] = Credential[s]
<1>1. Of(s)' = Of(s)
  BY DEF Of
<1>2. Ended(s)' <=> Ended(s)
  BY DEF Ended, Usable
<1>3. (CHOOSE t \in Of(s) : Usable(t))' = (CHOOSE t \in Of(s) : Usable(t))
  BY <1>1 DEF Of, Usable
<1>4. CASE Ended(s)
  BY <1>1, <1>2, <1>4 DEF Phase, Credential
<1>5. CASE ~Ended(s)
  <2>1. Phase'[s] = Phase[s]
    BY <1>1, <1>2, <1>5 DEF Phase
  <2>2. Credential'[s] = Credential[s]
    BY <1>2, <1>3, <1>5 DEF Credential
  <2> QED BY <2>1, <2>2
<1> QED BY <1>4, <1>5

LEMMA ExceptOne ==
  ASSUME NEW f, NEW g, NEW D, NEW s \in D, NEW n,
         f = [x \in D |-> f[x]], g = [x \in D |-> g[x]],
         \A x \in D : g[x] = IF x = s THEN n ELSE f[x]
  PROVE  g = [f EXCEPT ![s] = n]
OBVIOUS

LEMMA RotatesRefresh ==
  ASSUME TableInv, NEW o \in Tokens, NEW n \in Tokens, Rotates(o, n)
  PROVE  Contract!Refresh(root[o], n)
<1> DEFINE s == root[o]
<1>1. /\ s \in Tokens /\ o # n /\ root[n] = NoToken
  BY DEF TableInv, TableType, Rotates, RootsOK, Usable, Active
<1>2. /\ row'[n] = "active" /\ row'[o] = "rotated" /\ root'[n] = s
      /\ \A t \in Tokens \ {n} : root'[t] = root[t]
      /\ \A t \in Tokens \ {n, o} : row'[t] = row[t]
  BY <1>1 DEF Rotates, TableInv, TableType
<1>3. TableInv'
  BY RotatesInv
<1>4. Phase[s] = "live"
  BY <1>1, TheCredential DEF Rotates
<1>5. Phase'[s] = "live" /\ Credential'[s] = n
  BY <1>1, <1>2, <1>3, TheNextCredential DEF Usable
<1>6. ASSUME NEW r \in Tokens \ {s}
      PROVE  Phase'[r] = Phase[r] /\ Credential'[r] = Credential[r]
  <2>1. \A t \in Tokens : root'[t] = r <=> root[t] = r
    BY <1>1, <1>2, NoTokenAssumption
  <2>2. \A t \in Tokens : root[t] = r => row'[t] = row[t]
    BY <1>1, <1>2, NoTokenAssumption
  <2> QED BY <2>1, <2>2, SameSession
<1>7. n \notin Issued /\ Issued' = Issued \cup {n}
  BY <1>1, <1>2, NoTokenAssumption DEF Issued
<1>8. Phase' = Phase
  BY <1>4, <1>5, <1>6 DEF Phase
<1>9. Credential' = [Credential EXCEPT ![s] = n]
  <2>1. \A r \in Tokens : Credential'[r] = IF r = s THEN n ELSE Credential[r]
    BY <1>5, <1>6
  <2>2. /\ Credential = [r \in Tokens |-> Credential[r]]
        /\ Credential' = [r \in Tokens |-> Credential'[r]]
    BY DEF Credential
  <2> QED BY <2>1, <2>2, <1>1, ExceptOne
<1> QED BY <1>4, <1>7, <1>8, <1>9 DEF Contract!Refresh, Issued

LEMMA StoresOpen ==
  ASSUME TableInv, NEW n \in Tokens, Stores(n)
  PROVE  Contract!Open(n, n)
<1>1. TableInv' /\ \A t \in Tokens : root[t] # n
  BY StoresInv
<1>2. row[n] = "absent" /\ root[n] = NoToken
  BY DEF TableInv, RootsOK, Stores, Insert
<1>3. /\ row'[n] = "active" /\ root'[n] = n
      /\ \A t \in Tokens \ {n} : row'[t] = row[t] /\ root'[t] = root[t]
  BY DEF Stores, Insert, TableInv, TableType
<1>4. Phase[n] = "unborn"
  <2>1. Of(n) = {}
    BY <1>1 DEF Of
  <2> QED BY <2>1 DEF Phase
<1>5. Phase'[n] = "live" /\ Credential'[n] = n
  BY <1>1, <1>3, TheNextCredential DEF Usable
<1>6. ASSUME NEW r \in Tokens \ {n}
      PROVE  Phase'[r] = Phase[r] /\ Credential'[r] = Credential[r]
  <2>1. \A t \in Tokens : root'[t] = r <=> root[t] = r
    BY <1>2, <1>3, NoTokenAssumption
  <2>2. \A t \in Tokens : root[t] = r => row'[t] = row[t]
    BY <1>2, <1>3, NoTokenAssumption
  <2> QED BY <2>1, <2>2, SameSession
<1>7. n \notin Issued /\ Issued' = Issued \cup {n}
  BY <1>2, <1>3, NoTokenAssumption DEF Issued
<1>8. Phase' = [Phase EXCEPT ![n] = "live"]
  BY <1>5, <1>6 DEF Phase
<1>9. Credential' = [Credential EXCEPT ![n] = n]
  BY <1>5, <1>6 DEF Credential
<1> QED BY <1>4, <1>7, <1>8, <1>9 DEF Contract!Open, Issued

LEMMA StepRefines ==
  ASSUME Inv, [Next]_vars
  PROVE  [Contract!Next]_Contract!vars
<1>0. TableInv /\ TableInv' /\ TableStep
  BY NextInv DEF Inv
<1>1. CASE Falls
  <2> DEFINE E == {s \in Tokens : Phase[s] = "live" /\ Phase'[s] # "live"}
  <2>1. Contract!End(E)
    BY <1>0, <1>1, FallsEnd
  <2>2. E \in SUBSET Tokens
    OBVIOUS
  <2> QED BY <2>1, <2>2 DEF Contract!Next
<1>2. CASE \E o, n \in Tokens : Rotates(o, n)
  <2>1. PICK o \in Tokens, n \in Tokens : Rotates(o, n)
    BY <1>2
  <2>2. root[o] \in Tokens
    BY <1>0, <2>1 DEF TableInv, TableType, RootsOK, Rotates, Usable, Active
  <2>3. Contract!Refresh(root[o], n)
    BY <1>0, <2>1, RotatesRefresh
  <2> QED BY <2>2, <2>3 DEF Contract!Next
<1>3. CASE \E n \in Tokens : Stores(n)
  BY <1>0, <1>3, StoresOpen DEF Contract!Next
<1> QED BY <1>0, <1>1, <1>2, <1>3 DEF TableStep

\* The default engine keeps the same contract as the session tables of V2.
THEOREM ImplementsContractAlways == Spec => ImplementsContract
<1>1. Init => Contract!Init
  BY ContractInit
<1>2. Inv /\ [Next]_vars => [Contract!Next]_Contract!vars
  BY StepRefines
<1> QED
  BY <1>1, <1>2, InvAlways, PTL DEF Spec, ImplementsContract, Contract!Spec
=============================================================================
