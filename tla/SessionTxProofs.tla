-------------------------- MODULE SessionTxProofs --------------------------
(***************************************************************************)
(* Proofs about SessionTx for every number of users, sessions, tokens and  *)
(* workers.                                                                *)
(*                                                                         *)
(* None of the safety invariants is inductive by itself: that a rotation   *)
(* writes to a live family, for instance, depends on which locks the other *)
(* transactions hold at their current statement.  Inv adds what every      *)
(* worker knows about its ids (WorkerIds) and its locks (WorkerLocks).     *)
(***************************************************************************)
EXTENDS SessionTxProps, TLAPS

\* The statements each transaction goes through.
WorkerAt(w) ==
    /\ op[w] = "none" => at[w] = "begin"
    /\ op[w] = "create" =>
         at[w] \in {"insert_session", "insert_family", "insert_token", "commit"}
    /\ op[w] = "rotate" =>
         at[w] \in {"lock_token", "lock_family", "insert_successor",
                    "touch_session", "commit"}
    /\ op[w] \in {"revoke", "revoke_all"} =>
         at[w] \in {"close", "compromise", "revoke_tokens", "commit"}
    /\ op[w] = "replay" =>
         at[w] \in {"lock_family", "close", "revoke_tokens", "commit"}

\* Ids to insert are fresh; ids of existing rows are.
WorkerIds(w) ==
    /\ op[w] = "create" =>
         /\ sid[w] \in Sessions /\ session[sid[w]] = "absent"
         /\ new[w] \in Tokens /\ tokenSession[new[w]] = NoSession
    /\ op[w] = "rotate" =>
         /\ tok[w] \in Tokens /\ tokenSession[tok[w]] \in Sessions
         /\ new[w] \in Tokens /\ tokenSession[new[w]] = NoSession
         /\ IF at[w] = "lock_token" THEN sid[w] = NoSession
                                    ELSE sid[w] = tokenSession[tok[w]]
    /\ op[w] \in {"revoke", "replay"} =>
         sid[w] \in Sessions /\ session[sid[w]] # "absent"
    /\ op[w] \in {"none", "revoke_all"} => sid[w] = NoSession
    /\ op[w] \in {"none", "revoke", "revoke_all", "replay"} => new[w] = NoToken

\* No two workers insert the same row, and nobody works on a session that
\* is still being created.
DistinctIds ==
    \A v, w \in Workers : v # w =>
        /\ new[v] = new[w] => new[v] = NoToken
        /\ op[v] = "create" => sid[v] # sid[w]

Revoking(w) == op[w] \in {"revoke", "revoke_all", "replay"}

\* What a worker's locks say about the rows they protect.
IdleLocks(w) ==
    op[w] = "none" => /\ \A s \in Sessions : sLock[s] # w /\ fLock[s] # w
                      /\ \A t \in Tokens : tLock[t] # w

RotateLocks(w) ==
    op[w] = "rotate" =>
        /\ at[w] # "lock_token" =>
             /\ tLock[tok[w]] = w /\ Usable(tok[w])
             /\ family[tokenSession[tok[w]]] = "valid"
        /\ at[w] \in {"insert_successor", "touch_session", "commit"} =>
             fLock[tokenSession[tok[w]]] = w

RevokeLocks(w) ==
    /\ op[w] = "replay" /\ at[w] # "lock_family" => fLock[sid[w]] = w
    /\ Revoking(w) =>
         /\ \A s \in Sessions : fLock[s] = w =>
              s \in Scope(w) /\ session[s] # "absent"
         /\ \A s \in Sessions : sLock[s] = w =>
              /\ s \in Scope(w) /\ session[s] = "active"
              /\ at[w] \in {"revoke_tokens", "commit"} =>
                   fLock[s] = w \/ family[s] = "compromised"
         /\ \A t \in Tokens : tLock[t] = w => tokenSession[t] # NoSession
         /\ at[w] = "commit" =>
              \A t \in Tokens : Usable(t) /\ fLock[tokenSession[t]] = w
                                  => tLock[t] = w

Rows ==
    /\ \A s \in Sessions : session[s] = "absent" <=> family[s] = "absent"
    /\ \A t \in Tokens : tokenSession[t] # NoSession =>
         session[tokenSession[t]] # "absent"
    /\ \A t \in Tokens : tokenSession[t] = NoSession => parent[t] = NoToken
    /\ \A t \in used \cup revoked : tokenSession[t] # NoSession

WorkersInv ==
    /\ \A w \in Workers : WorkerAt(w) /\ WorkerIds(w)
    /\ DistinctIds
    /\ \A w \in Workers : IdleLocks(w) /\ RotateLocks(w) /\ RevokeLocks(w)

TablesInv ==
    /\ Rows
    /\ LinearChain
    /\ SingleCredential
    /\ CompromisedFamilyIsDead
    /\ ClosedSessionIsDead

Inv == TypeOK /\ WorkersInv /\ TablesInv

-----------------------------------------------------------------------------
(***************************************************************************)
(* Type correctness.                                                       *)
(***************************************************************************)
LEMMA InitType == Init => TypeOK
  BY OwnerAssumption, NullAssumption, WorkerAssumption
     DEF Init, TablesInit, TypeOK, TablesTypeOK, OperationNames, Statements

\* Ending a transaction resets the worker and frees its locks.
LEMMA FinishType ==
  ASSUME TypeOK, NEW w \in Workers, Finish(w), TablesTypeOK'
  PROVE  TypeOK'
  BY DEF TypeOK, Finish, Release, OperationNames, Statements

LEMMA RollbackType ==
  ASSUME TypeOK, NEW w \in Workers, Rollback(w)
  PROVE  TypeOK'
  <1>1. TablesTypeOK'
    BY DEF TypeOK, TablesTypeOK, Rollback, tables
  <1> QED BY <1>1, FinishType DEF Rollback

LEMMA BeginType ==
  ASSUME TypeOK, NEW w \in Workers, Begin(w)
  PROVE  TypeOK'
  <1> USE DEF TypeOK, TablesTypeOK, tables, locks, Goto, OperationNames, Statements
  <1>1. ASSUME NEW s \in Sessions, NEW t \in Tokens, BeginCreate(w, s, t)
        PROVE  TypeOK'
    BY <1>1 DEF BeginCreate
  <1>2. ASSUME NEW t \in Tokens, NEW n \in Tokens, BeginRotate(w, t, n)
        PROVE  TypeOK'
    BY <1>2 DEF BeginRotate
  <1>3. ASSUME NEW s \in Sessions, BeginRevoke(w, s)
        PROVE  TypeOK'
    BY <1>3 DEF BeginRevoke
  <1>4. ASSUME NEW u \in Users, BeginRevokeAll(w, u)
        PROVE  TypeOK'
    BY <1>4 DEF BeginRevokeAll
  <1>5. ASSUME NEW t \in Tokens, BeginReplay(w, t)
        PROVE  TypeOK'
    BY <1>5 DEF BeginReplay
  <1> QED BY <1>1, <1>2, <1>3, <1>4, <1>5 DEF Begin

LEMMA StepType ==
  ASSUME TypeOK, NEW w \in Workers, WorkerAt(w), WorkerIds(w), Step(w)
  PROVE  TypeOK'
  <1> USE DEF TypeOK, TablesTypeOK, tables, locks, Goto, OperationNames, Statements
  <1>1. ASSUME InsertSession(w) PROVE TypeOK'
    BY <1>1 DEF InsertSession
  <1>2. ASSUME InsertFamily(w) PROVE TypeOK'
    BY <1>2 DEF InsertFamily
  <1>3. ASSUME InsertToken(w) PROVE TypeOK'
    BY <1>3 DEF InsertToken
  <1>4. ASSUME LockToken(w) PROVE TypeOK'
    BY <1>4, NullAssumption DEF LockToken, WorkerAt, WorkerIds
  <1>5. ASSUME LockFamily(w) PROVE TypeOK'
    BY <1>5 DEF LockFamily
  <1>6. ASSUME InsertSuccessor(w) PROVE TypeOK'
    BY <1>6 DEF InsertSuccessor
  <1>7. ASSUME TouchSession(w) PROVE TypeOK'
    BY <1>7 DEF TouchSession
  <1>8. ASSUME LockFamilyForReplay(w) PROVE TypeOK'
    BY <1>8 DEF LockFamilyForReplay
  <1>9. ASSUME CloseSessions(w) PROVE TypeOK'
    BY <1>9 DEF CloseSessions
  <1>10. ASSUME CompromiseFamilies(w) PROVE TypeOK'
    BY <1>10 DEF CompromiseFamilies
  <1>11. ASSUME RevokeTokens(w) PROVE TypeOK'
    BY <1>11 DEF RevokeTokens
  <1>12. ASSUME Reject(w) PROVE TypeOK'
    BY <1>12, RollbackType DEF Reject
  <1>13. ASSUME CommitCreate(w) PROVE TypeOK'
    <2>1. TablesTypeOK'
      BY <1>13 DEF CommitCreate, CreateRows, expiry
    <2> QED BY <1>13, <2>1, FinishType DEF CommitCreate
  <1>14. ASSUME CommitRotate(w) PROVE TypeOK'
    <2>1. TablesTypeOK'
      BY <1>14 DEF CommitRotate, RotateRows, expiry, WorkerIds
    <2> QED BY <1>14, <2>1, FinishType DEF CommitRotate
  <1>15. ASSUME CommitRevoke(w) PROVE TypeOK'
    <2>1. TablesTypeOK'
      BY <1>15 DEF CommitRevoke, RevokeRows, expiry
    <2> QED BY <1>15, <2>1, FinishType DEF CommitRevoke
  <1> HIDE DEF TypeOK
  <1> QED BY <1>1, <1>2, <1>3, <1>4, <1>5, <1>6, <1>7, <1>8, <1>9, <1>10, <1>11, <1>12, <1>13, <1>14, <1>15 DEF Step


-----------------------------------------------------------------------------
(***************************************************************************)
(* Each statement preserves what the workers know.                         *)
(***************************************************************************)

LEMMA BeginCreateInv ==
  ASSUME Inv, NEW v \in Workers, NEW s \in Sessions, NEW t \in Tokens, BeginCreate(v, s, t)
  PROVE  WorkersInv'
  <1> USE NullAssumption, WorkerAssumption
      DEF Inv, TypeOK, TablesTypeOK, WorkersInv, TablesInv, Rows, tables, locks,
          Goto, Revoking, Usable, Free, Issued
  <1>1. ASSUME NEW w \in Workers PROVE (WorkerAt(w) /\ WorkerIds(w))'
    BY DEF BeginCreate, FreshSession, FreshToken, WorkerAt, WorkerIds, DistinctIds
  <1>2. DistinctIds'
    BY DEF BeginCreate, FreshSession, FreshToken, WorkerAt, WorkerIds, DistinctIds
  <1>3. ASSUME NEW w \in Workers PROVE IdleLocks(w)'
    BY DEF BeginCreate, FreshSession, FreshToken, WorkerAt, WorkerIds, IdleLocks
  <1>4. ASSUME NEW w \in Workers PROVE RotateLocks(w)'
    BY DEF BeginCreate, FreshSession, FreshToken, WorkerAt, WorkerIds, DistinctIds, RotateLocks, IdleLocks
  <1>5. ASSUME NEW w \in Workers PROVE RevokeLocks(w)'
    BY DEF BeginCreate, FreshSession, FreshToken, WorkerAt, WorkerIds, DistinctIds, RevokeLocks, RotateLocks,
           IdleLocks, Scope
  <1> QED BY <1>1, <1>2, <1>3, <1>4, <1>5

LEMMA BeginRotateInv ==
  ASSUME Inv, NEW v \in Workers, NEW t \in Tokens, NEW n \in Tokens, BeginRotate(v, t, n)
  PROVE  WorkersInv'
  <1> USE NullAssumption, WorkerAssumption
      DEF Inv, TypeOK, TablesTypeOK, WorkersInv, TablesInv, Rows, tables, locks,
          Goto, Revoking, Usable, Free, Issued
  <1>1. ASSUME NEW w \in Workers PROVE (WorkerAt(w) /\ WorkerIds(w))'
    BY DEF BeginRotate, FreshToken, WorkerAt, WorkerIds, DistinctIds
  <1>2. DistinctIds'
    BY DEF BeginRotate, FreshToken, WorkerAt, WorkerIds, DistinctIds
  <1>3. ASSUME NEW w \in Workers PROVE IdleLocks(w)'
    BY DEF BeginRotate, FreshToken, WorkerAt, WorkerIds, IdleLocks
  <1>4. ASSUME NEW w \in Workers PROVE RotateLocks(w)'
    BY DEF BeginRotate, FreshToken, WorkerAt, WorkerIds, DistinctIds, RotateLocks, IdleLocks
  <1>5. ASSUME NEW w \in Workers PROVE RevokeLocks(w)'
    BY DEF BeginRotate, FreshToken, WorkerAt, WorkerIds, DistinctIds, RevokeLocks, RotateLocks,
           IdleLocks, Scope
  <1> QED BY <1>1, <1>2, <1>3, <1>4, <1>5

LEMMA BeginRevokeInv ==
  ASSUME Inv, NEW v \in Workers, NEW s \in Sessions, BeginRevoke(v, s)
  PROVE  WorkersInv'
  <1> USE NullAssumption, WorkerAssumption
      DEF Inv, TypeOK, TablesTypeOK, WorkersInv, TablesInv, Rows, tables, locks,
          Goto, Revoking, Usable, Free, Issued
  <1>1. ASSUME NEW w \in Workers PROVE (WorkerAt(w) /\ WorkerIds(w))'
    BY DEF BeginRevoke, WorkerAt, WorkerIds, DistinctIds
  <1>2. DistinctIds'
    BY DEF BeginRevoke, WorkerAt, WorkerIds, DistinctIds
  <1>3. ASSUME NEW w \in Workers PROVE IdleLocks(w)'
    BY DEF BeginRevoke, WorkerAt, WorkerIds, IdleLocks
  <1>4. ASSUME NEW w \in Workers PROVE RotateLocks(w)'
    BY DEF BeginRevoke, WorkerAt, WorkerIds, DistinctIds, RotateLocks, IdleLocks
  <1>5. ASSUME NEW w \in Workers PROVE RevokeLocks(w)'
    BY DEF BeginRevoke, WorkerAt, WorkerIds, DistinctIds, RevokeLocks, RotateLocks,
           IdleLocks, Scope
  <1> QED BY <1>1, <1>2, <1>3, <1>4, <1>5

LEMMA BeginRevokeAllInv ==
  ASSUME Inv, NEW v \in Workers, NEW u \in Users, BeginRevokeAll(v, u)
  PROVE  WorkersInv'
  <1> USE NullAssumption, WorkerAssumption
      DEF Inv, TypeOK, TablesTypeOK, WorkersInv, TablesInv, Rows, tables, locks,
          Goto, Revoking, Usable, Free, Issued
  <1>1. ASSUME NEW w \in Workers PROVE (WorkerAt(w) /\ WorkerIds(w))'
    BY DEF BeginRevokeAll, WorkerAt, WorkerIds, DistinctIds
  <1>2. DistinctIds'
    BY DEF BeginRevokeAll, WorkerAt, WorkerIds, DistinctIds
  <1>3. ASSUME NEW w \in Workers PROVE IdleLocks(w)'
    BY DEF BeginRevokeAll, WorkerAt, WorkerIds, IdleLocks
  <1>4. ASSUME NEW w \in Workers PROVE RotateLocks(w)'
    BY DEF BeginRevokeAll, WorkerAt, WorkerIds, DistinctIds, RotateLocks, IdleLocks
  <1>5. ASSUME NEW w \in Workers PROVE RevokeLocks(w)'
    BY DEF BeginRevokeAll, WorkerAt, WorkerIds, DistinctIds, RevokeLocks, RotateLocks,
           IdleLocks, Scope
  <1> QED BY <1>1, <1>2, <1>3, <1>4, <1>5

LEMMA BeginReplayInv ==
  ASSUME Inv, NEW v \in Workers, NEW t \in Tokens, BeginReplay(v, t)
  PROVE  WorkersInv'
  <1> USE NullAssumption, WorkerAssumption
      DEF Inv, TypeOK, TablesTypeOK, WorkersInv, TablesInv, Rows, tables, locks,
          Goto, Revoking, Usable, Free, Issued
  <1>1. ASSUME NEW w \in Workers PROVE (WorkerAt(w) /\ WorkerIds(w))'
    BY DEF BeginReplay, WorkerAt, WorkerIds, DistinctIds
  <1>2. DistinctIds'
    BY DEF BeginReplay, WorkerAt, WorkerIds, DistinctIds
  <1>3. ASSUME NEW w \in Workers PROVE IdleLocks(w)'
    BY DEF BeginReplay, WorkerAt, WorkerIds, IdleLocks
  <1>4. ASSUME NEW w \in Workers PROVE RotateLocks(w)'
    BY DEF BeginReplay, WorkerAt, WorkerIds, DistinctIds, RotateLocks, IdleLocks
  <1>5. ASSUME NEW w \in Workers PROVE RevokeLocks(w)'
    BY DEF BeginReplay, WorkerAt, WorkerIds, DistinctIds, RevokeLocks, RotateLocks,
           IdleLocks, Scope
  <1> QED BY <1>1, <1>2, <1>3, <1>4, <1>5

LEMMA InsertSessionInv ==
  ASSUME Inv, NEW v \in Workers, InsertSession(v)
  PROVE  WorkersInv'
  <1> USE NullAssumption, WorkerAssumption
      DEF Inv, TypeOK, TablesTypeOK, WorkersInv, TablesInv, Rows, tables, locks,
          Goto, Revoking, Usable, Free, Issued
  <1>1. ASSUME NEW w \in Workers PROVE (WorkerAt(w) /\ WorkerIds(w))'
    BY DEF InsertSession, WorkerAt, WorkerIds, DistinctIds
  <1>2. DistinctIds'
    BY DEF InsertSession, WorkerAt, WorkerIds, DistinctIds
  <1>3. ASSUME NEW w \in Workers PROVE IdleLocks(w)'
    BY DEF InsertSession, WorkerAt, WorkerIds, IdleLocks
  <1>4. ASSUME NEW w \in Workers PROVE RotateLocks(w)'
    BY DEF InsertSession, WorkerAt, WorkerIds, DistinctIds, RotateLocks, IdleLocks
  <1>5. ASSUME NEW w \in Workers PROVE RevokeLocks(w)'
    BY DEF InsertSession, WorkerAt, WorkerIds, DistinctIds, RevokeLocks, RotateLocks,
           IdleLocks, Scope
  <1> QED BY <1>1, <1>2, <1>3, <1>4, <1>5

LEMMA InsertFamilyInv ==
  ASSUME Inv, NEW v \in Workers, InsertFamily(v)
  PROVE  WorkersInv'
  <1> USE NullAssumption, WorkerAssumption
      DEF Inv, TypeOK, TablesTypeOK, WorkersInv, TablesInv, Rows, tables, locks,
          Goto, Revoking, Usable, Free, Issued
  <1>1. ASSUME NEW w \in Workers PROVE (WorkerAt(w) /\ WorkerIds(w))'
    BY DEF InsertFamily, WorkerAt, WorkerIds, DistinctIds
  <1>2. DistinctIds'
    BY DEF InsertFamily, WorkerAt, WorkerIds, DistinctIds
  <1>3. ASSUME NEW w \in Workers PROVE IdleLocks(w)'
    BY DEF InsertFamily, WorkerAt, WorkerIds, IdleLocks
  <1>4. ASSUME NEW w \in Workers PROVE RotateLocks(w)'
    <2>1. op[v] = "create" /\ sid[v] \in Sessions /\ session[sid[v]] = "absent"
      BY DEF InsertFamily, WorkerAt, WorkerIds, OperationNames
    <2>2. WorkerAt(w) /\ WorkerIds(w) /\ RotateLocks(w) /\ RevokeLocks(w)
      OBVIOUS
    <2>3. op[w] = "rotate" => sid[v] # tokenSession[tok[w]]
      BY <2>1, <2>2 DEF WorkerIds
    <2> QED BY <2>1, <2>2, <2>3 DEF InsertFamily, RotateLocks, WorkerIds
  <1>5. ASSUME NEW w \in Workers PROVE RevokeLocks(w)'
    <2>1. op[v] = "create" /\ sid[v] \in Sessions /\ session[sid[v]] = "absent"
      BY DEF InsertFamily, WorkerAt, WorkerIds, OperationNames
    <2>2. WorkerAt(w) /\ WorkerIds(w) /\ RotateLocks(w) /\ RevokeLocks(w)
      OBVIOUS
    <2>3. CASE w = v
      BY <2>1, <2>3 DEF InsertFamily, RevokeLocks
    <2>4. CASE w # v /\ Revoking(w)
      <3>1. fLock[sid[v]] # w /\ (op[w] = "replay" => sid[w] # sid[v])
        BY <2>1, <2>2, <2>4 DEF RevokeLocks, WorkerIds
      <3>2. \A t \in Tokens : Usable(t) => tokenSession[t] # sid[v]
        BY <2>1
      <3> QED BY <2>1, <2>2, <2>4, <3>1, <3>2 DEF InsertFamily, RevokeLocks, Scope
    <2> QED BY <2>2, <2>3, <2>4 DEF InsertFamily, RevokeLocks
  <1> QED BY <1>1, <1>2, <1>3, <1>4, <1>5

LEMMA InsertTokenInv ==
  ASSUME Inv, NEW v \in Workers, InsertToken(v)
  PROVE  WorkersInv'
  <1> USE NullAssumption, WorkerAssumption
      DEF Inv, TypeOK, TablesTypeOK, WorkersInv, TablesInv, Rows, tables, locks,
          Goto, Revoking, Usable, Free, Issued
  <1>1. ASSUME NEW w \in Workers PROVE (WorkerAt(w) /\ WorkerIds(w))'
    BY DEF InsertToken, WorkerAt, WorkerIds, DistinctIds
  <1>2. DistinctIds'
    BY DEF InsertToken, WorkerAt, WorkerIds, DistinctIds
  <1>3. ASSUME NEW w \in Workers PROVE IdleLocks(w)'
    BY DEF InsertToken, WorkerAt, WorkerIds, IdleLocks
  <1>4. ASSUME NEW w \in Workers PROVE RotateLocks(w)'
    <2>1. new[v] \in Tokens /\ tokenSession[new[v]] = NoSession
          /\ op[v] = "create"
      BY DEF InsertToken, WorkerAt, WorkerIds, OperationNames
    <2>2. WorkerAt(w) /\ WorkerIds(w) /\ RotateLocks(w) /\ RevokeLocks(w)
      OBVIOUS
    <2>3. op[w] = "rotate" => new[v] # tok[w]
      BY <2>1, <2>2 DEF WorkerIds
    <2> QED BY <2>1, <2>2, <2>3 DEF InsertToken, RotateLocks, WorkerIds
  <1>5. ASSUME NEW w \in Workers PROVE RevokeLocks(w)'
    <2>1. new[v] \in Tokens /\ tokenSession[new[v]] = NoSession
          /\ op[v] = "create"
      BY DEF InsertToken, WorkerAt, WorkerIds, OperationNames
    <2>2. WorkerAt(w) /\ WorkerIds(w) /\ RotateLocks(w) /\ RevokeLocks(w)
      OBVIOUS
    <2>3. CASE Revoking(w)
      <3>1. w # v /\ tLock[new[v]] # w /\ ~Usable(new[v])
        BY <2>1, <2>2, <2>3 DEF RevokeLocks
      <3> QED BY <2>1, <2>2, <2>3, <3>1 DEF InsertToken, RevokeLocks, Scope
    <2> QED BY <2>1, <2>2, <2>3 DEF InsertToken, RevokeLocks
  <1> QED BY <1>1, <1>2, <1>3, <1>4, <1>5

LEMMA LockTokenInv ==
  ASSUME Inv, NEW v \in Workers, LockToken(v)
  PROVE  WorkersInv'
  <1> USE NullAssumption, WorkerAssumption
      DEF Inv, TypeOK, TablesTypeOK, WorkersInv, TablesInv, Rows, tables, locks,
          Goto, Revoking, Usable, Free, Issued
  <1>1. ASSUME NEW w \in Workers PROVE (WorkerAt(w) /\ WorkerIds(w))'
    BY DEF LockToken, TokenAccepted, WorkerAt, WorkerIds, DistinctIds
  <1>2. DistinctIds'
    <2>1. op[v] = "rotate" /\ tok[v] \in Tokens
          /\ tokenSession[tok[v]] \in Sessions
          /\ session[tokenSession[tok[v]]] # "absent"
      BY DEF LockToken, WorkerAt, WorkerIds, OperationNames
    <2>2. \A w \in Workers : op[w] = "create" => session[sid[w]] = "absent"
      BY DEF WorkerIds
    <2>3. DistinctIds
      OBVIOUS
    <2> QED BY <2>1, <2>2, <2>3 DEF LockToken, DistinctIds
  <1>3. ASSUME NEW w \in Workers PROVE IdleLocks(w)'
    BY DEF LockToken, TokenAccepted, WorkerAt, WorkerIds, IdleLocks
  <1>4. ASSUME NEW w \in Workers PROVE RotateLocks(w)'
    <2>1. op[v] = "rotate" /\ tok[v] \in Tokens
      BY DEF LockToken, WorkerAt, WorkerIds, OperationNames
    <2>2. RotateLocks(w) /\ WorkerIds(w) /\ WorkerAt(w)
      OBVIOUS
    <2>3. Usable(tok[v]) /\ Free(tLock[tok[v]], v)
      BY DEF LockToken, TokenAccepted
    <2>4. family[tokenSession[tok[v]]] = "valid"
      BY <2>1, <2>3 DEF CompromisedFamilyIsDead
    <2>5. CASE w = v
      BY <2>1, <2>3, <2>4, <2>5 DEF LockToken, RotateLocks
    <2>6. CASE w # v
      BY <2>1, <2>2, <2>3, <2>6 DEF LockToken, RotateLocks
    <2> QED BY <2>5, <2>6
  <1>5. ASSUME NEW w \in Workers PROVE RevokeLocks(w)'
    BY DEF LockToken, TokenAccepted, WorkerAt, WorkerIds, DistinctIds, RevokeLocks, RotateLocks,
           IdleLocks, Scope
  <1> QED BY <1>1, <1>2, <1>3, <1>4, <1>5

LEMMA LockFamilyInv ==
  ASSUME Inv, NEW v \in Workers, LockFamily(v)
  PROVE  WorkersInv'
  <1> USE NullAssumption, WorkerAssumption
      DEF Inv, TypeOK, TablesTypeOK, WorkersInv, TablesInv, Rows, tables, locks,
          Goto, Revoking, Usable, Free, Issued
  <1>1. ASSUME NEW w \in Workers PROVE (WorkerAt(w) /\ WorkerIds(w))'
    BY DEF LockFamily, WorkerAt, WorkerIds, DistinctIds
  <1>2. DistinctIds'
    BY DEF LockFamily, WorkerAt, WorkerIds, DistinctIds
  <1>3. ASSUME NEW w \in Workers PROVE IdleLocks(w)'
    BY DEF LockFamily, WorkerAt, WorkerIds, IdleLocks
  <1>4. ASSUME NEW w \in Workers PROVE RotateLocks(w)'
    BY DEF LockFamily, WorkerAt, WorkerIds, DistinctIds, RotateLocks, IdleLocks
  <1>5. ASSUME NEW w \in Workers PROVE RevokeLocks(w)'
    BY DEF LockFamily, WorkerAt, WorkerIds, DistinctIds, RevokeLocks, RotateLocks,
           IdleLocks, Scope
  <1> QED BY <1>1, <1>2, <1>3, <1>4, <1>5

LEMMA InsertSuccessorInv ==
  ASSUME Inv, NEW v \in Workers, InsertSuccessor(v)
  PROVE  WorkersInv'
  <1> USE NullAssumption, WorkerAssumption
      DEF Inv, TypeOK, TablesTypeOK, WorkersInv, TablesInv, Rows, tables, locks,
          Goto, Revoking, Usable, Free, Issued
  <1>1. ASSUME NEW w \in Workers PROVE (WorkerAt(w) /\ WorkerIds(w))'
    BY DEF InsertSuccessor, WorkerAt, WorkerIds, DistinctIds
  <1>2. DistinctIds'
    BY DEF InsertSuccessor, WorkerAt, WorkerIds, DistinctIds
  <1>3. ASSUME NEW w \in Workers PROVE IdleLocks(w)'
    BY DEF InsertSuccessor, WorkerAt, WorkerIds, IdleLocks
  <1>4. ASSUME NEW w \in Workers PROVE RotateLocks(w)'
    <2>1. new[v] \in Tokens /\ tokenSession[new[v]] = NoSession
          /\ op[v] \in {"create", "rotate"}
      BY DEF InsertSuccessor, WorkerAt, WorkerIds, OperationNames
    <2>2. WorkerAt(w) /\ WorkerIds(w) /\ RotateLocks(w) /\ RevokeLocks(w)
      OBVIOUS
    <2>3. op[w] = "rotate" => new[v] # tok[w]
      BY <2>1, <2>2 DEF WorkerIds
    <2> QED BY <2>1, <2>2, <2>3 DEF InsertSuccessor, RotateLocks, WorkerIds
  <1>5. ASSUME NEW w \in Workers PROVE RevokeLocks(w)'
    <2>1. new[v] \in Tokens /\ tokenSession[new[v]] = NoSession
          /\ op[v] \in {"create", "rotate"}
      BY DEF InsertSuccessor, WorkerAt, WorkerIds, OperationNames
    <2>2. WorkerAt(w) /\ WorkerIds(w) /\ RotateLocks(w) /\ RevokeLocks(w)
      OBVIOUS
    <2>3. CASE Revoking(w)
      <3>1. w # v /\ tLock[new[v]] # w /\ ~Usable(new[v])
        BY <2>1, <2>2, <2>3 DEF RevokeLocks
      <3> QED BY <2>1, <2>2, <2>3, <3>1 DEF InsertSuccessor, RevokeLocks, Scope
    <2> QED BY <2>1, <2>2, <2>3 DEF InsertSuccessor, RevokeLocks
  <1> QED BY <1>1, <1>2, <1>3, <1>4, <1>5

LEMMA TouchSessionInv ==
  ASSUME Inv, NEW v \in Workers, TouchSession(v)
  PROVE  WorkersInv'
  <1> USE NullAssumption, WorkerAssumption
      DEF Inv, TypeOK, TablesTypeOK, WorkersInv, TablesInv, Rows, tables, locks,
          Goto, Revoking, Usable, Free, Issued
  <1>1. ASSUME NEW w \in Workers PROVE (WorkerAt(w) /\ WorkerIds(w))'
    BY DEF TouchSession, WorkerAt, WorkerIds, DistinctIds
  <1>2. DistinctIds'
    BY DEF TouchSession, WorkerAt, WorkerIds, DistinctIds
  <1>3. ASSUME NEW w \in Workers PROVE IdleLocks(w)'
    BY DEF TouchSession, WorkerAt, WorkerIds, IdleLocks
  <1>4. ASSUME NEW w \in Workers PROVE RotateLocks(w)'
    BY DEF TouchSession, WorkerAt, WorkerIds, DistinctIds, RotateLocks, IdleLocks
  <1>5. ASSUME NEW w \in Workers PROVE RevokeLocks(w)'
    BY DEF TouchSession, WorkerAt, WorkerIds, DistinctIds, RevokeLocks, RotateLocks,
           IdleLocks, Scope
  <1> QED BY <1>1, <1>2, <1>3, <1>4, <1>5

LEMMA LockFamilyForReplayInv ==
  ASSUME Inv, NEW v \in Workers, LockFamilyForReplay(v)
  PROVE  WorkersInv'
  <1> USE NullAssumption, WorkerAssumption
      DEF Inv, TypeOK, TablesTypeOK, WorkersInv, TablesInv, Rows, tables, locks,
          Goto, Revoking, Usable, Free, Issued
  <1>1. ASSUME NEW w \in Workers PROVE (WorkerAt(w) /\ WorkerIds(w))'
    BY DEF LockFamilyForReplay, WorkerAt, WorkerIds, DistinctIds
  <1>2. DistinctIds'
    BY DEF LockFamilyForReplay, WorkerAt, WorkerIds, DistinctIds
  <1>3. ASSUME NEW w \in Workers PROVE IdleLocks(w)'
    BY DEF LockFamilyForReplay, WorkerAt, WorkerIds, IdleLocks
  <1>4. ASSUME NEW w \in Workers PROVE RotateLocks(w)'
    BY DEF LockFamilyForReplay, WorkerAt, WorkerIds, DistinctIds, RotateLocks, IdleLocks
  <1>5. ASSUME NEW w \in Workers PROVE RevokeLocks(w)'
    BY DEF LockFamilyForReplay, WorkerAt, WorkerIds, DistinctIds, RevokeLocks, RotateLocks,
           IdleLocks, Scope
  <1> QED BY <1>1, <1>2, <1>3, <1>4, <1>5

LEMMA CloseSessionsInv ==
  ASSUME Inv, NEW v \in Workers, CloseSessions(v)
  PROVE  WorkersInv'
  <1> USE NullAssumption, WorkerAssumption
      DEF Inv, TypeOK, TablesTypeOK, WorkersInv, TablesInv, Rows, tables, locks,
          Goto, Revoking, Usable, Free, Issued
  <1>1. ASSUME NEW w \in Workers PROVE (WorkerAt(w) /\ WorkerIds(w))'
    BY DEF CloseSessions, ActiveUnexpired, WorkerAt, WorkerIds, DistinctIds
  <1>2. DistinctIds'
    BY DEF CloseSessions, ActiveUnexpired, WorkerAt, WorkerIds, DistinctIds
  <1>3. ASSUME NEW w \in Workers PROVE IdleLocks(w)'
    BY DEF CloseSessions, ActiveUnexpired, WorkerAt, WorkerIds, IdleLocks
  <1>4. ASSUME NEW w \in Workers PROVE RotateLocks(w)'
    BY DEF CloseSessions, ActiveUnexpired, WorkerAt, WorkerIds, DistinctIds, RotateLocks, IdleLocks
  <1>5. ASSUME NEW w \in Workers PROVE RevokeLocks(w)'
    BY DEF CloseSessions, ActiveUnexpired, WorkerAt, WorkerIds, DistinctIds, RevokeLocks, RotateLocks,
           IdleLocks, Scope
  <1> QED BY <1>1, <1>2, <1>3, <1>4, <1>5

LEMMA CompromiseFamiliesInv ==
  ASSUME Inv, NEW v \in Workers, CompromiseFamilies(v)
  PROVE  WorkersInv'
  <1> USE NullAssumption, WorkerAssumption
      DEF Inv, TypeOK, TablesTypeOK, WorkersInv, TablesInv, Rows, tables, locks,
          Goto, Revoking, Usable, Free, Issued
  <1>1. ASSUME NEW w \in Workers PROVE (WorkerAt(w) /\ WorkerIds(w))'
    BY DEF CompromiseFamilies, WorkerAt, WorkerIds, DistinctIds
  <1>2. DistinctIds'
    BY DEF CompromiseFamilies, WorkerAt, WorkerIds, DistinctIds
  <1>3. ASSUME NEW w \in Workers PROVE IdleLocks(w)'
    BY DEF CompromiseFamilies, WorkerAt, WorkerIds, IdleLocks
  <1>4. ASSUME NEW w \in Workers PROVE RotateLocks(w)'
    BY DEF CompromiseFamilies, WorkerAt, WorkerIds, DistinctIds, RotateLocks, IdleLocks
  <1>5. ASSUME NEW w \in Workers PROVE RevokeLocks(w)'
    BY DEF CompromiseFamilies, WorkerAt, WorkerIds, DistinctIds, RevokeLocks, RotateLocks,
           IdleLocks, Scope
  <1> QED BY <1>1, <1>2, <1>3, <1>4, <1>5

LEMMA RevokeTokensInv ==
  ASSUME Inv, NEW v \in Workers, RevokeTokens(v)
  PROVE  WorkersInv'
  <1> USE NullAssumption, WorkerAssumption
      DEF Inv, TypeOK, TablesTypeOK, WorkersInv, TablesInv, Rows, tables, locks,
          Goto, Revoking, Usable, Free, Issued
  <1>1. ASSUME NEW w \in Workers PROVE (WorkerAt(w) /\ WorkerIds(w))'
    BY DEF RevokeTokens, RowSession, WorkerAt, WorkerIds, DistinctIds
  <1>2. DistinctIds'
    BY DEF RevokeTokens, RowSession, WorkerAt, WorkerIds, DistinctIds
  <1>3. ASSUME NEW w \in Workers PROVE IdleLocks(w)'
    BY DEF RevokeTokens, RowSession, WorkerAt, WorkerIds, IdleLocks
  <1>4. ASSUME NEW w \in Workers PROVE RotateLocks(w)'
    BY DEF RevokeTokens, RowSession, WorkerAt, WorkerIds, DistinctIds, RotateLocks, IdleLocks
  <1>5. ASSUME NEW w \in Workers PROVE RevokeLocks(w)'
    <2>1. Revoking(v) /\ v # NoWorker
      BY DEF RevokeTokens, WorkerAt, OperationNames
    <2>2. RevokeLocks(w) /\ RevokeLocks(v)
      OBVIOUS
    <2>3. \A t \in Tokens : tokenSession[t] \in Scope(v) =>
            tokenSession[t] # NoSession /\ tLock[t] \in {NoWorker, v}
      BY DEF RevokeTokens, RowSession, Scope
    <2>4. CASE w = v
      BY <2>1, <2>2, <2>3, <2>4 DEF RevokeTokens, RevokeLocks, Scope
    <2>5. CASE w # v
      <3>1. \A t \in Tokens : (tLock[t] = w) <=> (tLock'[t] = w)
        BY <2>3, <2>5 DEF RevokeTokens
      <3> QED BY <2>2, <2>5, <3>1 DEF RevokeTokens, RevokeLocks, Scope
    <2> QED BY <2>4, <2>5
  <1> QED BY <1>1, <1>2, <1>3, <1>4, <1>5

LEMMA RollbackInv ==
  ASSUME Inv, NEW v \in Workers, Rollback(v)
  PROVE  WorkersInv'
  <1> USE NullAssumption, WorkerAssumption
      DEF Inv, TypeOK, TablesTypeOK, WorkersInv, TablesInv, Rows, tables, locks,
          Goto, Revoking, Usable, Free, Issued
  <1>1. ASSUME NEW w \in Workers PROVE (WorkerAt(w) /\ WorkerIds(w))'
    BY DEF Rollback, Finish, Release, WorkerAt, WorkerIds, DistinctIds
  <1>2. DistinctIds'
    BY DEF Rollback, Finish, Release, WorkerAt, WorkerIds, DistinctIds
  <1>3. ASSUME NEW w \in Workers PROVE IdleLocks(w)'
    BY DEF Rollback, Finish, Release, WorkerAt, WorkerIds, IdleLocks
  <1>4. ASSUME NEW w \in Workers PROVE RotateLocks(w)'
    BY DEF Rollback, Finish, Release, WorkerAt, WorkerIds, DistinctIds, RotateLocks, IdleLocks
  <1>5. ASSUME NEW w \in Workers PROVE RevokeLocks(w)'
    BY DEF Rollback, Finish, Release, WorkerAt, WorkerIds, DistinctIds, RevokeLocks, RotateLocks,
           IdleLocks, Scope
  <1> QED BY <1>1, <1>2, <1>3, <1>4, <1>5

-----------------------------------------------------------------------------
(***************************************************************************)
(* The three commits that write tables.                                    *)
(***************************************************************************)

LEMMA CommitCreateWorkersInv ==
  ASSUME Inv, NEW v \in Workers, CommitCreate(v)
  PROVE  WorkersInv'
  <1> USE NullAssumption, WorkerAssumption
      DEF Inv, TypeOK, TablesTypeOK, WorkersInv, TablesInv, Rows, tables, locks,
          Goto, Revoking, Usable, Free, Issued
  <1>1. ASSUME NEW w \in Workers PROVE (WorkerAt(w) /\ WorkerIds(w))'
    BY DEF CommitCreate, CreateRows, expiry, Finish, Release, WorkerAt, WorkerIds, DistinctIds
  <1>2. DistinctIds'
    BY DEF CommitCreate, CreateRows, expiry, Finish, Release, WorkerAt, WorkerIds, DistinctIds
  <1>3. ASSUME NEW w \in Workers PROVE IdleLocks(w)'
    BY DEF CommitCreate, CreateRows, expiry, Finish, Release, WorkerAt, WorkerIds, IdleLocks
  <1>4. ASSUME NEW w \in Workers PROVE RotateLocks(w)'
    BY DEF CommitCreate, CreateRows, expiry, Finish, Release, WorkerAt, WorkerIds, DistinctIds, RotateLocks, IdleLocks
  <1>5. ASSUME NEW w \in Workers PROVE RevokeLocks(w)'
    BY DEF CommitCreate, CreateRows, expiry, Finish, Release, WorkerAt, WorkerIds, DistinctIds, RevokeLocks, RotateLocks,
           IdleLocks, Scope
  <1> QED BY <1>1, <1>2, <1>3, <1>4, <1>5

LEMMA CommitCreateTablesInv ==
  ASSUME Inv, NEW v \in Workers, CommitCreate(v)
  PROVE  TablesInv'
  <1> USE NullAssumption, WorkerAssumption
      DEF Inv, TypeOK, TablesTypeOK, WorkersInv, TablesInv, Rows, tables, locks,
          Goto, Revoking, Usable, Free, Issued
  <1>1. Rows'
    BY DEF CommitCreate, CreateRows, expiry, Finish, Release, WorkerIds, RevokeLocks
  <1>2. LinearChain'
    BY DEF CommitCreate, CreateRows, expiry, Finish, Release, WorkerIds, LinearChain, RotateLocks
  <1>3. SingleCredential'
    BY DEF CommitCreate, CreateRows, expiry, Finish, Release, WorkerIds, SingleCredential, RotateLocks
  <1>4. CompromisedFamilyIsDead'
    BY DEF CommitCreate, CreateRows, expiry, Finish, Release, WorkerIds, CompromisedFamilyIsDead, RotateLocks, RevokeLocks
  <1>5. ClosedSessionIsDead'
    BY DEF CommitCreate, CreateRows, expiry, Finish, Release, WorkerIds, ClosedSessionIsDead, RevokeLocks
  <1> QED BY <1>1, <1>2, <1>3, <1>4, <1>5

LEMMA CommitRotateWorkersInv ==
  ASSUME Inv, NEW v \in Workers, CommitRotate(v)
  PROVE  WorkersInv'
  <1> USE NullAssumption, WorkerAssumption
      DEF Inv, TypeOK, TablesTypeOK, WorkersInv, TablesInv, Rows, tables, locks,
          Goto, Revoking, Usable, Free, Issued
  <1>1. ASSUME NEW w \in Workers PROVE (WorkerAt(w) /\ WorkerIds(w))'
    BY DEF CommitRotate, RotateRows, expiry, Finish, Release, WorkerAt, WorkerIds, DistinctIds
  <1>2. DistinctIds'
    BY DEF CommitRotate, RotateRows, expiry, Finish, Release, WorkerAt, WorkerIds, DistinctIds
  <1>3. ASSUME NEW w \in Workers PROVE IdleLocks(w)'
    BY DEF CommitRotate, RotateRows, expiry, Finish, Release, WorkerAt, WorkerIds, IdleLocks
  <1>4. ASSUME NEW w \in Workers PROVE RotateLocks(w)'
    BY DEF CommitRotate, RotateRows, expiry, Finish, Release, WorkerAt, WorkerIds, DistinctIds, RotateLocks, IdleLocks
  <1>5. ASSUME NEW w \in Workers PROVE RevokeLocks(w)'
    BY DEF CommitRotate, RotateRows, expiry, Finish, Release, WorkerAt, WorkerIds, DistinctIds, RevokeLocks, RotateLocks,
           IdleLocks, Scope
  <1> QED BY <1>1, <1>2, <1>3, <1>4, <1>5

LEMMA CommitRotateTablesInv ==
  ASSUME Inv, NEW v \in Workers, CommitRotate(v)
  PROVE  TablesInv'
  <1> USE NullAssumption, WorkerAssumption
      DEF Inv, TypeOK, TablesTypeOK, WorkersInv, TablesInv, Rows, tables, locks,
          Goto, Revoking, Usable, Free, Issued
  <1>1. Rows'
    BY DEF CommitRotate, RotateRows, expiry, Finish, Release, WorkerIds, RevokeLocks
  <1>2. LinearChain'
    BY DEF CommitRotate, RotateRows, expiry, Finish, Release, WorkerIds, LinearChain, RotateLocks
  <1>3. SingleCredential'
    BY DEF CommitRotate, RotateRows, expiry, Finish, Release, WorkerIds, SingleCredential, RotateLocks
  <1>4. CompromisedFamilyIsDead'
    BY DEF CommitRotate, RotateRows, expiry, Finish, Release, WorkerIds, CompromisedFamilyIsDead, RotateLocks, RevokeLocks
  <1>5. ClosedSessionIsDead'
    BY DEF CommitRotate, RotateRows, expiry, Finish, Release, WorkerIds, ClosedSessionIsDead, RevokeLocks
  <1> QED BY <1>1, <1>2, <1>3, <1>4, <1>5

LEMMA CommitRevokeWorkersInv ==
  ASSUME Inv, NEW v \in Workers, CommitRevoke(v)
  PROVE  WorkersInv'
  <1> USE NullAssumption, WorkerAssumption
      DEF Inv, TypeOK, TablesTypeOK, WorkersInv, TablesInv, Rows, tables, locks,
          Goto, Revoking, Usable, Free, Issued
  <1>1. ASSUME NEW w \in Workers PROVE (WorkerAt(w) /\ WorkerIds(w))'
    <2>1. Revoking(v) /\ RevokeLocks(v)
      BY DEF CommitRevoke
    <2>2. \A s \in Sessions : session[s] = "absent" <=> session'[s] = "absent"
      BY <2>1 DEF CommitRevoke, RevokeRows, RevokeLocks
    <2> QED BY <2>2 DEF CommitRevoke, RevokeRows, expiry, Finish, Release,
                        WorkerAt, WorkerIds
  <1>2. DistinctIds'
    BY DEF CommitRevoke, RevokeRows, expiry, Finish, Release, WorkerAt, WorkerIds, DistinctIds
  <1>3. ASSUME NEW w \in Workers PROVE IdleLocks(w)'
    BY DEF CommitRevoke, RevokeRows, expiry, Finish, Release, WorkerAt, WorkerIds, IdleLocks
  <1>4. ASSUME NEW w \in Workers PROVE RotateLocks(w)'
    <2>1. Revoking(v) /\ RevokeLocks(v) /\ at[v] = "commit"
      BY DEF CommitRevoke
    <2>2. RotateLocks(w) /\ WorkerIds(w)
      OBVIOUS
    <2>3. CASE op[w] = "rotate" /\ at[w] # "lock_token"
      <3>1. w # v /\ tok[w] \in Tokens /\ tokenSession[tok[w]] \in Sessions
        BY <2>1, <2>2, <2>3 DEF WorkerIds
      \* v would have locked the token along with its family.
      <3>2. tLock[tok[w]] = w /\ fLock[tokenSession[tok[w]]] # v
        BY <2>1, <2>2, <2>3, <3>1 DEF RotateLocks, RevokeLocks
      <3> QED BY <2>2, <2>3, <3>1, <3>2
              DEF CommitRevoke, RevokeRows, Finish, Release, RotateLocks
    <2> QED BY <2>2, <2>3
            DEF CommitRevoke, Finish, RotateLocks
  <1>5. ASSUME NEW w \in Workers PROVE RevokeLocks(w)'
    BY DEF CommitRevoke, RevokeRows, expiry, Finish, Release, WorkerAt, WorkerIds, DistinctIds, RevokeLocks, RotateLocks,
           IdleLocks, Scope
  <1> QED BY <1>1, <1>2, <1>3, <1>4, <1>5

LEMMA CommitRevokeTablesInv ==
  ASSUME Inv, NEW v \in Workers, CommitRevoke(v)
  PROVE  TablesInv'
  <1> USE NullAssumption, WorkerAssumption
      DEF Inv, TypeOK, TablesTypeOK, WorkersInv, TablesInv, Rows, tables, locks,
          Goto, Revoking, Usable, Free, Issued
  <1>1. Rows'
    BY DEF CommitRevoke, RevokeRows, expiry, Finish, Release, WorkerIds, RevokeLocks
  <1>2. LinearChain'
    BY DEF CommitRevoke, RevokeRows, expiry, Finish, Release, WorkerIds, LinearChain, RotateLocks
  <1>3. SingleCredential'
    BY DEF CommitRevoke, RevokeRows, expiry, Finish, Release, WorkerIds, SingleCredential, RotateLocks
  <1>4. CompromisedFamilyIsDead'
    BY DEF CommitRevoke, RevokeRows, expiry, Finish, Release, WorkerIds, CompromisedFamilyIsDead, RotateLocks, RevokeLocks
  <1>5. ClosedSessionIsDead'
    BY DEF CommitRevoke, RevokeRows, expiry, Finish, Release, WorkerIds, ClosedSessionIsDead, RevokeLocks
  <1> QED BY <1>1, <1>2, <1>3, <1>4, <1>5

-----------------------------------------------------------------------------
(***************************************************************************)
(* The inductive invariant.                                                *)
(***************************************************************************)
LEMMA InitInv == Init => Inv
  <1> SUFFICES ASSUME Init PROVE Inv
    OBVIOUS
  <1>1. TypeOK
    BY InitType
  <1>2. WorkersInv
    BY WorkerAssumption, NullAssumption
       DEF Init, TablesInit, WorkersInv, WorkerAt, WorkerIds, DistinctIds,
           IdleLocks, RotateLocks, RevokeLocks, Revoking
  <1>3. TablesInv
    BY NullAssumption
       DEF Init, TablesInit, TablesInv, Rows, LinearChain, SingleCredential,
           CompromisedFamilyIsDead, ClosedSessionIsDead, Usable
  <1> QED BY <1>1, <1>2, <1>3 DEF Inv

LEMMA UnchangedTables ==
  ASSUME TablesInv, UNCHANGED tables
  PROVE  TablesInv'
  BY DEF TablesInv, tables, Rows, LinearChain, SingleCredential,
         CompromisedFamilyIsDead, ClosedSessionIsDead, Usable

LEMMA ExpireInv ==
  ASSUME Inv, Expire
  PROVE  WorkersInv' /\ TablesInv'
  <1>1. UNCHANGED <<session, family, current, tokenSession, parent, used,
                    revoked, control, locks>>
    BY DEF Expire, ExpireSession, ExpireToken
  <1>2. WorkersInv'
    BY <1>1 DEF Inv, WorkersInv, WorkerAt, WorkerIds, DistinctIds, IdleLocks,
                RotateLocks, RevokeLocks, Revoking, Scope, Usable, control, locks
  <1>3. TablesInv'
    BY <1>1 DEF Inv, TablesInv, Rows, LinearChain, SingleCredential,
                CompromisedFamilyIsDead, ClosedSessionIsDead, Usable
  <1> QED BY <1>2, <1>3

LEMMA NextInv == Inv /\ [Next]_vars => Inv'
  <1> SUFFICES ASSUME Inv, [Next]_vars
               PROVE  Inv'
    OBVIOUS
  <1> USE DEF Inv
  <1>1. CASE UNCHANGED vars
    <2>1. TypeOK'
      BY <1>1 DEF TypeOK, TablesTypeOK, vars, tables, control, locks
    <2>2. WorkersInv'
      BY <1>1 DEF vars, tables, control, locks, WorkersInv, WorkerAt, WorkerIds,
                  DistinctIds, IdleLocks, RotateLocks, RevokeLocks, Revoking,
                  Scope, Usable
    <2> QED BY <1>1, <2>1, <2>2, UnchangedTables DEF vars
  <1>2. ASSUME NEW w \in Workers, Begin(w)
        PROVE  Inv'
    <2>1. UNCHANGED tables
      BY <1>2 DEF Begin, BeginCreate, BeginRotate, BeginRevoke, BeginRevokeAll,
                  BeginReplay
    <2>2. WorkersInv'
      BY <1>2, BeginCreateInv, BeginRotateInv, BeginRevokeInv, BeginRevokeAllInv,
         BeginReplayInv DEF Begin
    <2> QED BY <1>2, <2>1, <2>2, BeginType, UnchangedTables
  <1>3. ASSUME NEW w \in Workers, Step(w)
        PROVE  Inv'
    <2>1. TypeOK'
      BY <1>3, StepType DEF WorkersInv
    <2>2. CASE CommitCreate(w) \/ CommitRotate(w) \/ CommitRevoke(w)
      BY <2>1, <2>2, CommitCreateWorkersInv, CommitCreateTablesInv,
         CommitRotateWorkersInv, CommitRotateTablesInv, CommitRevokeWorkersInv,
         CommitRevokeTablesInv
    <2>3. CASE Reject(w)
      BY <2>1, <2>3, RollbackInv, UnchangedTables DEF Reject, Rollback
    <2>4. CASE ~(CommitCreate(w) \/ CommitRotate(w) \/ CommitRevoke(w) \/ Reject(w))
      <3>1. UNCHANGED tables
        BY <1>3, <2>4 DEF Step, InsertSession, InsertFamily, InsertToken,
           LockToken, LockFamily, InsertSuccessor, TouchSession,
           LockFamilyForReplay, CloseSessions, CompromiseFamilies, RevokeTokens
      <3>2. WorkersInv'
        BY <1>3, <2>4, InsertSessionInv, InsertFamilyInv, InsertTokenInv,
           LockTokenInv, LockFamilyInv, InsertSuccessorInv, TouchSessionInv,
           LockFamilyForReplayInv, CloseSessionsInv, CompromiseFamiliesInv,
           RevokeTokensInv DEF Step
      <3> QED BY <2>1, <3>1, <3>2, UnchangedTables
    <2> QED BY <2>2, <2>3, <2>4
  <1>4. ASSUME NEW w \in Workers, DeadlockVictim(w) \/ Fail(w)
        PROVE  Inv'
    BY <1>4, RollbackType, RollbackInv, UnchangedTables
       DEF DeadlockVictim, Fail, Rollback
  <1>5. CASE Expire
    <2>1. TypeOK'
      BY <1>5 DEF Expire, ExpireSession, ExpireToken, TypeOK, TablesTypeOK,
                  control, locks, Issued
    <2> QED BY <1>5, <2>1, ExpireInv
  <1> QED BY <1>1, <1>2, <1>3, <1>4, <1>5 DEF Next

THEOREM Invariance == Spec => []Inv
  BY InitInv, NextInv, PTL DEF Spec

THEOREM TypeCorrect == Spec => []TypeOK
  BY Invariance, PTL DEF Inv

-----------------------------------------------------------------------------
(***************************************************************************)
(* State properties.                                                       *)
(***************************************************************************)

\* Refresh rotation never forks: concurrent refreshes of one token cannot
\* both issue a successor.
THEOREM RotationIsLinear == Spec => []LinearChain
  BY Invariance, PTL DEF Inv, TablesInv

\* A session has at most one token that can be rotated: current_token_id.
THEOREM OneCredential == Spec => []SingleCredential
  BY Invariance, PTL DEF Inv, TablesInv

\* Revoking a family leaves no token behind, even one that a concurrent
\* rotation was about to issue.
THEOREM CompromiseIsComplete == Spec => []CompromisedFamilyIsDead
  BY Invariance, PTL DEF Inv, TablesInv

\* A closed session has a compromised family.
THEOREM ClosureIsComplete == Spec => []ClosedSessionIsDead
  BY Invariance, PTL DEF Inv, TablesInv

\* The UPDATEs of a rotation always find the rows its checks saw.
THEOREM RotationWritesWhatItChecked == Spec => []RotationOwnsItsRows
  <1>1. Inv => RotationOwnsItsRows
    BY DEF Inv, WorkersInv, RotateLocks, RotationOwnsItsRows
  <1> QED BY <1>1, Invariance, PTL

-----------------------------------------------------------------------------
(***************************************************************************)
(* Action properties.  Only the commits and the clock write tables.        *)
(***************************************************************************)
LEMMA TableSteps ==
  ASSUME [Next]_vars
  PROVE  \/ UNCHANGED <<session, family, current, tokenSession, parent, used, revoked>>
         \/ \E w \in Workers :
              CommitCreate(w) \/ CommitRotate(w) \/ CommitRevoke(w)
  <1>1. ASSUME NEW w \in Workers, Begin(w)
        PROVE  UNCHANGED tables
    BY <1>1 DEF Begin, BeginCreate, BeginRotate, BeginRevoke, BeginRevokeAll,
                BeginReplay
  <1>2. ASSUME NEW w \in Workers, Step(w),
               ~(CommitCreate(w) \/ CommitRotate(w) \/ CommitRevoke(w))
        PROVE  UNCHANGED tables
    BY <1>2 DEF Step, InsertSession, InsertFamily, InsertToken, LockToken,
                LockFamily, Reject, Rollback, InsertSuccessor, TouchSession,
                LockFamilyForReplay, CloseSessions, CompromiseFamilies,
                RevokeTokens
  <1>3. ASSUME NEW w \in Workers, DeadlockVictim(w) \/ Fail(w)
        PROVE  UNCHANGED tables
    BY <1>3 DEF DeadlockVictim, Fail, Rollback
  <1>4. CASE Expire
    BY <1>4 DEF Expire, ExpireSession, ExpireToken
  <1> QED BY <1>1, <1>2, <1>3, <1>4 DEF Next, vars, tables

\* Used, revoked, closed and compromised are for ever, and a token row never
\* changes its session or its parent.
THEOREM NothingIsResurrected == Spec => NoResurrection
  <1> DEFINE Kept ==
        /\ used \subseteq used' /\ revoked \subseteq revoked'
        /\ \A s \in Sessions :
             /\ session[s] = "closed" => session'[s] = "closed"
             /\ family[s] = "compromised" => family'[s] = "compromised"
        /\ \A t \in Issued : tokenSession'[t] = tokenSession[t]
                             /\ parent'[t] = parent[t]
  <1>1. Inv /\ [Next]_vars => [Kept]_tables
    <2> SUFFICES ASSUME Inv, [Next]_vars PROVE Kept
      OBVIOUS
    <2> USE DEF Inv, TypeOK, TablesTypeOK, WorkersInv, Issued
    <2>1. CASE UNCHANGED <<session, family, current, tokenSession, parent, used, revoked>>
      BY <2>1
    <2>2. ASSUME NEW w \in Workers, CommitCreate(w) PROVE Kept
      BY <2>2, NullAssumption DEF CommitCreate, CreateRows, TablesInv, Rows, WorkerIds
    <2>3. ASSUME NEW w \in Workers, CommitRotate(w) PROVE Kept
      BY <2>3, NullAssumption DEF CommitRotate, RotateRows, WorkerIds
    <2>4. ASSUME NEW w \in Workers, CommitRevoke(w) PROVE Kept
      BY <2>4 DEF CommitRevoke, RevokeRows
    <2> QED BY <2>1, <2>2, <2>3, <2>4, TableSteps
  <1> QED BY <1>1, Invariance, PTL DEF Spec, NoResurrection

\* No refresh issues a token in a session that has been closed.
THEOREM ClosureIsFinal == Spec => ClosedSessionIssuesNothing
  <1> DEFINE Nothing ==
        \A s \in Sessions, t \in Tokens :
          session[s] = "closed" /\ tokenSession'[t] = s => tokenSession[t] = s
  <1>1. Inv /\ [Next]_vars => [Nothing]_tables
    <2> SUFFICES ASSUME Inv, [Next]_vars PROVE Nothing
      OBVIOUS
    <2> USE DEF Inv, TypeOK, TablesTypeOK, WorkersInv
    <2>1. CASE UNCHANGED <<session, family, current, tokenSession, parent, used, revoked>>
      BY <2>1
    <2>2. ASSUME NEW w \in Workers, CommitCreate(w) PROVE Nothing
      BY <2>2 DEF CommitCreate, CreateRows, WorkerIds
    <2>3. ASSUME NEW w \in Workers, CommitRotate(w) PROVE Nothing
      <3>1. family[tokenSession[tok[w]]] = "valid" /\ tokenSession[tok[w]] \in Sessions
        BY <2>3 DEF CommitRotate, RotateLocks, WorkerIds
      <3>2. session[tokenSession[tok[w]]] # "closed"
        BY <3>1 DEF TablesInv, ClosedSessionIsDead
      <3> QED BY <2>3, <3>1, <3>2 DEF CommitRotate, RotateRows
    <2>4. ASSUME NEW w \in Workers, CommitRevoke(w) PROVE Nothing
      BY <2>4 DEF CommitRevoke, RevokeRows
    <2> QED BY <2>1, <2>2, <2>3, <2>4, TableSteps
  <1> QED BY <1>1, Invariance, PTL DEF Spec, ClosedSessionIssuesNothing

-----------------------------------------------------------------------------
(***************************************************************************)
(* SessionTx implements SessionContract: creating a session opens it, a    *)
(* rotation replaces its credential, a revocation ends every session whose *)
(* usable token it revokes, and every other step is invisible.             *)
(***************************************************************************)

\* What Inv says of a session with a usable token.
LEMMA LivingFacts ==
  ASSUME Inv, NEW s \in Sessions, s \in Living
  PROVE  /\ session[s] # "absent"
         /\ current[s] \in Tokens
         /\ Usable(current[s]) /\ tokenSession[current[s]] = s
  BY DEF Inv, TypeOK, TablesTypeOK, TablesInv, Rows, SingleCredential, Living, Usable

LEMMA ContractInit == Init => Contract!Init
  BY NullAssumption DEF Init, TablesInit, Contract!Init, Phase, Credential, Living,
                        Issued, Usable

LEMMA CreateOpens ==
  ASSUME Inv, NEW w \in Workers, CommitCreate(w)
  PROVE  Contract!Next
  <1> USE NullAssumption DEF Inv, TypeOK, TablesTypeOK
  <1>0. PICK s \in Sessions, t \in Tokens :
          /\ s = sid[w] /\ session[s] = "absent"
          /\ t = new[w] /\ tokenSession[t] = NoSession
    BY DEF CommitCreate, WorkersInv, WorkerIds
  <1>1. session[s] = "absent" /\ tokenSession[t] = NoSession
    BY <1>0
  <1>2. t \notin used /\ t \notin revoked
    BY <1>1 DEF TablesInv, Rows
  <1>3. \A r \in Tokens : tokenSession[r] # s
    BY <1>1 DEF TablesInv, Rows
  <1>4. s \notin Living
    BY <1>3 DEF Living
  <1>5. /\ session' = [session EXCEPT ![s] = "active"]
        /\ current' = [current EXCEPT ![s] = t]
        /\ tokenSession' = [tokenSession EXCEPT ![t] = s]
        /\ used' = used /\ revoked' = revoked
    BY <1>0 DEF CommitCreate, CreateRows
  <1>6. s \in Living'
    BY <1>1, <1>2, <1>5 DEF Living, Usable
  <1>7. ASSUME NEW q \in Sessions, q # s
        PROVE  q \in Living' <=> q \in Living
    BY <1>1, <1>5, <1>7 DEF Living, Usable
  <1>8. Issued' = Issued \cup {t} /\ t \notin Issued
    BY <1>1, <1>5 DEF Issued
  <1>9. Phase[s] = "unborn" /\ Phase' = [Phase EXCEPT ![s] = "live"]
    <2>1. ASSUME NEW q \in Sessions
          PROVE  Phase'[q] = [Phase EXCEPT ![s] = "live"][q]
      BY <1>1, <1>4, <1>5, <1>6, <1>7 DEF Phase
    <2>2. /\ Phase' = [q \in Sessions |-> Phase'[q]]
          /\ [Phase EXCEPT ![s] = "live"]
               = [q \in Sessions |-> [Phase EXCEPT ![s] = "live"][q]]
      BY DEF Phase
    <2>3. Phase' = [Phase EXCEPT ![s] = "live"]
      BY <2>1, <2>2
    <2> QED BY <1>1, <1>4, <2>3 DEF Phase
  <1>10. Credential' = [Credential EXCEPT ![s] = t]
    BY <1>1, <1>4, <1>5, <1>6, <1>7 DEF Credential
  <1>11. Contract!Open(s, t)
    BY <1>8, <1>9, <1>10 DEF Contract!Open
  <1> QED BY <1>1, <1>11 DEF Contract!Next

LEMMA RotateRefreshes ==
  ASSUME Inv, NEW w \in Workers, CommitRotate(w)
  PROVE  Contract!Next
  <1> USE NullAssumption DEF Inv, TypeOK, TablesTypeOK
  <1>0. PICK t \in Tokens, n \in Tokens, s \in Sessions :
          /\ t = tok[w] /\ s = tokenSession[t] /\ Usable(t)
          /\ n = new[w] /\ tokenSession[n] = NoSession
    BY DEF CommitRotate, WorkersInv, WorkerIds, RotateLocks
  <1>1. s = tokenSession[t] /\ Usable(t) /\ tokenSession[n] = NoSession
    BY <1>0
  <1>2. n \notin used /\ n \notin revoked /\ n # t
    BY <1>1 DEF TablesInv, Rows
  <1>3. /\ current' = [current EXCEPT ![s] = n]
        /\ tokenSession' = [tokenSession EXCEPT ![n] = s]
        /\ used' = used \cup {t} /\ revoked' = revoked /\ session' = session
    BY <1>0 DEF CommitRotate, RotateRows
  <1>4. s \in Living /\ s \in Living'
    BY <1>1, <1>2, <1>3 DEF Living, Usable
  <1>5. ASSUME NEW q \in Sessions, q # s
        PROVE  q \in Living' <=> q \in Living
    BY <1>1, <1>2, <1>3, <1>5 DEF Living, Usable
  <1>6. Issued' = Issued \cup {n} /\ n \notin Issued
    BY <1>1, <1>3 DEF Issued
  <1>7. Phase[s] = "live" /\ Phase' = Phase
    BY <1>1, <1>3, <1>4, <1>5 DEF Phase
  <1>8. Credential' = [Credential EXCEPT ![s] = n]
    BY <1>1, <1>3, <1>4, <1>5 DEF Credential
  <1>9. Contract!Refresh(s, n)
    BY <1>6, <1>7, <1>8 DEF Contract!Refresh
  <1> QED BY <1>1, <1>9 DEF Contract!Next

LEMMA RevokeEnds ==
  ASSUME Inv, NEW w \in Workers, CommitRevoke(w)
  PROVE  Contract!Next
  <1> DEFINE E == Living \ Living'
  <1> USE DEF Inv, TypeOK, TablesTypeOK
  <1>1. /\ UNCHANGED <<current, tokenSession, used>>
        /\ revoked \subseteq revoked'
    BY DEF CommitRevoke, RevokeRows
  <1>2. \A s \in Sessions : session[s] = "absent" <=> session'[s] = "absent"
    BY DEF CommitRevoke, RevokeRows, WorkersInv, RevokeLocks, Revoking
  <1>3. \A s \in Sessions : s \in Living' => s \in Living
    BY <1>1 DEF Living, Usable
  <1>4. \A s \in Sessions : s \in Living => session[s] # "absent"
    BY LivingFacts
  <1>5. UNCHANGED Issued
    BY <1>1 DEF Issued
  <1>6. E \in SUBSET Sessions
    BY DEF Living
  <1>7. \A s \in E : Phase[s] = "live"
    BY <1>6 DEF Phase
  <1>8. Phase' = [s \in Sessions |-> IF s \in E THEN "ended" ELSE Phase[s]]
    BY <1>2, <1>3, <1>4 DEF Phase
  <1>9. Credential' = [s \in Sessions |-> IF s \in E THEN NoToken ELSE Credential[s]]
    BY <1>1, <1>3 DEF Credential
  <1> HIDE DEF E
  <1>10. Contract!End(E)
    BY <1>5, <1>7, <1>8, <1>9 DEF Contract!End
  <1> QED BY <1>6, <1>10 DEF Contract!Next

\* Every behaviour of the transactions, at the level of statements and locks,
\* is a behaviour of the contract.
THEOREM Refinement == Spec => ImplementsContract
  <1>1. Inv /\ [Next]_vars => [Contract!Next]_(Contract!vars)
    <2> SUFFICES ASSUME Inv, [Next]_vars
                 PROVE  Contract!Next \/ UNCHANGED Contract!vars
      OBVIOUS
    <2>1. CASE UNCHANGED <<session, family, current, tokenSession, parent, used, revoked>>
      BY <2>1 DEF Contract!vars, Phase, Credential, Living, Usable, Issued
    <2>2. ASSUME NEW w \in Workers,
                 CommitCreate(w) \/ CommitRotate(w) \/ CommitRevoke(w)
          PROVE  Contract!Next
      BY <2>2, CreateOpens, RotateRefreshes, RevokeEnds
    <2> QED BY <2>1, <2>2, TableSteps
  <1> QED BY <1>1, ContractInit, Invariance, PTL
          DEF Spec, ImplementsContract, Contract!Spec
=============================================================================
