----------------------------- MODULE SessionTx -----------------------------
(***************************************************************************)
(* The transactions of session_transaction_core.py, statement by           *)
(* statement, as SQL Server runs them: each statement takes the locks of   *)
(* the rows it matches and keeps them until the unit of work commits or    *)
(* rolls back.                                                             *)
(*                                                                         *)
(* Workers are the request tasks.  A worker that is inside a transaction   *)
(* has its next statement in "at".  Writes become visible at COMMIT: the   *)
(* rows to write are exactly the rows the worker has locked, so a rollback *)
(* only drops locks.                                                       *)
(*                                                                         *)
(* The services read the tables before they open the unit of work and act  *)
(* on what they read; by then it may be stale.  A transaction may          *)
(* therefore begin for any row that ever satisfied the service's check.    *)
(***************************************************************************)
EXTENDS SessionTables

CONSTANTS
    Workers,      \* concurrent requests
    NoWorker,     \* marks a row that nobody has locked
    NoUser,       \* usr of a worker that is not revoking a whole user
    Operations    \* the operations requests may ask for

OperationNames == {"create", "rotate", "revoke", "revoke_all", "replay"}

ASSUME WorkerAssumption == NoWorker \notin Workers /\ NoUser \notin Users
ASSUME OperationsAssumption == Operations \subseteq OperationNames

VARIABLES
    op,     \* the transaction a worker is in
    at,     \* its next statement
    sid,    \* the session it works on
    usr,    \* the user whose sessions revoke_all closes
    tok,    \* the token presented to rotate
    new,    \* the id of the token it inserts
    sLock,  \* who has locked each user_session row
    fLock,  \* who has locked each token_family row
    tLock   \* who has locked each refresh_tokens row

locks == <<sLock, fLock, tLock>>
control == <<op, at, sid, usr, tok, new>>
vars == <<tables, control, locks>>

Statements == {"begin", "insert_session", "insert_family", "insert_token",
               "lock_token", "lock_family", "insert_successor", "touch_session",
               "close", "compromise", "revoke_tokens", "commit"}

TypeOK ==
    /\ TablesTypeOK
    /\ op \in [Workers -> OperationNames \cup {"none"}]
    /\ at \in [Workers -> Statements]
    /\ sid \in [Workers -> Sessions \cup {NoSession}]
    /\ usr \in [Workers -> Users \cup {NoUser}]
    /\ tok \in [Workers -> Tokens \cup {NoToken}]
    /\ new \in [Workers -> Tokens \cup {NoToken}]
    /\ sLock \in [Sessions -> Workers \cup {NoWorker}]
    /\ fLock \in [Sessions -> Workers \cup {NoWorker}]
    /\ tLock \in [Tokens -> Workers \cup {NoWorker}]

Init ==
    /\ TablesInit
    /\ op = [w \in Workers |-> "none"]
    /\ at = [w \in Workers |-> "begin"]
    /\ sid = [w \in Workers |-> NoSession]
    /\ usr = [w \in Workers |-> NoUser]
    /\ tok = [w \in Workers |-> NoToken]
    /\ new = [w \in Workers |-> NoToken]
    /\ sLock = [s \in Sessions |-> NoWorker]
    /\ fLock = [s \in Sessions |-> NoWorker]
    /\ tLock = [t \in Tokens |-> NoWorker]

-----------------------------------------------------------------------------
(***************************************************************************)
(* Locks.  A row that another worker has inserted and not committed is     *)
(* locked too, and a statement whose key range covers it waits.            *)
(***************************************************************************)
Free(lock, w) == lock \in {NoWorker, w}

\* The session of a token row, committed or still being inserted.
RowSession(t) ==
    IF tokenSession[t] # NoSession \/ tLock[t] = NoWorker
    THEN tokenSession[t] ELSE sid[tLock[t]]

\* The sessions whose rows the UPDATEs of a revocation select by key.
Scope(w) ==
    IF op[w] = "revoke_all" THEN {s \in Sessions : Owner[s] = usr[w]}
                            ELSE {sid[w]} \cap Sessions

\* The rows the next statement of w must lock and that others hold.
SessionRowsNeeded(w) ==
    CASE at[w] = "close" -> Scope(w)
      [] at[w] \in {"insert_successor", "touch_session"} -> {sid[w]} \cap Sessions
      [] OTHER -> {}
FamilyRowsNeeded(w) ==
    CASE at[w] = "compromise" -> Scope(w)
      [] at[w] = "lock_family" -> {sid[w]} \cap Sessions
      [] OTHER -> {}
TokenRowsNeeded(w) ==
    CASE at[w] = "revoke_tokens" -> {t \in Tokens : RowSession(t) \in Scope(w)}
      [] at[w] = "lock_token" -> {tok[w]} \cap Tokens
      [] OTHER -> {}

WaitsFor(w) ==
    ( {sLock[s] : s \in SessionRowsNeeded(w)}
      \cup {fLock[s] : s \in FamilyRowsNeeded(w)}
      \cup {tLock[t] : t \in TokenRowsNeeded(w)} ) \ {NoWorker, w}

\* w waits, directly or through others, for itself: w is in every set that
\* contains whom w waits for and whom its members wait for.
InWaitCycle(w) ==
    \A C \in SUBSET Workers :
        (WaitsFor(w) \subseteq C /\ \A q \in C : WaitsFor(q) \subseteq C) => w \in C

-----------------------------------------------------------------------------
(***************************************************************************)
(* UnitOfWork: COMMIT or ROLLBACK end the transaction and free its locks.  *)
(***************************************************************************)
Release(w) ==
    /\ sLock' = [s \in Sessions |-> IF sLock[s] = w THEN NoWorker ELSE sLock[s]]
    /\ fLock' = [s \in Sessions |-> IF fLock[s] = w THEN NoWorker ELSE fLock[s]]
    /\ tLock' = [t \in Tokens |-> IF tLock[t] = w THEN NoWorker ELSE tLock[t]]

Finish(w) ==
    /\ op' = [op EXCEPT ![w] = "none"]
    /\ at' = [at EXCEPT ![w] = "begin"]
    /\ sid' = [sid EXCEPT ![w] = NoSession]
    /\ usr' = [usr EXCEPT ![w] = NoUser]
    /\ tok' = [tok EXCEPT ![w] = NoToken]
    /\ new' = [new EXCEPT ![w] = NoToken]
    /\ Release(w)

Rollback(w) == Finish(w) /\ UNCHANGED tables

\* uuid4(): an id that no row has and that no other worker has drawn.
FreshSession(s) == session[s] = "absent" /\ \A q \in Workers : sid[q] # s
FreshToken(t) == tokenSession[t] = NoSession /\ \A q \in Workers : new[q] # t

Goto(w, label) == at' = [at EXCEPT ![w] = label]

-----------------------------------------------------------------------------
(***************************************************************************)
(* create_session_with_token_tx                                            *)
(***************************************************************************)
BeginCreate(w, s, t) ==
    /\ op[w] = "none" /\ "create" \in Operations
    /\ FreshSession(s) /\ FreshToken(t)
    /\ op' = [op EXCEPT ![w] = "create"]
    /\ sid' = [sid EXCEPT ![w] = s]
    /\ new' = [new EXCEPT ![w] = t]
    /\ Goto(w, "insert_session")
    /\ UNCHANGED <<tables, locks, usr, tok>>

InsertSession(w) ==
    /\ at[w] = "insert_session"
    /\ sLock' = [sLock EXCEPT ![sid[w]] = w]
    /\ Goto(w, "insert_family")
    /\ UNCHANGED <<tables, op, sid, usr, tok, new, fLock, tLock>>

InsertFamily(w) ==
    /\ at[w] = "insert_family"
    /\ fLock' = [fLock EXCEPT ![sid[w]] = w]
    /\ Goto(w, "insert_token")
    /\ UNCHANGED <<tables, op, sid, usr, tok, new, sLock, tLock>>

InsertToken(w) ==
    /\ at[w] = "insert_token"
    /\ tLock' = [tLock EXCEPT ![new[w]] = w]
    /\ Goto(w, "commit")
    /\ UNCHANGED <<tables, op, sid, usr, tok, new, sLock, fLock>>

CommitCreate(w) ==
    /\ op[w] = "create" /\ at[w] = "commit"
    /\ CreateRows(sid[w], new[w])
    /\ Finish(w)

-----------------------------------------------------------------------------
(***************************************************************************)
(* rotate_refresh_token_tx                                                 *)
(***************************************************************************)
BeginRotate(w, t, n) ==
    /\ op[w] = "none" /\ "rotate" \in Operations
    /\ t \in Issued /\ FreshToken(n)
    /\ op' = [op EXCEPT ![w] = "rotate"]
    /\ tok' = [tok EXCEPT ![w] = t]
    /\ new' = [new EXCEPT ![w] = n]
    /\ Goto(w, "lock_token")
    /\ UNCHANGED <<tables, locks, sid, usr>>

\* The row as the lock reads it: unused, unrevoked and unexpired.
TokenAccepted(t) == Usable(t) /\ t \notin tokenExpired

\* (Faulty: the SELECT takes no UPDLOCK.)
LockTokenPlainRead(w) ==
    /\ at[w] = "lock_token"
    /\ TokenAccepted(tok[w])
    /\ sid' = [sid EXCEPT ![w] = tokenSession[tok[w]]]
    /\ Goto(w, "lock_family")
    /\ UNCHANGED <<tables, locks, op, usr, tok, new>>

\* SELECT ... FROM refresh_tokens WITH (UPDLOCK, ROWLOCK)
LockToken(w) ==
    /\ at[w] = "lock_token"
    /\ Free(tLock[tok[w]], w)
    /\ TokenAccepted(tok[w])
    /\ tLock' = [tLock EXCEPT ![tok[w]] = w]
    /\ sid' = [sid EXCEPT ![w] = tokenSession[tok[w]]]
    /\ Goto(w, "lock_family")
    /\ UNCHANGED <<tables, op, usr, tok, new, sLock, fLock>>

\* SELECT ... FROM token_family WITH (UPDLOCK, ROWLOCK)
LockFamily(w) ==
    /\ op[w] = "rotate" /\ at[w] = "lock_family"
    /\ Free(fLock[sid[w]], w)
    /\ family[sid[w]] = "valid"
    /\ fLock' = [fLock EXCEPT ![sid[w]] = w]
    /\ Goto(w, "insert_successor")
    /\ UNCHANGED <<tables, op, sid, usr, tok, new, sLock, tLock>>

\* TOKEN_ALREADY_USED, TOKEN_REVOKED or TOKEN_EXPIRED after the first lock,
\* FAMILY_COMPROMISED after the second.
Refused(w) ==
    /\ op[w] = "rotate" /\ at[w] \in {"lock_token", "lock_family"}
    /\ at[w] = "lock_token" =>
         Free(tLock[tok[w]], w) /\ ~TokenAccepted(tok[w])
    /\ at[w] = "lock_family" =>
         Free(fLock[sid[w]], w) /\ family[sid[w]] # "valid"

\* (Faulty: a refused rotation tries again in the same unit of work.)
RejectRetries(w) == Refused(w) /\ UNCHANGED vars

Reject(w) == Refused(w) /\ Rollback(w)

\* INSERT the successor; its foreign key check reads the session row, so it
\* waits for whoever is closing it (FK_token_session in V031).  The UPDATEs
\* of the family and of the old token are on rows already locked.
InsertSuccessor(w) ==
    /\ at[w] = "insert_successor"
    /\ Free(sLock[sid[w]], w)
    /\ tLock' = [tLock EXCEPT ![new[w]] = w]
    /\ Goto(w, "touch_session")
    /\ UNCHANGED <<tables, op, sid, usr, tok, new, sLock, fLock>>

\* UPDATE user_session SET last_refresh_at ... WHERE is_active = 1; the
\* number of rows it matched is not checked.
TouchSession(w) ==
    /\ at[w] = "touch_session"
    /\ Free(sLock[sid[w]], w)
    /\ sLock' = IF session[sid[w]] = "active"
                THEN [sLock EXCEPT ![sid[w]] = w] ELSE sLock
    /\ Goto(w, "commit")
    /\ UNCHANGED <<tables, op, sid, usr, tok, new, fLock, tLock>>

CommitRotate(w) ==
    /\ op[w] = "rotate" /\ at[w] = "commit"
    /\ RotateRows(tok[w], new[w])
    /\ Finish(w)

-----------------------------------------------------------------------------
(***************************************************************************)
(* revoke_session_tx, revoke_all_user_sessions_tx, handle_replay_attack_tx *)
(***************************************************************************)
BeginRevoke(w, s) ==
    /\ op[w] = "none" /\ "revoke" \in Operations
    /\ session[s] # "absent"
    /\ op' = [op EXCEPT ![w] = "revoke"]
    /\ sid' = [sid EXCEPT ![w] = s]
    /\ Goto(w, "close")
    /\ UNCHANGED <<tables, locks, usr, tok, new>>

BeginRevokeAll(w, u) ==
    /\ op[w] = "none" /\ "revoke_all" \in Operations
    /\ op' = [op EXCEPT ![w] = "revoke_all"]
    /\ usr' = [usr EXCEPT ![w] = u]
    /\ Goto(w, "close")
    /\ UNCHANGED <<tables, locks, sid, tok, new>>

\* A used token was presented: compromise its family.
BeginReplay(w, t) ==
    /\ op[w] = "none" /\ "replay" \in Operations
    /\ t \in used
    /\ op' = [op EXCEPT ![w] = "replay"]
    /\ sid' = [sid EXCEPT ![w] = tokenSession[t]]
    /\ Goto(w, "lock_family")
    /\ UNCHANGED <<tables, locks, usr, tok, new>>

\* UPDLOCK of the family, then UPDATE is_compromised on the same row.
LockFamilyForReplay(w) ==
    /\ op[w] = "replay" /\ at[w] = "lock_family"
    /\ Free(fLock[sid[w]], w)
    /\ fLock' = [fLock EXCEPT ![sid[w]] = w]
    /\ Goto(w, "close")
    /\ UNCHANGED <<tables, op, sid, usr, tok, new, sLock, tLock>>

\* UPDATE user_session SET is_active = 0.  The bulk form only matches
\* sessions that have not expired.
CloseSessions(w) ==
    /\ at[w] = "close"
    /\ \A s \in Scope(w) : Free(sLock[s], w)
    /\ LET matched == {s \in Scope(w) :
                          IF op[w] = "revoke_all" THEN ActiveUnexpired(s)
                                                  ELSE session[s] = "active"}
       IN sLock' = [s \in Sessions |-> IF s \in matched THEN w ELSE sLock[s]]
    /\ Goto(w, IF op[w] = "replay" THEN "revoke_tokens" ELSE "compromise")
    /\ UNCHANGED <<tables, op, sid, usr, tok, new, fLock, tLock>>

\* (Faulty: families of expired sessions are left alone.)
CompromiseUnexpiredFamilies(w) ==
    /\ at[w] = "compromise"
    /\ \A s \in Scope(w) : Free(fLock[s], w)
    /\ fLock' = [s \in Sessions |->
                   IF s \in Scope(w) \ sessionExpired /\ family[s] = "valid"
                   THEN w ELSE fLock[s]]
    /\ Goto(w, "revoke_tokens")
    /\ UNCHANGED <<tables, op, sid, usr, tok, new, sLock, tLock>>

\* UPDATE token_family SET is_compromised = 1 WHERE is_compromised = 0
CompromiseFamilies(w) ==
    /\ at[w] = "compromise"
    /\ \A s \in Scope(w) : Free(fLock[s], w)
    /\ fLock' = [s \in Sessions |->
                   IF s \in Scope(w) /\ family[s] = "valid" THEN w ELSE fLock[s]]
    /\ Goto(w, "revoke_tokens")
    /\ UNCHANGED <<tables, op, sid, usr, tok, new, sLock, tLock>>

\* (Faulty: READPAST, rows locked by others are skipped.)
RevokeTokensReadPast(w) ==
    /\ at[w] = "revoke_tokens"
    /\ tLock' = [t \in Tokens |->
                   IF /\ tokenSession[t] \in Scope(w) /\ t \notin revoked
                      /\ Free(tLock[t], w)
                   THEN w ELSE tLock[t]]
    /\ Goto(w, "commit")
    /\ UNCHANGED <<tables, op, sid, usr, tok, new, sLock, fLock>>

\* UPDATE refresh_tokens SET is_revoked = 1 WHERE is_revoked = 0
RevokeTokens(w) ==
    /\ at[w] = "revoke_tokens"
    /\ \A t \in Tokens : RowSession(t) \in Scope(w) => Free(tLock[t], w)
    /\ tLock' = [t \in Tokens |->
                   IF tokenSession[t] \in Scope(w) /\ t \notin revoked
                   THEN w ELSE tLock[t]]
    /\ Goto(w, "commit")
    /\ UNCHANGED <<tables, op, sid, usr, tok, new, sLock, fLock>>

\* (Faulty: only user_session is written.)
CommitRevokeSessionOnly(w) ==
    /\ op[w] \in {"revoke", "revoke_all", "replay"} /\ at[w] = "commit"
    /\ RevokeRows({s \in Sessions : sLock[s] = w}, {}, {})
    /\ Finish(w)

CommitRevoke(w) ==
    /\ op[w] \in {"revoke", "revoke_all", "replay"} /\ at[w] = "commit"
    /\ RevokeRows({s \in Sessions : sLock[s] = w},
                  {s \in Sessions : fLock[s] = w},
                  {t \in Tokens : tLock[t] = w})
    /\ Finish(w)

-----------------------------------------------------------------------------
(***************************************************************************)
(* Failures.  SQL Server breaks a wait cycle by rolling one member back    *)
(* (error 1205); a lost connection, a statement error or a worker that     *)
(* stops rolls back at any statement.  Nothing retries the unit of work.   *)
(***************************************************************************)
DeadlockVictim(w) == InWaitCycle(w) /\ Rollback(w)

Fail(w) == op[w] # "none" /\ Rollback(w)

Expire ==
    /\ \/ \E s \in Sessions : ExpireSession(s)
       \/ \E t \in Tokens : ExpireToken(t)
    /\ UNCHANGED <<control, locks>>

Begin(w) ==
    \/ \E s \in Sessions, t \in Tokens : BeginCreate(w, s, t)
    \/ \E t, n \in Tokens : BeginRotate(w, t, n)
    \/ \E s \in Sessions : BeginRevoke(w, s)
    \/ \E u \in Users : BeginRevokeAll(w, u)
    \/ \E t \in Tokens : BeginReplay(w, t)

Step(w) ==
    \/ InsertSession(w)
    \/ InsertFamily(w)
    \/ InsertToken(w)
    \/ CommitCreate(w)
    \/ LockToken(w)
    \/ LockFamily(w)
    \/ Reject(w)
    \/ InsertSuccessor(w)
    \/ TouchSession(w)
    \/ CommitRotate(w)
    \/ LockFamilyForReplay(w)
    \/ CloseSessions(w)
    \/ CompromiseFamilies(w)
    \/ RevokeTokens(w)
    \/ CommitRevoke(w)

Next ==
    \/ \E w \in Workers : Begin(w) \/ Step(w) \/ DeadlockVictim(w) \/ Fail(w)
    \/ Expire

Spec == Init /\ [][Next]_vars
=============================================================================
