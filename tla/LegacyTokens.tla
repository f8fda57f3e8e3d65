---------------------------- MODULE LegacyTokens ----------------------------
(***************************************************************************)
(* The refresh tokens of one user under the default session engine (V1):   *)
(* one table, a row for each token, and a session that exists only as the  *)
(* chain of rows each refresh rotates into the next.                       *)
(*                                                                         *)
(* The queries are taken as they are written, over the table they were     *)
(* written for.  The definition in tables.py has moved on to V2 and lacks  *)
(* columns they name (client_type, device_name, uso_count): with it, the   *)
(* reads of V1 raise an error, which here is Fail.                         *)
(*                                                                         *)
(* Every statement is a transaction of its own, except the rotation, which *)
(* locks the row it was given and reads, inserts and revokes in one.       *)
(* Requests interleave between statements and may stop after any of them.  *)
(***************************************************************************)
EXTENDS FiniteSets, Naturals

CONSTANTS
    Tokens,       \* refresh tokens, by hash
    Workers,      \* concurrent requests
    MaxSessions,  \* max_active_sessions: 0 is no limit
    NoToken

ASSUME NoTokenAssumption == NoToken \notin Tokens
ASSUME MaxSessionsAssumption == MaxSessions \in Nat

VARIABLES
    row,      \* is_revoked, revoked_reason and expires_at of each token's row
    root,     \* the token the session of each token began with (history)
    pc,       \* the statement each request sends next
    task,     \* what it was asked
    token,    \* the token it was given
    rows,     \* the rows its last statement read
    sent,     \* the tokens its last answer carried
    late      \* a refresh that began after its session had ended (history)

table == <<row, root>>
request == <<pc, task, token, rows, sent, late>>
vars == <<table, request>>

\* "expired" is a row whose time has passed before it was revoked.  "rotated"
\* is SESSION_ROTATED, "closed" any other reason, "unexplained" a row revoked
\* before reasons were kept, "purged" one the cleanup has deleted.
Revoked == {"rotated", "closed", "unexplained"}
Present == Revoked \cup {"active", "expired"}

Usable(t) == row[t] = "active"
Active == {t \in Tokens : row[t] \in {"active", "expired"}}
Ended(s) == \A t \in Tokens : root[t] = s => ~Usable(t)

Steps == {"free", "read", "close_idle", "reason", "rotate", "limit",
          "evict", "insert", "all", "sweep", "hash"}
Tasks == {"none", "refresh", "company", "login", "logout_all", "password"}

TypeOK ==
    /\ row \in [Tokens -> Present \cup {"absent", "purged"}]
    /\ root \in [Tokens -> Tokens \cup {NoToken}]
    /\ pc \in [Workers -> Steps]
    /\ task \in [Workers -> Tasks]
    /\ token \in [Workers -> Tokens \cup {NoToken}]
    /\ rows \in [Workers -> SUBSET Tokens]
    /\ sent \in [Workers -> {"nothing", "access", "tokens"}]
    /\ late \in [Workers -> BOOLEAN]

Init ==
    /\ \E old \in SUBSET Tokens :
         row = [t \in Tokens |-> IF t \in old THEN "unexplained" ELSE "absent"]
    /\ root = [t \in Tokens |-> NoToken]
    /\ pc = [w \in Workers |-> "free"]
    /\ task = [w \in Workers |-> "none"]
    /\ token = [w \in Workers |-> NoToken]
    /\ rows = [w \in Workers |-> {}]
    /\ sent = [w \in Workers |-> "nothing"]
    /\ late = [w \in Workers |-> FALSE]

-----------------------------------------------------------------------------
\* The statements.
\* (Faulty: revoked_reason is left out of the UPDATE.)
RevokeNull(S) == row' = [t \in Tokens |-> IF t \in S THEN "" ELSE row[t]]

Revoke(S) == row' = [t \in Tokens |-> IF t \in S THEN "closed" ELSE row[t]]

\* The UPDATE by hash does not ask whether the row is revoked already.
RevokeByHash(t) == Revoke({t} \cap {u \in Tokens : row[u] \in Present})

Insert(t, s) ==
    /\ row[t] = "absent"
    /\ row' = [row EXCEPT ![t] = "active"]
    /\ root' = [root EXCEPT ![t] = s]

Continue(w, next, set) ==
    /\ pc' = [pc EXCEPT ![w] = next]
    /\ rows' = [rows EXCEPT ![w] = set]
    /\ UNCHANGED <<task, token, sent, late>>

Answer(w, a) ==
    /\ pc' = [pc EXCEPT ![w] = "free"]
    /\ task' = [task EXCEPT ![w] = "none"]
    /\ token' = [token EXCEPT ![w] = NoToken]
    /\ rows' = [rows EXCEPT ![w] = {}]
    /\ sent' = [sent EXCEPT ![w] = a]
    /\ late' = [late EXCEPT ![w] = @ /\ a # "nothing"]

Begin(w, k, t, first) ==
    /\ pc[w] = "free"
    /\ pc' = [pc EXCEPT ![w] = first]
    /\ task' = [task EXCEPT ![w] = k]
    /\ token' = [token EXCEPT ![w] = t]
    /\ sent' = [sent EXCEPT ![w] = "nothing"]
    /\ late' = [late EXCEPT ![w] =
                  k = "refresh" /\ root[t] # NoToken /\ Ended(root[t])]
    /\ UNCHANGED <<table, rows>>

-----------------------------------------------------------------------------
(***************************************************************************)
(* Refresh: validate the token, then rotate it.                            *)
(***************************************************************************)
Given == {t \in Tokens : row[t] # "absent"}

BeginRefresh(w) == \E t \in Given : Begin(w, "refresh", t, "read")

\* (Faulty: the rotation alone decides.)
ValidateNothing(w) ==
    pc[w] = "read" /\ Continue(w, "rotate", {}) /\ UNCHANGED table

\* Any token may have been idle for too long: the statement that asks looks
\* at nothing else that changes.
Validate(w) ==
    /\ pc[w] = "read"
    /\ \E next \in IF Usable(token[w]) THEN {"close_idle", "rotate"} ELSE {"reason"} :
         Continue(w, next, {})
    /\ UNCHANGED table

CloseIdle(w) ==
    /\ pc[w] = "close_idle"
    /\ RevokeByHash(token[w])
    /\ Continue(w, "reason", {})
    /\ UNCHANGED root

\* A row without a reason counts as reuse and closes every session; one that
\* was rotated does not, in this endpoint.
RefuseInvalid(w) ==
    /\ pc[w] = "reason"
    /\ row[token[w]] # "unexplained"
    /\ Answer(w, "nothing")
    /\ UNCHANGED table

DetectReuse(w) ==
    /\ pc[w] = "reason"
    /\ row[token[w]] = "unexplained"
    /\ Continue(w, "all", {})
    /\ UNCHANGED table

\* (Faulty: the row is locked and not looked at.)
RotateAny(w) ==
    /\ pc[w] = "rotate"
    /\ \E t \in Tokens :
         /\ row[t] = "absent"
         /\ row' = [row EXCEPT ![t] = "active", ![token[w]] = "rotated"]
         /\ root' = [root EXCEPT ![t] = root[token[w]]]
    /\ Answer(w, "tokens")

\* (Faulty: the old row is not revoked.)
RotateKeepsOld(w) ==
    /\ pc[w] = "rotate"
    /\ Usable(token[w])
    /\ \E t \in Tokens : Insert(t, root[token[w]])
    /\ Answer(w, "tokens")

Rotate(w) ==
    /\ pc[w] = "rotate"
    /\ Usable(token[w])
    /\ \E t \in Tokens :
         /\ row[t] = "absent"
         /\ row' = [row EXCEPT ![t] = "active", ![token[w]] = "rotated"]
         /\ root' = [root EXCEPT ![t] = root[token[w]]]
    /\ Answer(w, "tokens")

RotateIdle(w) ==
    /\ pc[w] = "rotate"
    /\ Usable(token[w])
    /\ Revoke({token[w]})
    /\ Answer(w, "nothing")
    /\ UNCHANGED root

\* Another request rotated the token: an access token alone.  A change of
\* company answers with a refresh token too, which no row stands for.
Overtaken(w) ==
    /\ pc[w] = "rotate"
    /\ row[token[w]] = "rotated"
    /\ Answer(w, IF task[w] = "refresh" THEN "access" ELSE "tokens")
    /\ UNCHANGED table

RotateRefused(w) ==
    /\ pc[w] = "rotate"
    /\ ~Usable(token[w]) /\ row[token[w]] # "rotated"
    /\ Answer(w, "nothing")
    /\ UNCHANGED table

Refresh(w) ==
    \/ BeginRefresh(w) \/ Validate(w) \/ CloseIdle(w)
    \/ RefuseInvalid(w) \/ DetectReuse(w)
    \/ Rotate(w) \/ RotateIdle(w) \/ Overtaken(w) \/ RotateRefused(w)

-----------------------------------------------------------------------------
(***************************************************************************)
(* Login and change of company.                                            *)
(***************************************************************************)
\* The change of company rotates without validating first, and opens a chain
\* of its own when the client sends no refresh token.
BeginCompany(w) ==
    \/ \E t \in Given : Begin(w, "company", t, "rotate")
    \/ Begin(w, "company", NoToken, "insert")

BeginLogin(w) == Begin(w, "login", NoToken, "limit")

\* The oldest sessions over the limit; which ones are the oldest is left open.
Excess ==
    LET live == {t \in Tokens : Usable(t)}
        n == Cardinality(live) - MaxSessions
    IN  IF MaxSessions = 0 \/ n < 0 THEN {{}}
        ELSE {S \in SUBSET live : Cardinality(S) = n + 1}

ReadSessions(w) ==
    /\ pc[w] = "limit"
    /\ \E S \in Excess : Continue(w, IF S = {} THEN "insert" ELSE "evict", S)
    /\ UNCHANGED table

Evict(w) ==
    /\ pc[w] = "evict"
    /\ \E t \in rows[w] :
         /\ Revoke({t} \cap Active)
         /\ Continue(w, IF rows[w] = {t} THEN "insert" ELSE "evict", rows[w] \ {t})
    /\ UNCHANGED root

Store(w) ==
    /\ pc[w] = "insert"
    /\ \E t \in Tokens : Insert(t, t)
    /\ Answer(w, "tokens")

Login(w) ==
    BeginCompany(w) \/ BeginLogin(w) \/ ReadSessions(w) \/ Evict(w) \/ Store(w)

-----------------------------------------------------------------------------
(***************************************************************************)
(* Revocation.                                                             *)
(***************************************************************************)
\* Logout: what it reads first decides nothing.
Logout(w) ==
    /\ pc[w] = "free"
    /\ \E t \in Given : RevokeByHash(t)
    /\ UNCHANGED <<root, request>>

\* A session closed from the list: the UPDATE repeats the check of the read.
RevokeById(w) ==
    /\ pc[w] = "free"
    /\ \E t \in Active : Revoke({t})
    /\ UNCHANGED <<root, request>>

BeginLogoutAll(w) == Begin(w, "logout_all", NoToken, "all")
BeginPassword(w) == \E t \in Given \cup {NoToken} : Begin(w, "password", t, "all")

\* One UPDATE over the user's rows.  It takes the rows it comes to one after
\* another, and passes by those that are inserted behind it.
StartAll(w) ==
    /\ pc[w] = "all"
    /\ Continue(w, "sweep", Active)
    /\ UNCHANGED table

RevokeAll(w) ==
    /\ pc[w] = "sweep"
    /\ \E passed \in SUBSET (Active \ rows[w]) : Revoke(Active \ passed)
    /\ IF task[w] = "password" THEN Continue(w, "hash", {})
       ELSE Answer(w, "nothing")
    /\ UNCHANGED root

\* The token the password was changed with, and a login for its client.
RevokeOwn(w) ==
    /\ pc[w] = "hash"
    /\ IF token[w] = NoToken THEN UNCHANGED row ELSE RevokeByHash(token[w])
    /\ Continue(w, "limit", {})
    /\ UNCHANGED root

Revocation(w) ==
    \/ Logout(w) \/ RevokeById(w) \/ BeginLogoutAll(w) \/ BeginPassword(w)
    \/ StartAll(w) \/ RevokeAll(w) \/ RevokeOwn(w)

-----------------------------------------------------------------------------
\* The process stops, or a statement fails: a login answers with tokens all
\* the same, though the table has no row for them.
Fail(w) ==
    /\ pc[w] # "free"
    /\ Answer(w, IF task[w] = "login" THEN "tokens" ELSE "nothing")
    /\ UNCHANGED table

Expire(t) ==
    /\ Usable(t)
    /\ row' = [row EXCEPT ![t] = "expired"]
    /\ UNCHANGED <<root, request>>

\* One DELETE of the revoked rows whose time has passed by then.
Purge ==
    /\ \E S \in SUBSET {t \in Tokens : row[t] \in Revoked} :
         row' = [t \in Tokens |-> IF t \in S THEN "purged" ELSE row[t]]
    /\ UNCHANGED <<root, request>>

Next ==
    \/ \E w \in Workers : Refresh(w) \/ Login(w) \/ Revocation(w) \/ Fail(w)
    \/ \E t \in Tokens : Expire(t)
    \/ Purge

Spec == Init /\ [][Next]_vars
=============================================================================
