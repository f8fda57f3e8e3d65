--------------------------- MODULE SessionService ---------------------------
(***************************************************************************)
(* The services above the session transactions: login with its session     *)
(* limit, refresh with replay and idle handling, logout, revocation,       *)
(* logout-all, password change, and the Redis map of each session's access *)
(* token.                                                                  *)
(*                                                                         *)
(* A request is a sequence of awaited calls and other requests run between *)
(* any two of them.  A transaction is one step here, which is what         *)
(* SessionTx refines, except logout-all: its UPDATEs do not see the same   *)
(* sessions when a login commits between them, so it takes two steps.      *)
(*                                                                         *)
(* Every refresh token is issued together with two access tokens: the      *)
(* draft whose jti the services link in Redis and the bearer that is       *)
(* encoded afterwards with the session id and sent to the client.          *)
(***************************************************************************)
EXTENDS SessionTables, Sequences

CONSTANTS
    Requests,     \* request slots
    NoUser,       \* usr of a request that has none
    MaxSessions,  \* cliente_auth_config.max_active_sessions
    Operations,   \* the operations clients ask for
    Events        \* the events of the environment

OperationNames ==
    {"login", "refresh", "logout", "revoke", "logout_all", "password_change"}

EventNames ==
    {"session_expires", "token_expires", "session_idles", "request_fails", "redis_fails"}

ASSUME ServiceAssumption ==
    /\ NoUser \notin Users /\ IsFiniteSet(Sessions)
    /\ MaxSessions \in Nat \ {0}
    /\ Operations \subseteq OperationNames /\ Events \subseteq EventNames

VARIABLES
    order,      \* sessions by created_at
    idle,       \* sessions not refreshed for session_idle_timeout_minutes
    link,       \* session:access_jti:{session_id}: whose draft it holds
    barred,     \* blacklist:token:{jti}
    request,    \* the request in each slot: its locals and its next call
    delivered,  \* refresh tokens (and bearers) that reached the client
    presented,  \* refresh tokens presented by some refresh
    repeated,   \* refresh tokens presented by more than one refresh
    linked,     \* drafts that were ever linked
    relics      \* sessions opened with a password replaced since

redis == <<link, barred>>
history == <<presented, repeated, linked, relics>>
vars == <<tables, order, idle, redis, request, delivered, history>>

Draft(t) == <<"draft", t>>
Bearer(t) == <<"bearer", t>>

Calls == {"none", "count", "list", "evict", "create", "link_read", "link",
          "validate", "context", "check_idle", "rotate", "replay", "lookup", "revoke_tx",
          "set_password", "close_all", "commit_all", "bar_list", "bar_next",
          "bar_read", "bar", "answer"}

RequestRecords ==
    [op    : OperationNames \cup {"none"},
     at    : Calls,                         \* its next call
     usr   : Users \cup {NoUser},           \* who logs in, or whose sessions go
     stale : BOOLEAN,                       \* its password was replaced since
     sid   : Sessions \cup {NoSession},     \* the session it works on
     tok   : Tokens \cup {NoToken},         \* the refresh token it presents
     new   : Tokens \cup {NoToken},         \* the refresh token it issues
     quota : 0..Cardinality(Sessions),      \* how many sessions it has to evict
     todo  : SUBSET Sessions,               \* the sessions it still has to visit
     read  : Tokens \cup {NoToken}]         \* what it read from link

Free == [op |-> "none", at |-> "none", usr |-> NoUser, stale |-> FALSE,
         sid |-> NoSession, tok |-> NoToken, new |-> NoToken, quota |-> 0,
         todo |-> {}, read |-> NoToken]

TypeOK ==
    /\ TablesTypeOK
    /\ order \in Seq(Sessions) /\ idle \subseteq Sessions
    /\ link \in [Sessions -> Tokens \cup {NoToken}]
    /\ barred \subseteq {"draft", "bearer"} \X Tokens
    /\ request \in [Requests -> RequestRecords]
    /\ repeated \subseteq presented /\ presented \subseteq delivered
    /\ delivered \subseteq Issued /\ linked \subseteq Issued
    /\ relics \subseteq Sessions

Init ==
    /\ TablesInit
    /\ order = <<>> /\ idle = {}
    /\ link = [s \in Sessions |-> NoToken] /\ barred = {}
    /\ request = [w \in Requests |-> Free]
    /\ delivered = {} /\ presented = {} /\ repeated = {}
    /\ linked = {} /\ relics = {}

-----------------------------------------------------------------------------
At(w, call) == request[w].at = call

Goto(w, call) == request' = [request EXCEPT ![w].at = call]

\* A new request in slot w.
Begin(w, record) ==
    /\ request[w] = Free /\ record.op \in Operations
    /\ request' = [request EXCEPT ![w] = record]

SessionsOf(u) == {s \in Sessions : session[s] # "absent" /\ Owner[s] = u}
ActiveOf(u) == {s \in SessionsOf(u) : ActiveUnexpired(s)}
TokensIn(S) == {t \in Tokens : tokenSession[t] \in S}

\* The n oldest members of S, by created_at.
Oldest(n, S) ==
    LET rank(s) == CHOOSE i \in 1..Len(order) : order[i] = s
    IN {s \in S : Cardinality({q \in S : rank(q) < rank(s)}) < n}

\* revoke_session_tx and handle_replay_attack_tx: the rows of one session.
EndSession(s) ==
    RevokeRows({s} \cap {q \in Sessions : session[q] = "active"},
               {s} \cap {q \in Sessions : family[q] = "valid"},
               TokensIn({s}))

-----------------------------------------------------------------------------
(***************************************************************************)
(* SessionRedisBridge                                                      *)
(***************************************************************************)
\* RedisService is fail-soft: an unavailable Redis reads as an absent key and
\* ignores a write.
Read(stored) == {stored} \cup (IF "redis_fails" \in Events THEN {NoToken} ELSE {})
Written(old, value) == {value} \cup (IF "redis_fails" \in Events THEN {old} ELSE {})

\* link_access and blacklist_session first read the session's mapping.
ReadLink(w) ==
    /\ At(w, "link_read") \/ At(w, "bar_read")
    /\ \E r \in Read(link[request[w].sid]) :
         request' = [request EXCEPT ![w].read = r,
                                    ![w].at = IF @ = "link_read" THEN "link" ELSE "bar"]
    /\ UNCHANGED <<tables, order, idle, redis, delivered, history>>

\* (Faulty: the previous jti is not blacklisted.)
LinkAccessKeepsPrevious(w) ==
    /\ At(w, "link")
    /\ link' = [link EXCEPT ![request[w].sid] = request[w].new]
    /\ linked' = linked \cup {request[w].new}
    /\ Goto(w, "answer")
    /\ UNCHANGED <<tables, order, idle, barred, delivered, presented, repeated, relics>>

\* link_access: blacklist the previous jti, then overwrite the mapping.
LinkAccess(w) ==
    /\ At(w, "link")
    /\ LET r == request[w]
       IN /\ barred' \in Written(barred, barred \cup {Draft(t) : t \in {r.read} \ {NoToken, r.new}})
          /\ link' \in Written(link, [link EXCEPT ![r.sid] = r.new])
          /\ linked' = linked \cup {t \in {r.new} : link'[r.sid] = t}
    /\ Goto(w, "answer")
    /\ UNCHANGED <<tables, order, idle, delivered, presented, repeated, relics>>

\* blacklist_session: without a mapping there is nothing to do, else
\* blacklist its jti and delete the key.
BlacklistSession(w) ==
    /\ At(w, "bar")
    /\ LET r == request[w]
       IN \/ r.read = NoToken /\ UNCHANGED redis
          \/ /\ r.read # NoToken
             /\ barred' \in Written(barred, barred \cup {Draft(r.read)})
             /\ link' \in Written(link, [link EXCEPT ![r.sid] = NoToken])
    /\ request' = [request EXCEPT
         ![w].read = NoToken,
         ![w].at = CASE request[w].op = "login" -> "evict"
                     [] request[w].op \in {"logout_all", "password_change"} -> "bar_next"
                     [] OTHER -> "answer"]
    /\ UNCHANGED <<tables, order, idle, delivered, history>>

-----------------------------------------------------------------------------
(***************************************************************************)
(* SessionCreationService.create                                           *)
(***************************************************************************)
BeginLogin(w, u) ==
    /\ Begin(w, [Free EXCEPT !.op = "login", !.at = "count", !.usr = u])
    /\ UNCHANGED <<tables, order, idle, redis, delivered, history>>

\* (Faulty: the session about to be created is not counted.)
ExcessIgnoresNewSession(n) == IF n < MaxSessions THEN 0 ELSE n - MaxSessions

\* How many of n active sessions have to go before one more is created.
Excess(n) == IF n < MaxSessions THEN 0 ELSE n - MaxSessions + 1

\* plan_session_limit_evictions counts the active sessions ...
CountSessions(w) ==
    /\ At(w, "count")
    /\ LET n == Excess(Cardinality(ActiveOf(request[w].usr)))
       IN request' = [request EXCEPT ![w].quota = n,
                                     ![w].at = IF n = 0 THEN "create" ELSE "list"]
    /\ UNCHANGED <<tables, order, idle, redis, delivered, history>>

\* ... and lists as many of the oldest.
ListOldest(w) ==
    /\ At(w, "list")
    /\ request' = [request EXCEPT ![w].todo = Oldest(request[w].quota, ActiveOf(request[w].usr)),
                                  ![w].at = "evict"]
    /\ UNCHANGED <<tables, order, idle, redis, delivered, history>>

\* A session without a valid family is left alone, "Evicción omitida";
\* the others are revoked one by one.
Evict(w) ==
    /\ At(w, "evict")
    /\ \/ request[w].todo = {} /\ Goto(w, "create")
       \/ \E s \in Oldest(1, request[w].todo) :
            request' = [request EXCEPT
              ![w].todo = @ \ {s}, ![w].sid = s,
              ![w].at = IF family[s] = "valid" THEN "revoke_tx" ELSE "evict"]
    /\ UNCHANGED <<tables, order, idle, redis, delivered, history>>

\* create_session_with_token_tx
CreateSession(w, s, t) ==
    /\ At(w, "create")
    /\ session[s] = "absent" /\ Owner[s] = request[w].usr /\ t \notin Issued
    /\ CreateRows(s, t)
    /\ order' = Append(order, s)
    /\ request' = [request EXCEPT ![w].sid = s, ![w].new = t, ![w].at = "link_read"]
    /\ relics' = relics \cup (IF request[w].stale THEN {s} ELSE {})
    /\ UNCHANGED <<idle, redis, delivered, presented, repeated, linked>>

-----------------------------------------------------------------------------
(***************************************************************************)
(* SessionRotationService.rotate                                           *)
(***************************************************************************)
BeginRefresh(w, t) ==
    /\ t \in delivered
    /\ Begin(w, [Free EXCEPT !.op = "refresh", !.at = "validate", !.tok = t])
    /\ repeated' = repeated \cup ({t} \cap presented)
    /\ presented' = presented \cup {t}
    /\ UNCHANGED <<tables, order, idle, redis, delivered, linked, relics>>

\* validate_for_rotation reads the token first: a used one is a replay even
\* if it was revoked or has expired since, any other invalid one is refused ...
ReadToken(w) ==
    /\ At(w, "validate")
    /\ LET t == request[w].tok
       IN request' = [request EXCEPT
            ![w].sid = tokenSession[t],
            ![w].at = IF Usable(t) /\ t \notin tokenExpired THEN "context"
                      ELSE IF t \in used THEN "replay" ELSE "answer"]
    /\ UNCHANGED <<tables, order, idle, redis, delivered, history>>

\* ... and then its family and its session.
ReadContext(w) ==
    /\ At(w, "context")
    /\ LET s == request[w].sid
       IN Goto(w, IF ActiveUnexpired(s) /\ family[s] = "valid" THEN "check_idle" ELSE "answer")
    /\ UNCHANGED <<tables, order, idle, redis, delivered, history>>

\* check_idle: an idle session is revoked with reason IDLE_TIMEOUT.
CheckIdle(w) ==
    /\ At(w, "check_idle")
    /\ Goto(w, IF request[w].sid \in idle THEN "lookup" ELSE "rotate")
    /\ UNCHANGED <<tables, order, idle, redis, delivered, history>>

\* What the transaction checks again under its locks.
TokenAccepted(t) ==
    Usable(t) /\ t \notin tokenExpired /\ family[tokenSession[t]] = "valid"

\* (Faulty: whatever the transaction refuses is taken for a replay.)
RotateRejectedIsReplay(w) ==
    /\ At(w, "rotate") /\ ~TokenAccepted(request[w].tok)
    /\ Goto(w, "replay")
    /\ UNCHANGED <<tables, order, idle, redis, delivered, history>>

\* (Faulty: TOKEN_ALREADY_USED is not taken for a replay.)
RotateRejectedIsRefused(w) ==
    /\ At(w, "rotate") /\ ~TokenAccepted(request[w].tok)
    /\ Goto(w, "answer")
    /\ UNCHANGED <<tables, order, idle, redis, delivered, history>>

\* rotate_refresh_token_tx raised: TOKEN_ALREADY_USED is a replay, any other
\* reason an internal error.
RotateRejected(w) ==
    /\ At(w, "rotate") /\ ~TokenAccepted(request[w].tok)
    /\ \/ request[w].tok \in used /\ Goto(w, "replay")
       \/ request[w].tok \notin used /\ request' = [request EXCEPT ![w] = Free]
    /\ UNCHANGED <<tables, order, idle, redis, delivered, history>>

\* rotate_refresh_token_tx; last_refresh_at ends the idleness.
Rotate(w, n) ==
    /\ At(w, "rotate") /\ TokenAccepted(request[w].tok)
    /\ n \notin Issued
    /\ RotateRows(request[w].tok, n)
    /\ idle' = idle \ {s \in {request[w].sid} : session[s] = "active"}
    /\ request' = [request EXCEPT ![w].new = n, ![w].at = "link_read"]
    /\ UNCHANGED <<order, redis, delivered, history>>

\* handle_replay
Replay(w) ==
    /\ At(w, "replay")
    /\ EndSession(request[w].sid)
    /\ Goto(w, "bar_read")
    /\ UNCHANGED <<order, idle, redis, delivered, history>>

-----------------------------------------------------------------------------
(***************************************************************************)
(* SessionRevocationService                                                *)
(***************************************************************************)

\* revoke_current_session: by the refresh token of the device.
BeginLogout(w, t) ==
    /\ t \in delivered
    /\ Begin(w, [Free EXCEPT !.op = "logout", !.at = "lookup", !.tok = t, !.sid = tokenSession[t]])
    /\ UNCHANGED <<tables, order, idle, redis, delivered, history>>

\* revoke_session, revoke_by_admin: by the id of the session.
BeginRevoke(w, s) ==
    /\ session[s] # "absent"
    /\ Begin(w, [Free EXCEPT !.op = "revoke", !.at = "lookup", !.sid = s])
    /\ UNCHANGED <<tables, order, idle, redis, delivered, history>>

\* The reads before revoke_session_tx: logout takes any active session and
\* otherwise only blacklists; the others also want a valid family, and an
\* idle refresh that does not find one fails with SESSION_NOT_FOUND.  One
\* step, since the read that comes last decides: what closes a session also
\* compromises its family.
Lookup(w) ==
    /\ At(w, "lookup")
    /\ LET r == request[w]
           found == ActiveUnexpired(r.sid) /\ (r.op = "logout" \/ family[r.sid] = "valid")
       IN \/ found /\ Goto(w, "revoke_tx")
          \/ ~found /\ r.op = "logout" /\ Goto(w, "bar_read")
          \/ ~found /\ r.op = "revoke" /\ Goto(w, "answer")
          \/ ~found /\ r.op = "refresh" /\ request' = [request EXCEPT ![w] = Free]
    /\ UNCHANGED <<tables, order, idle, redis, delivered, history>>

\* revoke_session_tx, followed by blacklist_session.
Revoke(w) ==
    /\ At(w, "revoke_tx")
    /\ EndSession(request[w].sid)
    /\ Goto(w, "bar_read")
    /\ UNCHANGED <<order, idle, redis, delivered, history>>

-----------------------------------------------------------------------------
(***************************************************************************)
(* revoke_all_sessions, by itself or inside a password change.  The bearer *)
(* the request came with is blacklisted before anything is revoked.        *)
(***************************************************************************)
BeginLogoutAll(w, t) ==
    /\ t \in delivered /\ Bearer(t) \notin barred
    /\ Begin(w, [Free EXCEPT !.op = "logout_all", !.at = "close_all", !.tok = t,
                 !.usr = Owner[tokenSession[t]]])
    /\ barred' \in Written(barred, barred \cup {Bearer(t)})
    /\ UNCHANGED <<tables, order, idle, link, delivered, history>>

\* The current password is verified here ...
BeginPasswordChange(w, t) ==
    /\ t \in delivered /\ Bearer(t) \notin barred
    /\ Begin(w, [Free EXCEPT !.op = "password_change", !.at = "set_password", !.tok = t,
                 !.usr = Owner[tokenSession[t]]])
    /\ UNCHANGED <<tables, order, idle, redis, delivered, history>>

\* ... and replaced here, in a transaction of its own.
SetPassword(w) ==
    /\ At(w, "set_password")
    /\ request' = [q \in Requests |->
         IF q = w THEN [request[q] EXCEPT !.at = "close_all", !.stale = FALSE]
         ELSE [request[q] EXCEPT !.stale =
                 \/ @
                 \/ /\ request[q].usr = request[w].usr
                    /\ request[q].op \in {"login", "password_change"}]]
    /\ relics' = relics \cup SessionsOf(request[w].usr)
    /\ barred' \in Written(barred, barred \cup {Bearer(request[w].tok)})
    /\ UNCHANGED <<tables, order, idle, link, delivered, presented, repeated, linked>>

\* (Faulty: the sessions of other devices are preserved.)
CloseAllKeepsOthers(w) ==
    /\ At(w, "close_all")
    /\ request' = [request EXCEPT
         ![w].todo = ActiveOf(request[w].usr) \cap {tokenSession[request[w].tok]},
         ![w].at = "commit_all"]
    /\ UNCHANGED <<tables, order, idle, redis, delivered, history>>

\* revoke_all_user_sessions_tx: the close selects the sessions it sees ...
CloseAll(w) ==
    /\ At(w, "close_all")
    /\ request' = [request EXCEPT ![w].todo = ActiveOf(request[w].usr),
                                  ![w].at = "commit_all"]
    /\ UNCHANGED <<tables, order, idle, redis, delivered, history>>

\* ... the families and tokens are selected anew, and all commit together.
CommitAll(w) ==
    /\ At(w, "commit_all")
    /\ LET mine == SessionsOf(request[w].usr)
       IN RevokeRows(request[w].todo, {s \in mine : family[s] = "valid"}, TokensIn(mine))
    /\ request' = [request EXCEPT ![w].todo = {}, ![w].at = "bar_list"]
    /\ UNCHANGED <<order, idle, redis, delivered, history>>

\* blacklist_all_user_sessions visits the sessions that are active now.
ListForBlacklist(w) ==
    /\ At(w, "bar_list")
    /\ request' = [request EXCEPT ![w].todo = ActiveOf(request[w].usr), ![w].at = "bar_next"]
    /\ UNCHANGED <<tables, order, idle, redis, delivered, history>>

\* A password change continues as a login of the same user.
NextForBlacklist(w) ==
    /\ At(w, "bar_next")
    /\ \/ \E s \in Oldest(1, request[w].todo) :
            request' = [request EXCEPT ![w].todo = @ \ {s}, ![w].sid = s,
                                       ![w].at = "bar_read"]
       \/ /\ request[w].todo = {} /\ request[w].op = "password_change"
          /\ request' = [request EXCEPT ![w].op = "login", ![w].at = "count"]
       \/ request[w].todo = {} /\ request[w].op = "logout_all" /\ Goto(w, "answer")
    /\ UNCHANGED <<tables, order, idle, redis, delivered, history>>

-----------------------------------------------------------------------------
\* The response reaches the client: the refresh token it was issued and its
\* bearer.  Logout ends by blacklisting the bearer of the device.
Answer(w) ==
    /\ At(w, "answer")
    /\ delivered' = delivered \cup ({request[w].new} \cap Tokens)
    /\ \/ request[w].op # "logout" /\ UNCHANGED barred
       \/ /\ request[w].op = "logout"
          /\ barred' \in Written(barred, barred \cup {Bearer(request[w].tok)})
    /\ request' = [request EXCEPT ![w] = Free]
    /\ UNCHANGED <<tables, order, idle, link, history>>

\* An error, a lost connection or a stopped process ends the request between
\* two calls; what it has committed stays.
Fail(w) ==
    /\ "request_fails" \in Events /\ request[w] # Free
    /\ request' = [request EXCEPT ![w] = Free]
    /\ UNCHANGED <<tables, order, idle, redis, delivered, history>>

\* Bound of the model: the ids are used up, and an INSERT that repeats one
\* fails on the primary key.
NoIdLeft(w) ==
    /\ \/ At(w, "rotate") /\ TokenAccepted(request[w].tok) /\ Issued = Tokens
       \/ /\ At(w, "create")
          /\ Issued = Tokens \/ {s \in Sessions : Owner[s] = request[w].usr}
                                   \subseteq SessionsOf(request[w].usr)
    /\ request' = [request EXCEPT ![w] = Free]
    /\ UNCHANGED <<tables, order, idle, redis, delivered, history>>

\* Time passes.
Expire ==
    /\ \/ "session_expires" \in Events /\ \E s \in Sessions : ExpireSession(s)
       \/ "token_expires" \in Events /\ \E t \in Tokens : ExpireToken(t)
    /\ UNCHANGED <<order, idle, redis, request, delivered, history>>

GoIdle(s) ==
    /\ "session_idles" \in Events
    /\ session[s] = "active" /\ s \notin idle
    /\ idle' = idle \cup {s}
    /\ UNCHANGED <<tables, order, redis, request, delivered, history>>

Enter(w) ==
    \/ \E u \in Users : BeginLogin(w, u)
    \/ \E t \in Tokens : BeginRefresh(w, t) \/ BeginLogout(w, t)
                         \/ BeginLogoutAll(w, t) \/ BeginPasswordChange(w, t)
    \/ \E s \in Sessions : BeginRevoke(w, s)

Step(w) ==
    \/ CountSessions(w)
    \/ ListOldest(w)
    \/ Evict(w)
    \/ \E s \in Sessions, t \in Tokens : CreateSession(w, s, t)
    \/ ReadLink(w)
    \/ LinkAccess(w)
    \/ ReadToken(w)
    \/ ReadContext(w)
    \/ CheckIdle(w)
    \/ RotateRejected(w)
    \/ \E n \in Tokens : Rotate(w, n)
    \/ Replay(w)
    \/ Lookup(w)
    \/ Revoke(w)
    \/ SetPassword(w)
    \/ CloseAll(w)
    \/ CommitAll(w)
    \/ ListForBlacklist(w)
    \/ NextForBlacklist(w)
    \/ BlacklistSession(w)
    \/ Answer(w)
    \/ NoIdLeft(w)

Next ==
    \/ \E w \in Requests : Enter(w) \/ Step(w) \/ Fail(w)
    \/ Expire
    \/ \E s \in Sessions : GoIdle(s)

Spec == Init /\ [][Next]_vars
=============================================================================
