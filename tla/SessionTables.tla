--------------------------- MODULE SessionTables ---------------------------
(***************************************************************************)
(* The three tables of IAM Session V2 (user_session, token_family,         *)
(* refresh_tokens) and the effect of the five transactions of              *)
(* session_transaction_core.py on them.                                    *)
(*                                                                         *)
(* A token_family row is identified with its session: only                 *)
(* create_session_with_token_tx inserts families, one per session.  Rows   *)
(* that do not exist are "absent" sessions and tokens without a session.   *)
(***************************************************************************)
EXTENDS Naturals, FiniteSets

CONSTANTS
    Users,        \* (cliente_id, usuario_id) pairs
    Sessions,     \* session_id values, drawn from uuid4()
    Tokens,       \* token_id values (and, one to one, token_hash values)
    Owner,        \* the user a session id is created for
    NoToken,      \* SQL NULL in current_token_id and parent_token_id
    NoSession     \* marks a token that has not been inserted

ASSUME OwnerAssumption == Owner \in [Sessions -> Users]
ASSUME NullAssumption == NoToken \notin Tokens /\ NoSession \notin Sessions

VARIABLES
    session,         \* user_session.is_active, or "absent"
    sessionExpired,  \* sessions whose expires_at is in the past
    family,          \* token_family.is_compromised of the session's family
    current,         \* token_family.current_token_id
    tokenSession,    \* refresh_tokens.session_id
    parent,          \* refresh_tokens.parent_token_id
    used,            \* tokens with is_used = 1
    revoked,         \* tokens with is_revoked = 1
    tokenExpired     \* tokens whose expires_at is in the past

tables == <<session, sessionExpired, family, current,
            tokenSession, parent, used, revoked, tokenExpired>>

expiry == <<sessionExpired, tokenExpired>>

TablesTypeOK ==
    /\ session \in [Sessions -> {"absent", "active", "closed"}]
    /\ sessionExpired \in SUBSET Sessions
    /\ family \in [Sessions -> {"absent", "valid", "compromised"}]
    /\ current \in [Sessions -> Tokens \cup {NoToken}]
    /\ tokenSession \in [Tokens -> Sessions \cup {NoSession}]
    /\ parent \in [Tokens -> Tokens \cup {NoToken}]
    /\ used \in SUBSET Tokens
    /\ revoked \in SUBSET Tokens
    /\ tokenExpired \in SUBSET Tokens

TablesInit ==
    /\ session = [s \in Sessions |-> "absent"]
    /\ sessionExpired = {}
    /\ family = [s \in Sessions |-> "absent"]
    /\ current = [s \in Sessions |-> NoToken]
    /\ tokenSession = [t \in Tokens |-> NoSession]
    /\ parent = [t \in Tokens |-> NoToken]
    /\ used = {}
    /\ revoked = {}
    /\ tokenExpired = {}

-----------------------------------------------------------------------------
(***************************************************************************)
(* Predicates of the queries.                                              *)
(***************************************************************************)
Issued == {t \in Tokens : tokenSession[t] # NoSession}

\* _usable_token_where: neither consumed by a rotation nor revoked.
Usable(t) == tokenSession[t] # NoSession /\ t \notin used /\ t \notin revoked

\* _active_session_conditions: is_active = 1 AND expires_at > GETDATE().
ActiveUnexpired(s) == session[s] = "active" /\ s \notin sessionExpired

-----------------------------------------------------------------------------
(***************************************************************************)
(* The effect of each transaction at its COMMIT.                           *)
(***************************************************************************)

\* (Faulty: the UPDATE stores the session's id instead of the token's.)
CreateRowsWrongId(s, t) ==
    /\ session' = [session EXCEPT ![s] = "active"]
    /\ family' = [family EXCEPT ![s] = "valid"]
    /\ current' = [current EXCEPT ![s] = s]
    /\ tokenSession' = [tokenSession EXCEPT ![t] = s]
    /\ parent' = [parent EXCEPT ![t] = NoToken]
    /\ UNCHANGED <<used, revoked, expiry>>

\* INSERT user_session, token_family, refresh_tokens(parent NULL), then
\* UPDATE token_family.current_token_id.
CreateRows(s, t) ==
    /\ session' = [session EXCEPT ![s] = "active"]
    /\ family' = [family EXCEPT ![s] = "valid"]
    /\ current' = [current EXCEPT ![s] = t]
    /\ tokenSession' = [tokenSession EXCEPT ![t] = s]
    /\ parent' = [parent EXCEPT ![t] = NoToken]
    /\ UNCHANGED <<used, revoked, expiry>>

\* (Faulty: the UPDATE of current_token_id is missing.)
RotateRowsStaleFamily(t, n) ==
    /\ tokenSession' = [tokenSession EXCEPT ![n] = tokenSession[t]]
    /\ parent' = [parent EXCEPT ![n] = t]
    /\ used' = used \cup {t}
    /\ UNCHANGED <<session, family, current, revoked, expiry>>

\* INSERT successor n of t, UPDATE current_token_id, mark t used.  The
\* UPDATE of last_refresh_at leaves what is modelled of the session alone.
RotateRows(t, n) ==
    /\ tokenSession' = [tokenSession EXCEPT ![n] = tokenSession[t]]
    /\ parent' = [parent EXCEPT ![n] = t]
    /\ current' = [current EXCEPT ![tokenSession[t]] = n]
    /\ used' = used \cup {t}
    /\ UNCHANGED <<session, family, revoked, expiry>>

\* (Faulty: revoking a token resets is_used.)
RevokeRowsResetUsed(C, F, R) ==
    /\ session' = [s \in Sessions |-> IF s \in C THEN "closed" ELSE session[s]]
    /\ family' = [s \in Sessions |-> IF s \in F THEN "compromised" ELSE family[s]]
    /\ revoked' = revoked \cup R
    /\ used' = used \ R
    /\ UNCHANGED <<current, tokenSession, parent, expiry>>

\* The three UPDATEs shared by revoke, revoke-all and replay, on the rows
\* each of them matched: sessions C closed, families F compromised, tokens
\* R revoked.
RevokeRows(C, F, R) ==
    /\ session' = [s \in Sessions |-> IF s \in C THEN "closed" ELSE session[s]]
    /\ family' = [s \in Sessions |-> IF s \in F THEN "compromised" ELSE family[s]]
    /\ revoked' = revoked \cup R
    /\ UNCHANGED <<current, tokenSession, parent, used, expiry>>

\* The clock passes the expires_at of a row.
ExpireSession(s) ==
    /\ session[s] # "absent" /\ s \notin sessionExpired
    /\ sessionExpired' = sessionExpired \cup {s}
    /\ UNCHANGED <<session, family, current, tokenSession, parent, used,
                   revoked, tokenExpired>>

ExpireToken(t) ==
    /\ t \in Issued \ tokenExpired
    /\ tokenExpired' = tokenExpired \cup {t}
    /\ UNCHANGED <<session, sessionExpired, family, current, tokenSession,
                   parent, used, revoked>>
=============================================================================
