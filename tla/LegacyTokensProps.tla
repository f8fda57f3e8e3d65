-------------------------- MODULE LegacyTokensProps -------------------------
(***************************************************************************)
(* Correctness of the refresh tokens of the default session engine.        *)
(***************************************************************************)
EXTENDS LegacyTokens

\* However many refreshes, changes of company and revocations race over a
\* token, its session never has two rows that are not revoked: the lock of
\* the rotation (rotate_refresh_token_core) is all that sees to it.
OneActivePerSession ==
    \A t, u \in Active : root[t] = root[u] => t = u

\* refresh_access_token answers a request whose token another one rotated
\* with an access token.  It must not do so for a session that had ended
\* before the request began: logout_all_sessions promises that its client
\* "no podrá ser renovado".
NoAccessAfterEnd ==
    \A w \in Workers : sent[w] \in {"tokens", "access"} => ~late[w]

\* The chains of rows implement sessions: one credential each, replaced as a
\* whole, never valid twice, and none after the session has ended.
Of(s) == {t \in Tokens : root[t] = s}
Phase ==
    [s \in Tokens |-> IF Of(s) = {} THEN "unborn"
                      ELSE IF Ended(s) THEN "ended" ELSE "live"]
Credential ==
    [s \in Tokens |-> IF Ended(s) THEN NoToken ELSE CHOOSE t \in Of(s) : Usable(t)]

Contract ==
    INSTANCE SessionContract
        WITH Sessions <- Tokens, phase <- Phase, credential <- Credential,
             issued <- {t \in Tokens : root[t] # NoToken}
ImplementsContract == Contract!Spec
=============================================================================
