--------------------------- MODULE SessionTxProps ---------------------------
(***************************************************************************)
(* Correctness of the session transactions.                                *)
(***************************************************************************)
EXTENDS SessionTx

\* Refresh token rotation: a token that was consumed has exactly one
\* successor, issued in the same session, and only a consumed token has one
\* -- however many refreshes present the same token at once.
LinearChain ==
    /\ \A t \in used : \E n \in Tokens : parent[n] = t
    /\ \A n \in Tokens : parent[n] # NoToken =>
         /\ parent[n] \in used
         /\ tokenSession[parent[n]] = tokenSession[n]
    /\ \A n1, n2 \in Tokens :
         parent[n1] = parent[n2] /\ parent[n1] # NoToken => n1 = n2

\* At most one token of a session can still be rotated, and it is the one
\* token_family.current_token_id names.
SingleCredential ==
    \A t \in Tokens : Usable(t) => current[tokenSession[t]] = t

\* A compromised family has no token left that a rotation would accept.
CompromisedFamilyIsDead ==
    \A t \in Tokens : Usable(t) => family[tokenSession[t]] = "valid"

\* A session that was closed by logout, replay or bulk revocation took its
\* family along: no later refresh can succeed in it.
ClosedSessionIsDead ==
    \A s \in Sessions : session[s] = "closed" => family[s] = "compromised"

\* A rotation that got past its checks still owns a usable token in a valid
\* family when it writes: "MARK token used" and "UPDATE current_token_id"
\* never match zero rows.  With the token lock alone the family is already
\* safe, so FAMILY_COMPROMISED is never raised.
RotationOwnsItsRows ==
    \A w \in Workers :
        op[w] = "rotate" /\ at[w] # "lock_token" =>
            Usable(tok[w]) /\ family[tokenSession[tok[w]]] = "valid"

\* No transaction, commit or rollback undoes a closure, a compromise, a
\* consumption or a revocation, or moves a token between sessions.
NoResurrection ==
    [][/\ used \subseteq used' /\ revoked \subseteq revoked'
       /\ \A s \in Sessions :
            /\ session[s] = "closed" => session'[s] = "closed"
            /\ family[s] = "compromised" => family'[s] = "compromised"
       /\ \A t \in Issued : tokenSession'[t] = tokenSession[t]
                            /\ parent'[t] = parent[t]]_tables

\* After logout, eviction, replay or bulk revocation has closed a session no
\* refresh issues another token in it, not even one that had validated its
\* token before.
ClosedSessionIssuesNothing ==
    [][\A s \in Sessions, t \in Tokens :
         session[s] = "closed" /\ tokenSession'[t] = s => tokenSession[t] = s]_tables

-----------------------------------------------------------------------------
(***************************************************************************)
(* The transactions implement the contract: a session lives while it has a *)
(* usable token.                                                           *)
(***************************************************************************)
Living == {s \in Sessions : \E t \in Tokens : tokenSession[t] = s /\ Usable(t)}

Phase == [s \in Sessions |-> IF s \in Living THEN "live"
                           ELSE IF session[s] = "absent" THEN "unborn"
                           ELSE "ended"]

Credential == [s \in Sessions |-> IF s \in Living THEN current[s] ELSE NoToken]

Contract == INSTANCE SessionContract WITH
    phase <- Phase, credential <- Credential, issued <- Issued

ImplementsContract == Contract!Spec

-----------------------------------------------------------------------------
(***************************************************************************)
(* Progress.  SQL Server grants a lock in the order it was asked for, so a *)
(* statement whose rows keep becoming free eventually runs (strong         *)
(* fairness), and its lock monitor eventually breaks a wait cycle.         *)
(***************************************************************************)
Fairness == \A w \in Workers : SF_vars(Step(w)) /\ WF_vars(DeadlockVictim(w))

FairSpec == Spec /\ Fairness

\* Every transaction ends: rotate, revoke and replay lock the same rows in
\* three different orders, and still nobody waits forever.
TransactionsEnd == \A w \in Workers : op[w] # "none" ~> op[w] = "none"
=============================================================================
