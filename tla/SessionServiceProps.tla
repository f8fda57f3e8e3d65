------------------------- MODULE SessionServiceProps -------------------------
(***************************************************************************)
(* Correctness of the session services.                                    *)
(***************************************************************************)
EXTENDS SessionService

Quiet == \A w \in Requests : request[w] = Free

\* Session limit: a user never has more active sessions than
\* max_active_sessions.
SessionLimit == \A u \in Users : Cardinality(ActiveOf(u)) <= MaxSessions

\* A refresh only treats its token as reused if two refreshes presented it:
\* no other error of the rotation is mistaken for a replay.
OnlyReuseIsReplay ==
    \A w \in Requests : At(w, "replay") => request[w].tok \in repeated

\* A refresh with a used token is never just refused: when it is answered
\* and did not do the rotation itself, the session is beyond use.
UsedTokenEndsSession ==
    \A w \in Requests :
      LET r == request[w]
          s == tokenSession[r.tok]
      IN r.op = "refresh" /\ At(w, "answer") /\ r.tok \in used /\ r.new = NoToken
           => s \in sessionExpired \/ TokensIn({s}) \subseteq used \cup revoked

\* After a password change no session opened with the replaced password is
\* active.
PasswordChangeEndsOldSessions ==
    (\A w \in Requests : request[w].op # "password_change")
      => \A s \in relics : ~ActiveUnexpired(s)

\* Refreshes and logins leave no second live access token behind: every
\* draft ever linked is blacklisted or is the one its session maps to.
OneLinkedAccess ==
    Quiet => \A t \in linked : Draft(t) \in barred \/ link[tokenSession[t]] = t

-----------------------------------------------------------------------------
(***************************************************************************)
(* Two requests that meet can break SessionLimit,                          *)
(* PasswordChangeEndsOldSessions and OneLinkedAccess.  These are the       *)
(* meetings that have to be excluded.                                      *)
(***************************************************************************)
\* The logins, logout-alls and password changes of a user take turns, while
\* refreshes, logouts and revocations run at any time.
TurnsPerUser ==
    \A w, q \in Requests :
        w # q /\ request[w].usr # NoUser => request[w].usr # request[q].usr

\* Between reading the mapping of a session and writing it, the bridge runs
\* for no other request on that session.
TurnsPerLink ==
    \A w, q \in Requests :
        w # q /\ request[w].at \in {"link", "bar"} /\ request[q].at \in {"link", "bar"}
        => request[w].sid # request[q].sid
=============================================================================
