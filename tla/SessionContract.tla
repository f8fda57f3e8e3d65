-------------------------- MODULE SessionContract --------------------------
(***************************************************************************)
(* What the session subsystem promises: a session, once opened, holds      *)
(* exactly one refresh credential; a refresh replaces it by a new one; an  *)
(* ended session holds none and never lives again; no credential is ever   *)
(* valid twice.  Bulk operations may end several sessions in one step.     *)
(***************************************************************************)
CONSTANTS Sessions, Tokens, NoToken

VARIABLES
    phase,       \* "unborn", "live" or "ended"
    credential,  \* the one token a live session can be refreshed with
    issued       \* every token ever handed out

vars == <<phase, credential, issued>>

Init ==
    /\ phase = [s \in Sessions |-> "unborn"]
    /\ credential = [s \in Sessions |-> NoToken]
    /\ issued = {}

Open(s, t) ==
    /\ phase[s] = "unborn" /\ t \notin issued
    /\ phase' = [phase EXCEPT ![s] = "live"]
    /\ credential' = [credential EXCEPT ![s] = t]
    /\ issued' = issued \cup {t}

Refresh(s, n) ==
    /\ phase[s] = "live" /\ n \notin issued
    /\ credential' = [credential EXCEPT ![s] = n]
    /\ issued' = issued \cup {n}
    /\ UNCHANGED phase

End(E) ==
    /\ \A s \in E : phase[s] = "live"
    /\ phase' = [s \in Sessions |-> IF s \in E THEN "ended" ELSE phase[s]]
    /\ credential' = [s \in Sessions |-> IF s \in E THEN NoToken ELSE credential[s]]
    /\ UNCHANGED issued

Next ==
    \/ \E s \in Sessions, t \in Tokens : Open(s, t) \/ Refresh(s, t)
    \/ \E E \in SUBSET Sessions : End(E)

Spec == Init /\ [][Next]_vars
=============================================================================
