------------------------ MODULE SessionServiceProofs ------------------------
(***************************************************************************)
(* Type correctness of the session services, the proof that only a token   *)
(* presented twice is treated as reused, and that a refresh with a used    *)
(* token is never merely refused.  Then, for requests that take turns      *)
(* where they have to: the session limit, the end of the sessions opened   *)
(* with a replaced password, and one live access token per session.        *)
(***************************************************************************)
EXTENDS SessionServiceProps, FiniteSetTheorems, TLAPS

\* What the locals of a request are at each of its calls.
RecordOK(r) ==
    /\ r.op = "refresh" => r.tok \in presented
    /\ r.op \in {"logout", "logout_all", "password_change"} => r.tok \in Tokens
    /\ r.at = "set_password" => r.op = "password_change"
    /\ r.at \in {"count", "list", "evict", "create"} => r.op = "login"
    /\ r.at \in {"validate", "context", "check_idle", "rotate", "replay"} =>
         r.op = "refresh" /\ r.new = NoToken
    /\ r.at \in {"context", "check_idle", "rotate", "replay", "lookup", "revoke_tx",
                 "link_read", "link", "bar_read", "bar"} => r.sid \in Sessions
    /\ r.at \in {"link_read", "link"} => r.new \in Issued
    /\ r.new \in Issued \cup {NoToken}

TypeInv == TypeOK /\ \A w \in Requests : RecordOK(request[w])

\* Presentations of tokens.
ReuseInv ==
    /\ used \subseteq presented
    /\ \A w \in Requests :
         /\ At(w, "replay") => request[w].tok \in used
         /\ request[w].op = "refresh" /\ request[w].tok \in used =>
              request[w].tok \in repeated \/ request[w].new # NoToken
    /\ \A w, q \in Requests :
         /\ w # q /\ request[w].tok = request[q].tok
         /\ request[w].op = "refresh" /\ request[q].op = "refresh"
         => request[w].tok \in repeated

Inv == TypeInv /\ ReuseInv

-----------------------------------------------------------------------------
LEMMA TablesInitType == TablesInit => TablesTypeOK
  BY NullAssumption DEF TablesInit, TablesTypeOK

LEMMA FreeType == Free \in RequestRecords /\ RecordOK(Free)
  <1>1. 0 \in 0..Cardinality(Sessions)
    BY ServiceAssumption, FS_CardinalityType
  <1>2. QED  BY <1>1 DEF Free, RequestRecords, RecordOK, OperationNames, Calls

LEMMA InitInv == Init => Inv
  <1> SUFFICES ASSUME Init PROVE Inv
    OBVIOUS
  <1>1. TypeOK
    <2>1. order \in Seq(Sessions)
      BY DEF Init
    <2>2. request \in [Requests -> RequestRecords]
      BY FreeType DEF Init
    <2>3. QED  BY <2>1, <2>2, TablesInitType DEF Init, TypeOK, Issued
  <1>2. \A w \in Requests : RecordOK(request[w])
    BY FreeType DEF Init
  <1>3. ReuseInv
    BY DEF Init, ReuseInv, TablesInit, At, Free
  <1>4. QED  BY <1>1, <1>2, <1>3 DEF Inv, TypeInv
-----------------------------------------------------------------------------
(***************************************************************************)
(* Steps of a request that present and consume no token.                   *)
(***************************************************************************)

\* r is what request w becomes.
Becomes(w, r) ==
    /\ request' = [request EXCEPT ![w] = r]
    /\ r \in RequestRecords
    /\ r.op = "refresh" => /\ request[w].op = "refresh"
                           /\ r.tok = request[w].tok /\ r.new = request[w].new
    /\ r.at = "replay" => r.tok \in used

\* Invariance of everything that depends on a request, when it only advances.
LEMMA RecordsKept ==
  ASSUME Inv, NEW w \in Requests, NEW r, Becomes(w, r), RecordOK(r)',
         Issued \subseteq Issued', used' = used,
         UNCHANGED <<presented, repeated>>
  PROVE  /\ request' \in [Requests -> RequestRecords]
         /\ \A q \in Requests : RecordOK(request[q])'
         /\ ReuseInv'
  <1> USE DEF Inv, TypeInv, TypeOK, Becomes
  <1>1. request' \in [Requests -> RequestRecords]
    OBVIOUS
  <1>2. \A q \in Requests : RecordOK(request[q])'
    <2> SUFFICES ASSUME NEW q \in Requests PROVE RecordOK(request[q])'
      OBVIOUS
    <2>1. CASE q = w
      BY <2>1
    <2>2. CASE q # w
      BY <2>2 DEF RecordOK
    <2>3. QED  BY <2>1, <2>2
  <1>3. ReuseInv'
    BY DEF ReuseInv, At
  <1>4. QED  BY <1>1, <1>2, <1>3

\* Steps that touch nothing but the request.
LEMMA LocalInv ==
  ASSUME Inv, NEW w \in Requests, NEW r, Becomes(w, r), RecordOK(r),
         UNCHANGED <<tables, order, idle, redis, delivered, history>>
  PROVE  Inv'
  <1>1. RecordOK(r)' /\ Issued' = Issued /\ used' = used
    BY DEF RecordOK, Issued, tables, history
  <1>2. /\ request' \in [Requests -> RequestRecords]
        /\ \A q \in Requests : RecordOK(request[q])'
        /\ ReuseInv'
    BY <1>1, RecordsKept DEF history
  <1>3. TypeOK'
    BY <1>1, <1>2 DEF Inv, TypeInv, TypeOK, TablesTypeOK, tables, redis, history
  <1>4. QED  BY <1>2, <1>3 DEF Inv, TypeInv

\* The record that request w is, and the parts it is made of.
LEMMA RecordParts ==
  ASSUME Inv, NEW w \in Requests
  PROVE  /\ request[w] \in RequestRecords
         /\ RecordOK(request[w])
         /\ request[w].op \in OperationNames \cup {"none"}
         /\ request[w].todo \in SUBSET Sessions
  BY DEF Inv, TypeInv, TypeOK, RequestRecords

LEMMA BeginLoginInv ==
  ASSUME Inv, NEW w \in Requests, NEW u \in Users, BeginLogin(w, u)
  PROVE  Inv'
  <1> DEFINE r == [Free EXCEPT !.op = "login", !.at = "count", !.usr = u]
  <1>1. r \in RequestRecords /\ RecordOK(r)
    BY ZenonT(60), FreeType DEF RequestRecords, RecordOK, OperationNames, Calls, Free
  <1>2. Becomes(w, r)
    BY <1>1 DEF BeginLogin, Begin, Becomes, Free
  <1>3. QED  BY <1>1, <1>2, LocalInv DEF BeginLogin

LEMMA BeginLogoutInv ==
  ASSUME Inv, NEW w \in Requests, NEW t \in Tokens, BeginLogout(w, t)
  PROVE  Inv'
  <1> DEFINE r == [Free EXCEPT !.op = "logout", !.at = "lookup", !.tok = t,
                               !.sid = tokenSession[t]]
  <1>0. tokenSession[t] \in Sessions
    BY DEF BeginLogout, Inv, TypeInv, TypeOK, TablesTypeOK, Issued
  <1>1. r \in RequestRecords /\ RecordOK(r)
    BY ZenonT(60), <1>0, FreeType DEF RequestRecords, RecordOK, OperationNames, Calls, Free
  <1>2. Becomes(w, r)
    BY <1>1 DEF BeginLogout, Begin, Becomes, Free
  <1>3. QED  BY <1>1, <1>2, LocalInv DEF BeginLogout

LEMMA BeginRevokeInv ==
  ASSUME Inv, NEW w \in Requests, NEW s \in Sessions, BeginRevoke(w, s)
  PROVE  Inv'
  <1> DEFINE r == [Free EXCEPT !.op = "revoke", !.at = "lookup", !.sid = s]
  <1>1. r \in RequestRecords /\ RecordOK(r)
    <2>1. r \in RequestRecords
      BY FreeType DEF RequestRecords, OperationNames, Calls
    <2>2. RecordOK(r)
      BY DEF RecordOK, Free
    <2>3. QED  BY <2>1, <2>2
  <1>2. Becomes(w, r)
    BY <1>1 DEF BeginRevoke, Begin, Becomes, Free
  <1>3. QED  BY <1>1, <1>2, LocalInv DEF BeginRevoke

LEMMA ExcessBound ==
  ASSUME NEW S \in SUBSET Sessions
  PROVE  Excess(Cardinality(S)) \in 0..Cardinality(Sessions)
  <1>1. /\ Cardinality(S) \in Nat /\ Cardinality(Sessions) \in Nat
        /\ Cardinality(S) <= Cardinality(Sessions)
    BY ServiceAssumption, FS_Subset, FS_CardinalityType
  <1>2. QED  BY <1>1, ServiceAssumption DEF Excess

LEMMA CountSessionsInv ==
  ASSUME Inv, NEW w \in Requests, CountSessions(w)
  PROVE  Inv'
  <1> DEFINE n == Excess(Cardinality(ActiveOf(request[w].usr)))
             r == [request[w] EXCEPT !.quota = n,
                                     !.at = IF n = 0 THEN "create" ELSE "list"]
  <1>1. n \in 0..Cardinality(Sessions)
    <2>1. ActiveOf(request[w].usr) \in SUBSET Sessions
      BY DEF ActiveOf, SessionsOf
    <2>2. QED  BY <2>1, ExcessBound
  <1> HIDE DEF n
  <1>2. r \in RequestRecords /\ RecordOK(r)
    <2>1. r \in RequestRecords
      <3> DEFINE c == IF n = 0 THEN "create" ELSE "list"
      <3>1. c \in Calls
        BY DEF Calls
      <3> HIDE DEF c
      <3>2. [request[w] EXCEPT !.quota = n, !.at = c] \in RequestRecords
        BY <1>1, <3>1, RecordParts DEF RequestRecords
      <3>3. QED  BY <3>2 DEF c
    <2>2. RecordOK(r)
      BY RecordParts DEF RequestRecords, RecordOK, CountSessions, At
    <2>3. QED  BY <2>1, <2>2
  <1>3. Becomes(w, r)
    <2>1. request' = [request EXCEPT ![w].quota = n,
                                     ![w].at = IF n = 0 THEN "create" ELSE "list"]
      BY DEF CountSessions, n
    <2>2. QED  BY <1>2, <2>1, RecordParts DEF Becomes, RequestRecords, Inv, TypeInv, TypeOK
  <1>4. QED  BY <1>2, <1>3, LocalInv DEF CountSessions

LEMMA ListOldestInv ==
  ASSUME Inv, NEW w \in Requests, ListOldest(w)
  PROVE  Inv'
  <1> DEFINE S == Oldest(request[w].quota, ActiveOf(request[w].usr))
             r == [request[w] EXCEPT !.todo = S, !.at = "evict"]
  <1>1. S \in SUBSET Sessions
    BY DEF Oldest, ActiveOf, SessionsOf
  <1>2. request' = [request EXCEPT ![w].todo = S, ![w].at = "evict"]
    BY DEF ListOldest
  <1> HIDE DEF S
  <1>3. r \in RequestRecords /\ RecordOK(r)
    <2>1. "evict" \in Calls
      BY DEF Calls
    <2>2. r \in RequestRecords
      BY <1>1, <2>1, RecordParts DEF RequestRecords
    <2>3. RecordOK(r)
      BY RecordParts DEF RequestRecords, RecordOK, ListOldest, At
    <2>4. QED  BY <2>2, <2>3
  <1>4. Becomes(w, r)
    BY <1>2, <1>3, RecordParts DEF Becomes, RequestRecords, Inv, TypeInv, TypeOK
  <1>5. QED  BY <1>3, <1>4, LocalInv DEF ListOldest

LEMMA EvictInv ==
  ASSUME Inv, NEW w \in Requests, Evict(w)
  PROVE  Inv'
  <1>1. CASE request[w].todo = {} /\ Goto(w, "create")
    <2> DEFINE r == [request[w] EXCEPT !.at = "create"]
    <2>1. r \in RequestRecords /\ RecordOK(r)
      <3>1. "create" \in Calls
        BY DEF Calls
      <3>2. r \in RequestRecords
        BY <3>1, RecordParts DEF RequestRecords
      <3>3. RecordOK(r)
        BY ZenonT(60), RecordParts DEF RequestRecords, RecordOK, Evict, At
      <3>4. QED  BY <3>2, <3>3
    <2>2. Becomes(w, r)
      BY <1>1, <2>1, RecordParts DEF Goto, Becomes, RequestRecords, Inv, TypeInv, TypeOK
    <2>3. QED  BY <2>1, <2>2, LocalInv DEF Evict
  <1>2. ASSUME NEW s \in Oldest(1, request[w].todo),
               request' = [request EXCEPT
                 ![w].todo = @ \ {s}, ![w].sid = s,
                 ![w].at = IF family[s] = "valid" THEN "revoke_tx" ELSE "evict"]
        PROVE  Inv'
    <2> DEFINE r == [request[w] EXCEPT
                       !.todo = @ \ {s}, !.sid = s,
                       !.at = IF family[s] = "valid" THEN "revoke_tx" ELSE "evict"]
    <2>0. s \in Sessions
      BY RecordParts DEF Oldest
    <2>1. r \in RequestRecords /\ RecordOK(r)
      <3>1. r \in RequestRecords
        <4> DEFINE c == IF family[s] = "valid" THEN "revoke_tx" ELSE "evict"
                   S == request[w].todo \ {s}
        <4>1. c \in Calls /\ S \in SUBSET Sessions
          BY RecordParts DEF Calls
        <4> HIDE DEF c, S
        <4>2. [request[w] EXCEPT !.todo = S, !.sid = s, !.at = c] \in RequestRecords
          BY <2>0, <4>1, RecordParts DEF RequestRecords
        <4>3. QED  BY <4>2 DEF c, S
      <3>2. RecordOK(r)
        BY ZenonT(60), <2>0, RecordParts DEF RequestRecords, RecordOK, Evict, At
      <3>3. QED  BY <3>1, <3>2
    <2>2. Becomes(w, r)
      BY <1>2, <2>1, RecordParts DEF Becomes, RequestRecords, Inv, TypeInv, TypeOK
    <2>3. QED  BY <2>1, <2>2, LocalInv DEF Evict
  <1>3. QED  BY <1>1, <1>2 DEF Evict

LEMMA GotoInv ==
  ASSUME Inv, NEW w \in Requests, NEW c \in Calls, Goto(w, c),
         RecordOK([request[w] EXCEPT !.at = c]),
         c = "replay" => request[w].tok \in used,
         UNCHANGED <<tables, order, idle, redis, delivered, history>>
  PROVE  Inv'
  <1> DEFINE r == [request[w] EXCEPT !.at = c]
  <1>1. r \in RequestRecords
    BY RecordParts DEF RequestRecords
  <1>2. Becomes(w, r)
    BY <1>1, RecordParts DEF Goto, Becomes, RequestRecords, Inv, TypeInv, TypeOK
  <1>3. QED  BY <1>2, LocalInv

LEMMA FreeInv ==
  ASSUME Inv, NEW w \in Requests, request' = [request EXCEPT ![w] = Free],
         UNCHANGED <<tables, order, idle, redis, delivered, history>>
  PROVE  Inv'
  <1>1. Becomes(w, Free)
    BY FreeType DEF Becomes, Free
  <1>2. QED  BY <1>1, FreeType, LocalInv

LEMMA ReadLinkInv ==
  ASSUME Inv, NEW w \in Requests, ReadLink(w)
  PROVE  Inv'
  <1> PICK x \in Read(link[request[w].sid]) :
         request' = [request EXCEPT ![w].read = x,
                                    ![w].at = IF @ = "link_read" THEN "link" ELSE "bar"]
    BY DEF ReadLink
  <1> DEFINE c == IF request[w].at = "link_read" THEN "link" ELSE "bar"
             r == [request[w] EXCEPT !.read = x, !.at = c]
  <1>1. request[w].sid \in Sessions
    BY RecordParts DEF ReadLink, RecordOK, At
  <1>2. x \in Tokens \cup {NoToken} /\ c \in Calls
    BY <1>1 DEF Read, Inv, TypeInv, TypeOK, Calls
  <1>3. Becomes(w, r)
    <2>1. request' = [request EXCEPT ![w] = r]
      BY RecordParts DEF RequestRecords, Inv, TypeInv, TypeOK
    <2>2. c # "replay"
      OBVIOUS
    <2> HIDE DEF c
    <2>3. r \in RequestRecords
      BY <1>2, RecordParts DEF RequestRecords
    <2>4. QED  BY <2>1, <2>2, <2>3, RecordParts DEF Becomes, RequestRecords
  <1>4. RecordOK(r)
    BY <1>1, RecordParts DEF RecordOK, RequestRecords, ReadLink, At
  <1>5. QED  BY <1>3, <1>4, LocalInv DEF ReadLink

LEMMA ReadTokenInv ==
  ASSUME Inv, NEW w \in Requests, ReadToken(w)
  PROVE  Inv'
  <1> DEFINE t == request[w].tok
             c == IF Usable(t) /\ t \notin tokenExpired THEN "context"
                  ELSE IF t \in used THEN "replay" ELSE "answer"
             r == [request[w] EXCEPT !.sid = tokenSession[t], !.at = c]
  <1>1. tokenSession[t] \in Sessions
    BY RecordParts DEF ReadToken, At, RecordOK, Inv, TypeInv, TypeOK, TablesTypeOK, Issued
  <1>2. /\ c \in Calls /\ (c = "replay" => t \in used)
        /\ c \in {"context", "replay", "answer"}
    BY DEF Calls
  <1>3. request' = [request EXCEPT ![w] = r]
    BY RecordParts DEF ReadToken, RequestRecords, Inv, TypeInv, TypeOK
  <1> HIDE DEF c
  <1>4. Becomes(w, r)
    <2>1. r \in RequestRecords
      BY <1>1, <1>2, RecordParts DEF RequestRecords
    <2>2. QED  BY <1>2, <1>3, <2>1, RecordParts DEF Becomes, RequestRecords
  <1>5. RecordOK(r)
    BY <1>1, <1>2, RecordParts DEF RecordOK, RequestRecords, ReadToken, At
  <1>6. QED  BY <1>4, <1>5, LocalInv DEF ReadToken

LEMMA ReadContextInv ==
  ASSUME Inv, NEW w \in Requests, ReadContext(w)
  PROVE  Inv'
  <1>1. PICK c \in {"check_idle", "answer"} : Goto(w, c)
    BY DEF ReadContext
  <1>2. RecordOK([request[w] EXCEPT !.at = c])
    BY <1>1, RecordParts DEF RecordOK, RequestRecords, ReadContext, At
  <1>3. QED  BY <1>1, <1>2, GotoInv DEF ReadContext, Calls

LEMMA CheckIdleInv ==
  ASSUME Inv, NEW w \in Requests, CheckIdle(w)
  PROVE  Inv'
  <1>1. PICK c \in {"lookup", "rotate"} : Goto(w, c)
    BY DEF CheckIdle
  <1>2. RecordOK([request[w] EXCEPT !.at = c])
    BY <1>1, RecordParts DEF RecordOK, RequestRecords, CheckIdle, At
  <1>3. QED  BY <1>1, <1>2, GotoInv DEF CheckIdle, Calls

LEMMA RotateRejectedInv ==
  ASSUME Inv, NEW w \in Requests, RotateRejected(w)
  PROVE  Inv'
  <1>1. CASE request[w].tok \in used /\ Goto(w, "replay")
    <2>1. RecordOK([request[w] EXCEPT !.at = "replay"])
      BY RecordParts DEF RecordOK, RequestRecords, RotateRejected, At
    <2>2. QED  BY <1>1, <2>1, GotoInv DEF RotateRejected, Calls
  <1>2. CASE request' = [request EXCEPT ![w] = Free]
    BY <1>2, FreeInv DEF RotateRejected
  <1>3. QED  BY <1>1, <1>2 DEF RotateRejected

LEMMA LookupInv ==
  ASSUME Inv, NEW w \in Requests, Lookup(w)
  PROVE  Inv'
  <1>1. ASSUME NEW c \in {"revoke_tx", "bar_read", "answer"}, Goto(w, c)
        PROVE  Inv'
    <2>1. RecordOK([request[w] EXCEPT !.at = c])
      BY RecordParts DEF RecordOK, RequestRecords, Lookup, At
    <2>2. QED  BY <1>1, <2>1, GotoInv DEF Lookup, Calls
  <1>2. CASE request' = [request EXCEPT ![w] = Free]
    BY <1>2, FreeInv DEF Lookup
  <1>3. QED  BY <1>1, <1>2 DEF Lookup

\* Steps that give a bulk operation a set of sessions to visit.
LEMMA TodoInv ==
  ASSUME Inv, NEW w \in Requests, NEW S \in SUBSET Sessions,
         NEW c \in {"commit_all", "bar_next"},
         request' = [request EXCEPT ![w].todo = S, ![w].at = c],
         UNCHANGED <<tables, order, idle, redis, delivered, history>>
  PROVE  Inv'
  <1> DEFINE r == [request[w] EXCEPT !.todo = S, !.at = c]
  <1>1. r \in RequestRecords
    BY ZenonT(60), RecordParts DEF RequestRecords, Calls
  <1>2. RecordOK(r)
    BY RecordParts DEF RecordOK, RequestRecords
  <1>3. Becomes(w, r)
    BY <1>1, RecordParts DEF Becomes, RequestRecords, Inv, TypeInv, TypeOK
  <1>4. QED  BY <1>2, <1>3, LocalInv

LEMMA CloseAllInv ==
  ASSUME Inv, NEW w \in Requests, CloseAll(w)
  PROVE  Inv'
  <1>1. ActiveOf(request[w].usr) \in SUBSET Sessions
    BY DEF ActiveOf, SessionsOf
  <1>2. QED  BY <1>1, TodoInv DEF CloseAll

LEMMA ListForBlacklistInv ==
  ASSUME Inv, NEW w \in Requests, ListForBlacklist(w)
  PROVE  Inv'
  <1>1. ActiveOf(request[w].usr) \in SUBSET Sessions
    BY DEF ActiveOf, SessionsOf
  <1>2. QED  BY <1>1, TodoInv DEF ListForBlacklist

LEMMA NextForBlacklistInv ==
  ASSUME Inv, NEW w \in Requests, NextForBlacklist(w)
  PROVE  Inv'
  <1>1. ASSUME NEW s \in Oldest(1, request[w].todo),
               request' = [request EXCEPT ![w].todo = @ \ {s}, ![w].sid = s,
                                          ![w].at = "bar_read"]
        PROVE  Inv'
    <2> DEFINE S == request[w].todo \ {s}
               r == [request[w] EXCEPT !.todo = S, !.sid = s, !.at = "bar_read"]
    <2>1. s \in Sessions /\ S \in SUBSET Sessions
      BY RecordParts DEF Oldest
    <2>2. request' = [request EXCEPT ![w] = r]
      BY <1>1, RecordParts DEF RequestRecords, Inv, TypeInv, TypeOK
    <2> HIDE DEF S
    <2>3. r \in RequestRecords
      BY ZenonT(60), <2>1, RecordParts DEF RequestRecords, Calls
    <2>4. RecordOK(r)
      BY <2>1, RecordParts DEF RecordOK, RequestRecords
    <2>5. Becomes(w, r)
      BY <2>2, <2>3, RecordParts DEF Becomes, RequestRecords
    <2>6. QED  BY <2>4, <2>5, LocalInv DEF NextForBlacklist
  <1>2. CASE request' = [request EXCEPT ![w].op = "login", ![w].at = "count"]
    <2> DEFINE r == [request[w] EXCEPT !.op = "login", !.at = "count"]
    <2>1. r \in RequestRecords
      <3>1. "login" \in OperationNames /\ "count" \in Calls
        BY DEF OperationNames, Calls
      <3>2. QED  BY <3>1, RecordParts DEF RequestRecords
    <2>2. RecordOK(r)
      BY RecordParts DEF RecordOK, RequestRecords
    <2>3. Becomes(w, r)
      BY <1>2, <2>1, RecordParts DEF Becomes, RequestRecords, Inv, TypeInv, TypeOK
    <2>4. QED  BY <2>2, <2>3, LocalInv DEF NextForBlacklist
  <1>3. CASE Goto(w, "answer")
    <2>1. RecordOK([request[w] EXCEPT !.at = "answer"])
      BY RecordParts DEF RecordOK, RequestRecords
    <2>2. QED  BY <1>3, <2>1, GotoInv DEF NextForBlacklist, Calls
  <1>4. QED  BY <1>1, <1>2, <1>3 DEF NextForBlacklist

LEMMA BeginPasswordChangeInv ==
  ASSUME Inv, NEW w \in Requests, NEW t \in Tokens, BeginPasswordChange(w, t)
  PROVE  Inv'
  <1> DEFINE u == Owner[tokenSession[t]]
             r == [Free EXCEPT !.op = "password_change", !.at = "set_password", !.tok = t,
                               !.usr = u]
  <1>1. u \in Users
    BY OwnerAssumption DEF BeginPasswordChange, Inv, TypeInv, TypeOK, TablesTypeOK, Issued
  <1>2. request' = [request EXCEPT ![w] = r]
    BY DEF BeginPasswordChange, Begin
  <1> HIDE DEF u
  <1>3. r \in RequestRecords
    BY <1>1, FreeType DEF RequestRecords, OperationNames, Calls
  <1>4. RecordOK(r)
    BY FreeType DEF RecordOK, RequestRecords, Free
  <1>5. Becomes(w, r)
    BY <1>2, <1>3, FreeType DEF Becomes, RequestRecords
  <1>6. QED  BY <1>4, <1>5, LocalInv DEF BeginPasswordChange

-----------------------------------------------------------------------------
(***************************************************************************)
(* Steps that also write Redis or the tables.                              *)
(***************************************************************************)
LEMMA StepInv ==
  ASSUME Inv, NEW w \in Requests, NEW r, Becomes(w, r), RecordOK(r)',
         TablesTypeOK', Issued \subseteq Issued', used' = used,
         order' \in Seq(Sessions), idle' \subseteq Sessions,
         link' \in [Sessions -> Tokens \cup {NoToken}],
         barred' \subseteq {"draft", "bearer"} \X Tokens,
         delivered \subseteq delivered', delivered' \subseteq Issued',
         linked' \subseteq Issued', relics' \subseteq Sessions,
         UNCHANGED <<presented, repeated>>
  PROVE  Inv'
  <1>1. /\ request' \in [Requests -> RequestRecords]
        /\ \A q \in Requests : RecordOK(request[q])'
        /\ ReuseInv'
    BY RecordsKept
  <1>2. TypeOK'
    BY <1>1 DEF Inv, TypeInv, TypeOK
  <1>3. QED  BY <1>1, <1>2 DEF Inv, TypeInv

LEMMA RevokeRowsType ==
  ASSUME TablesTypeOK, NEW C \in SUBSET Sessions, NEW F \in SUBSET Sessions,
         NEW R \in SUBSET Tokens, RevokeRows(C, F, R)
  PROVE  TablesTypeOK' /\ Issued' = Issued /\ used' = used
  BY DEF RevokeRows, TablesTypeOK, Issued, expiry

LEMMA EndSessionType ==
  ASSUME TablesTypeOK, NEW s, EndSession(s)
  PROVE  TablesTypeOK' /\ Issued' = Issued /\ used' = used
  <1> DEFINE C == {s} \cap {q \in Sessions : session[q] = "active"}
             F == {s} \cap {q \in Sessions : family[q] = "valid"}
             R == TokensIn({s})
  <1>1. C \in SUBSET Sessions /\ F \in SUBSET Sessions /\ R \in SUBSET Tokens
    BY DEF TokensIn
  <1>2. RevokeRows(C, F, R)
    BY DEF EndSession
  <1>3. QED  BY <1>1, <1>2, RevokeRowsType

\* EndSession followed by blacklist_session.
LEMMA EndInv ==
  ASSUME Inv, NEW w \in Requests, EndSession(request[w].sid), Goto(w, "bar_read"),
         request[w].sid \in Sessions,
         UNCHANGED <<order, idle, redis, delivered, history>>
  PROVE  Inv'
  <1> PICK r : r = [request[w] EXCEPT !.at = "bar_read"]
    OBVIOUS
  <1>1. TablesTypeOK' /\ Issued' = Issued /\ used' = used
    BY EndSessionType DEF Inv, TypeInv, TypeOK
  <1>2. r \in RequestRecords
    BY RecordParts DEF RequestRecords, Calls
  <1>3. Becomes(w, r)
    BY <1>2, RecordParts DEF Goto, Becomes, RequestRecords, Inv, TypeInv, TypeOK
  <1>4. RecordOK(r)
    BY RecordParts DEF RecordOK, RequestRecords
  <1>5. RecordOK(r)'
    BY <1>1, <1>4 DEF RecordOK, history
  <1>6. QED
    <2> USE DEF Inv, TypeInv, TypeOK, redis, history
    <2> HIDE DEF Inv
    <2>1. /\ order' \in Seq(Sessions) /\ idle' \subseteq Sessions
          /\ link' \in [Sessions -> Tokens \cup {NoToken}]
          /\ barred' \subseteq {"draft", "bearer"} \X Tokens
          /\ delivered' = delivered /\ delivered' \subseteq Issued'
          /\ linked' \subseteq Issued' /\ relics' \subseteq Sessions
          /\ presented' = presented /\ repeated' = repeated
      BY <1>1 DEF Inv
    <2>2. QED  BY <1>1, <1>3, <1>5, <2>1, StepInv

LEMMA ReplayStepInv ==
  ASSUME Inv, NEW w \in Requests, Replay(w)
  PROVE  Inv'
  BY EndInv, RecordParts DEF Replay, At, RecordOK

LEMMA RevokeInv ==
  ASSUME Inv, NEW w \in Requests, Revoke(w)
  PROVE  Inv'
  BY EndInv, RecordParts DEF Revoke, At, RecordOK

LEMMA CommitAllInv ==
  ASSUME Inv, NEW w \in Requests, CommitAll(w)
  PROVE  Inv'
  <1> DEFINE mine == SessionsOf(request[w].usr)
             F == {s \in mine : family[s] = "valid"}
  <1> PICK r : r = [request[w] EXCEPT !.todo = {}, !.at = "bar_list"]
    OBVIOUS
  <1>1. /\ request[w].todo \in SUBSET Sessions /\ F \in SUBSET Sessions
        /\ TokensIn(mine) \in SUBSET Tokens
    BY RecordParts DEF SessionsOf, TokensIn
  <1>2. RevokeRows(request[w].todo, F, TokensIn(mine))
    BY DEF CommitAll
  <1>3. TablesTypeOK' /\ Issued' = Issued /\ used' = used
    BY <1>1, <1>2, RevokeRowsType DEF Inv, TypeInv, TypeOK
  <1>4. r \in RequestRecords
    <2>1. "bar_list" \in Calls
      BY DEF Calls
    <2>2. QED  BY <2>1, RecordParts DEF RequestRecords
  <1>5. Becomes(w, r)
    BY <1>4, RecordParts DEF CommitAll, Becomes, RequestRecords, Inv, TypeInv, TypeOK
  <1>6. RecordOK(r)
    BY RecordParts DEF RecordOK, RequestRecords
  <1>7. RecordOK(r)'
    BY <1>3, <1>6 DEF CommitAll, RecordOK, history
  <1>8. /\ order' \in Seq(Sessions) /\ idle' \subseteq Sessions
        /\ link' \in [Sessions -> Tokens \cup {NoToken}]
        /\ barred' \subseteq {"draft", "bearer"} \X Tokens
        /\ delivered' = delivered /\ delivered' \subseteq Issued'
        /\ linked' \subseteq Issued' /\ relics' \subseteq Sessions
        /\ presented' = presented /\ repeated' = repeated
    BY <1>3 DEF CommitAll, Inv, TypeInv, TypeOK, redis, history
  <1>9. QED  BY <1>3, <1>5, <1>7, <1>8, StepInv

LEMMA CreateRowsType ==
  ASSUME TablesTypeOK, NEW s \in Sessions, NEW t \in Tokens, CreateRows(s, t)
  PROVE  TablesTypeOK' /\ Issued' = Issued \cup {t} /\ used' = used
  BY NullAssumption DEF CreateRows, TablesTypeOK, Issued, expiry

LEMMA CreateSessionInv ==
  ASSUME Inv, NEW w \in Requests, NEW s \in Sessions, NEW t \in Tokens,
         CreateSession(w, s, t)
  PROVE  Inv'
  <1> PICK r : r = [request[w] EXCEPT !.sid = s, !.new = t, !.at = "link_read"]
    OBVIOUS
  <1>1. TablesTypeOK' /\ Issued' = Issued \cup {t} /\ used' = used
    BY CreateRowsType DEF CreateSession, Inv, TypeInv, TypeOK
  <1>2. r \in RequestRecords
    <2>1. "link_read" \in Calls
      BY DEF Calls
    <2>2. QED  BY ZenonT(60), <2>1, RecordParts DEF RequestRecords
  <1>3. request[w].op = "login"
    BY RecordParts DEF CreateSession, At, RecordOK
  <1>4. r.op = "login" /\ r.at = "link_read" /\ r.sid = s /\ r.new = t
    BY <1>3, RecordParts DEF RequestRecords
  <1>5. Becomes(w, r)
    <2>1. request' = [request EXCEPT ![w] = r]
      BY RecordParts DEF CreateSession, RequestRecords, Inv, TypeInv, TypeOK
    <2>2. QED  BY <1>2, <1>4, <2>1 DEF Becomes
  <1>6. RecordOK(r)'
    BY <1>1, <1>4 DEF RecordOK
  <1>7. /\ order' \in Seq(Sessions) /\ idle' \subseteq Sessions
        /\ link' \in [Sessions -> Tokens \cup {NoToken}]
        /\ barred' \subseteq {"draft", "bearer"} \X Tokens
        /\ delivered' = delivered /\ delivered' \subseteq Issued'
        /\ linked' \subseteq Issued' /\ relics' \subseteq Sessions
        /\ presented' = presented /\ repeated' = repeated
    BY <1>1 DEF CreateSession, Inv, TypeInv, TypeOK, redis
  <1>8. QED  BY <1>1, <1>5, <1>6, <1>7, StepInv

\* Writes to Redis, whether they reach it or not.
LEMMA BarredType ==
  ASSUME Inv, NEW x \in {"draft", "bearer"} \X Tokens,
         barred' \in Written(barred, barred \cup {x})
  PROVE  barred' \subseteq {"draft", "bearer"} \X Tokens
  BY DEF Written, Inv, TypeInv, TypeOK

LEMMA LinkAccessInv ==
  ASSUME Inv, NEW w \in Requests, LinkAccess(w)
  PROVE  Inv'
  <1> PICK r : r = [request[w] EXCEPT !.at = "answer"]
    OBVIOUS
  <1>1. TablesTypeOK' /\ Issued' = Issued /\ used' = used
    BY DEF LinkAccess, tables, Issued, TablesTypeOK, Inv, TypeInv, TypeOK
  <1>2. r \in RequestRecords
    BY RecordParts DEF RequestRecords, Calls
  <1>3. Becomes(w, r)
    BY <1>2, RecordParts DEF LinkAccess, Goto, Becomes, RequestRecords, Inv, TypeInv, TypeOK
  <1>4. RecordOK(r)
    BY RecordParts DEF RecordOK, RequestRecords
  <1>5. RecordOK(r)'
    BY <1>1, <1>4 DEF LinkAccess, RecordOK
  <1>6. /\ request[w].sid \in Sessions /\ request[w].new \in Issued
        /\ request[w].read \in Tokens \cup {NoToken}
    BY RecordParts DEF LinkAccess, At, RecordOK, RequestRecords
  <1>7. barred' \subseteq {"draft", "bearer"} \X Tokens
    <2>1. {Draft(t) : t \in {request[w].read} \ {NoToken, request[w].new}}
            \subseteq {"draft", "bearer"} \X Tokens
      BY <1>6 DEF Draft
    <2>2. barred \subseteq {"draft", "bearer"} \X Tokens
      BY DEF Inv, TypeInv, TypeOK
    <2>3. barred' \in {barred, barred \cup {Draft(t) :
                         t \in {request[w].read} \ {NoToken, request[w].new}}}
      BY DEF LinkAccess, Written
    <2>4. QED  BY <2>1, <2>2, <2>3
  <1>8. link' \in [Sessions -> Tokens \cup {NoToken}]
    <2>1. link \in [Sessions -> Tokens \cup {NoToken}] /\ request[w].new \in Tokens
      BY <1>6 DEF Inv, TypeInv, TypeOK, Issued
    <2>2. link' \in {link, [link EXCEPT ![request[w].sid] = request[w].new]}
      BY DEF LinkAccess, Written
    <2>3. QED  BY <2>1, <2>2
  <1>9. linked' \subseteq Issued'
    BY <1>1, <1>6 DEF LinkAccess, Inv, TypeInv, TypeOK
  <1>10. /\ order' \in Seq(Sessions) /\ idle' \subseteq Sessions
         /\ delivered' = delivered /\ delivered' \subseteq Issued'
         /\ relics' \subseteq Sessions
         /\ presented' = presented /\ repeated' = repeated
    BY <1>1 DEF LinkAccess, Inv, TypeInv, TypeOK
  <1>11. QED  BY <1>1, <1>3, <1>5, <1>7, <1>8, <1>9, <1>10, StepInv

LEMMA BlacklistSessionInv ==
  ASSUME Inv, NEW w \in Requests, BlacklistSession(w)
  PROVE  Inv'
  <1> PICK c : c = CASE request[w].op = "login" -> "evict"
                     [] request[w].op \in {"logout_all", "password_change"} -> "bar_next"
                     [] OTHER -> "answer"
    OBVIOUS
  <1> PICK r : r = [request[w] EXCEPT !.read = NoToken, !.at = c]
    OBVIOUS
  <1>1. TablesTypeOK' /\ Issued' = Issued /\ used' = used
    BY DEF BlacklistSession, tables, Issued, TablesTypeOK, Inv, TypeInv, TypeOK
  <1>2. /\ c \in {"evict", "bar_next", "answer"} /\ c \in Calls
        /\ c = "evict" => request[w].op = "login"
    BY DEF Calls
  <1>3. r \in RequestRecords
    BY ZenonT(60), <1>2, RecordParts DEF RequestRecords
  <1>4. Becomes(w, r)
    <2>1. request' = [request EXCEPT ![w].read = NoToken, ![w].at = c]
      BY DEF BlacklistSession
    <2>2. QED  BY <1>2, <1>3, <2>1, RecordParts DEF Becomes, RequestRecords, Inv, TypeInv, TypeOK
  <1>5. RecordOK(r)
    BY <1>2, RecordParts DEF RecordOK, RequestRecords
  <1>6. RecordOK(r)'
    BY <1>1, <1>5 DEF BlacklistSession, RecordOK, history
  <1>7. request[w].sid \in Sessions /\ request[w].read \in Tokens \cup {NoToken}
    BY RecordParts DEF BlacklistSession, At, RecordOK, RequestRecords
  <1>8. /\ barred' \subseteq {"draft", "bearer"} \X Tokens
        /\ link' \in [Sessions -> Tokens \cup {NoToken}]
    <2>1. /\ barred \subseteq {"draft", "bearer"} \X Tokens
          /\ link \in [Sessions -> Tokens \cup {NoToken}]
      BY DEF Inv, TypeInv, TypeOK
    <2>2. CASE UNCHANGED redis
      BY <2>1, <2>2 DEF redis
    <2>3. CASE /\ request[w].read # NoToken
               /\ barred' \in Written(barred, barred \cup {Draft(request[w].read)})
               /\ link' \in Written(link, [link EXCEPT ![request[w].sid] = NoToken])
      <3>1. Draft(request[w].read) \in {"draft", "bearer"} \X Tokens
        BY <1>7, <2>3 DEF Draft
      <3>2. barred' \subseteq {"draft", "bearer"} \X Tokens
        BY <2>3, <3>1, BarredType
      <3>3. link' \in {link, [link EXCEPT ![request[w].sid] = NoToken]}
        BY <2>3 DEF Written
      <3>4. QED  BY <1>7, <2>1, <3>2, <3>3
    <2>4. QED  BY <2>2, <2>3 DEF BlacklistSession
  <1>9. /\ order' \in Seq(Sessions) /\ idle' \subseteq Sessions
        /\ delivered' = delivered /\ delivered' \subseteq Issued'
        /\ linked' \subseteq Issued' /\ relics' \subseteq Sessions
        /\ presented' = presented /\ repeated' = repeated
    BY <1>1 DEF BlacklistSession, Inv, TypeInv, TypeOK, history
  <1>10. QED  BY <1>1, <1>4, <1>6, <1>8, <1>9, StepInv

LEMMA AnswerInv ==
  ASSUME Inv, NEW w \in Requests, Answer(w)
  PROVE  Inv'
  <1>1. TablesTypeOK' /\ Issued' = Issued /\ used' = used
    BY DEF Answer, tables, Issued, TablesTypeOK, Inv, TypeInv, TypeOK
  <1>2. Becomes(w, Free)
    BY FreeType DEF Answer, Becomes, Free
  <1>3. RecordOK(Free)'
    BY DEF RecordOK, Free
  <1>4. request[w].new \in Issued \cup {NoToken}
    BY RecordParts DEF RecordOK
  <1>5. delivered' \subseteq Issued'
    BY <1>1, <1>4, NullAssumption DEF Answer, Inv, TypeInv, TypeOK, Issued
  <1>6. barred' \subseteq {"draft", "bearer"} \X Tokens
    <2>1. CASE UNCHANGED barred
      BY <2>1 DEF Inv, TypeInv, TypeOK
    <2>2. CASE /\ request[w].op = "logout"
               /\ barred' \in Written(barred, barred \cup {Bearer(request[w].tok)})
      <3>1. Bearer(request[w].tok) \in {"draft", "bearer"} \X Tokens
        BY <2>2, RecordParts DEF RecordOK, Bearer
      <3>2. QED  BY <2>2, <3>1, BarredType
    <2>3. QED  BY <2>1, <2>2 DEF Answer
  <1>7. /\ order' \in Seq(Sessions) /\ idle' \subseteq Sessions
        /\ link' \in [Sessions -> Tokens \cup {NoToken}]
        /\ delivered \subseteq delivered'
        /\ linked' \subseteq Issued' /\ relics' \subseteq Sessions
        /\ presented' = presented /\ repeated' = repeated
    BY <1>1 DEF Answer, Inv, TypeInv, TypeOK, history
  <1>8. QED  BY <1>1, <1>2, <1>3, <1>5, <1>6, <1>7, StepInv

LEMMA BeginLogoutAllInv ==
  ASSUME Inv, NEW w \in Requests, NEW t \in Tokens, BeginLogoutAll(w, t)
  PROVE  Inv'
  <1> PICK u : u = Owner[tokenSession[t]]
    OBVIOUS
  <1> PICK r : r = [Free EXCEPT !.op = "logout_all", !.at = "close_all", !.tok = t, !.usr = u]
    OBVIOUS
  <1>1. TablesTypeOK' /\ Issued' = Issued /\ used' = used
    BY DEF BeginLogoutAll, tables, Issued, TablesTypeOK, Inv, TypeInv, TypeOK
  <1>2. u \in Users
    BY OwnerAssumption DEF BeginLogoutAll, Inv, TypeInv, TypeOK, TablesTypeOK, Issued
  <1>3. r \in RequestRecords
    BY ZenonT(60), <1>2, FreeType DEF RequestRecords, OperationNames, Calls
  <1>4. r.op = "logout_all" /\ r.at = "close_all" /\ r.tok = t /\ r.new = NoToken
    BY DEF Free
  <1>5. Becomes(w, r)
    <2>1. request' = [request EXCEPT ![w] = r]
      BY DEF BeginLogoutAll, Begin
    <2>2. QED  BY <1>3, <1>4, <2>1 DEF Becomes
  <1>6. RecordOK(r)'
    BY <1>4 DEF RecordOK
  <1>7. barred' \subseteq {"draft", "bearer"} \X Tokens
    <2>1. Bearer(t) \in {"draft", "bearer"} \X Tokens
      BY DEF Bearer
    <2>2. QED  BY <2>1, BarredType DEF BeginLogoutAll
  <1>8. /\ order' \in Seq(Sessions) /\ idle' \subseteq Sessions
        /\ link' \in [Sessions -> Tokens \cup {NoToken}]
        /\ delivered' = delivered /\ delivered' \subseteq Issued'
        /\ linked' \subseteq Issued' /\ relics' \subseteq Sessions
        /\ presented' = presented /\ repeated' = repeated
    BY <1>1 DEF BeginLogoutAll, Inv, TypeInv, TypeOK, history
  <1>9. QED  BY <1>1, <1>5, <1>6, <1>7, <1>8, StepInv

LEMMA SetPasswordInv ==
  ASSUME Inv, NEW w \in Requests, SetPassword(w)
  PROVE  Inv'
  <1> USE DEF Inv, TypeInv, TypeOK
  <1>1. TablesTypeOK' /\ Issued' = Issued /\ used' = used
    BY DEF SetPassword, tables, Issued, TablesTypeOK
  <1>2. \A q \in Requests :
          \E b \in BOOLEAN, c \in Calls :
            /\ request'[q] = [request[q] EXCEPT !.at = c, !.stale = b]
            /\ c = request[q].at \/ c = "close_all"
    <2> SUFFICES ASSUME NEW q \in Requests
                 PROVE  \E b \in BOOLEAN, c \in Calls :
                          /\ request'[q] = [request[q] EXCEPT !.at = c, !.stale = b]
                          /\ c = request[q].at \/ c = "close_all"
      OBVIOUS
    <2>0. "close_all" \in Calls /\ request[q] \in RequestRecords
      BY DEF Calls
    <2>1. CASE q = w
      <3>1. request'[q] = [request[q] EXCEPT !.at = "close_all", !.stale = FALSE]
        BY <2>1 DEF SetPassword
      <3>2. QED  BY <2>0, <3>1
    <2>2. CASE q # w
      <3> DEFINE b == \/ request[q].stale
                      \/ /\ request[q].usr = request[w].usr
                         /\ request[q].op \in {"login", "password_change"}
      <3>1. request'[q] = [request[q] EXCEPT !.stale = b]
        BY <2>2 DEF SetPassword
      <3>2. b \in BOOLEAN
        BY <2>0 DEF RequestRecords
      <3> HIDE DEF b
      <3>3. request'[q] = [request[q] EXCEPT !.at = request[q].at, !.stale = b]
            /\ request[q].at \in Calls
        BY <2>0, <3>1 DEF RequestRecords
      <3>4. QED  BY <3>2, <3>3
    <2>3. QED  BY <2>1, <2>2
  <1>3. \A q \in Requests :
          /\ request'[q] \in RequestRecords
          /\ request'[q].op = request[q].op /\ request'[q].tok = request[q].tok
          /\ request'[q].new = request[q].new /\ request'[q].sid = request[q].sid
          /\ request'[q].at = request[q].at \/ request'[q].at = "close_all"
    <2> SUFFICES ASSUME NEW q \in Requests
                 PROVE  /\ request'[q] \in RequestRecords
                        /\ request'[q].op = request[q].op /\ request'[q].tok = request[q].tok
                        /\ request'[q].new = request[q].new /\ request'[q].sid = request[q].sid
                        /\ request'[q].at = request[q].at \/ request'[q].at = "close_all"
      OBVIOUS
    <2> PICK b \in BOOLEAN, c \in Calls :
            /\ request'[q] = [request[q] EXCEPT !.at = c, !.stale = b]
            /\ c = request[q].at \/ c = "close_all"
      BY <1>2
    <2> PICK r : r = request[q]
      OBVIOUS
    <2>1. r \in RequestRecords
      OBVIOUS
    <2>2. [r EXCEPT !.at = c, !.stale = b] \in RequestRecords
      BY ZenonT(60), <2>1 DEF RequestRecords
    <2>3. QED  BY <2>1, <2>2 DEF RequestRecords
  <1>4. request' \in [Requests -> RequestRecords]
    <2>1. request' = [q \in Requests |-> request'[q]]
      BY DEF SetPassword
    <2>2. QED  BY <1>3, <2>1
  <1> HIDE DEF Inv, TypeInv, TypeOK
  <1>5. presented' = presented /\ repeated' = repeated
    BY DEF SetPassword
  <1>6. \A q \in Requests : RecordOK(request[q])'
    <2> SUFFICES ASSUME NEW q \in Requests PROVE RecordOK(request[q])'
      OBVIOUS
    <2>1. RecordOK(request[q])
      BY RecordParts
    <2>2. CASE request'[q].at = request[q].at
      BY <1>1, <1>3, <1>5, <2>1, <2>2 DEF RecordOK
    <2>3. CASE request'[q].at = "close_all"
      BY <1>1, <1>3, <1>5, <2>1, <2>3 DEF RecordOK
    <2>4. QED  BY <1>3, <2>2, <2>3
  <1>7. ReuseInv'
    <2>1. ReuseInv
      BY DEF Inv
    <2>2. \A q \in Requests : At(q, "replay")' => At(q, "replay")
      BY <1>3 DEF At
    <2>3. QED  BY <1>1, <1>3, <1>5, <2>1, <2>2 DEF ReuseInv
  <1> USE DEF Inv, TypeInv, TypeOK
  <1>8. barred' \subseteq {"draft", "bearer"} \X Tokens
    <2>1. Bearer(request[w].tok) \in {"draft", "bearer"} \X Tokens
      BY DEF SetPassword, At, RecordOK, Bearer
    <2>2. QED  BY <2>1, BarredType DEF SetPassword
  <1>9. QED  BY <1>1, <1>4, <1>6, <1>7, <1>8 DEF SetPassword, SessionsOf

-----------------------------------------------------------------------------
(***************************************************************************)
(* A token is presented, and a token is consumed.                          *)
(***************************************************************************)
LEMMA BeginRefreshInv ==
  ASSUME Inv, NEW w \in Requests, NEW t \in Tokens, BeginRefresh(w, t)
  PROVE  Inv'
  <1> USE DEF Inv, TypeInv, TypeOK
  <1> PICK r : r = [Free EXCEPT !.op = "refresh", !.at = "validate", !.tok = t]
    OBVIOUS
  <1>1. TablesTypeOK' /\ Issued' = Issued /\ used' = used
    BY DEF BeginRefresh, tables, Issued, TablesTypeOK
  <1>2. /\ r \in RequestRecords
        /\ r.op = "refresh" /\ r.at = "validate" /\ r.tok = t /\ r.new = NoToken
    BY FreeType DEF RequestRecords, OperationNames, Calls, Free
  <1>3. request' = [request EXCEPT ![w] = r]
    BY DEF BeginRefresh, Begin
  <1>4. /\ request'[w] = r
        /\ \A q \in Requests : q # w => request'[q] = request[q]
        /\ request' \in [Requests -> RequestRecords]
    BY <1>2, <1>3
  <1>5. /\ presented' = presented \cup {t}
        /\ repeated' = repeated \cup ({t} \cap presented)
        /\ t \in delivered
    BY DEF BeginRefresh
  <1>6. \A q \in Requests : RecordOK(request[q])'
    <2> SUFFICES ASSUME NEW q \in Requests PROVE RecordOK(request[q])'
      OBVIOUS
    <2>1. CASE q = w
      BY <1>2, <1>4, <1>5, <2>1 DEF RecordOK
    <2>2. CASE q # w
      BY <1>1, <1>4, <1>5, <2>2 DEF RecordOK
    <2>3. QED  BY <2>1, <2>2
  <1>7. ReuseInv'
    <2>1. used' \subseteq presented'
      BY <1>1, <1>5 DEF ReuseInv
    <2>2. ASSUME NEW q \in Requests
          PROVE  /\ At(q, "replay")' => request'[q].tok \in used'
                 /\ request'[q].op = "refresh" /\ request'[q].tok \in used' =>
                      request'[q].tok \in repeated' \/ request'[q].new # NoToken
      <3>1. CASE q = w
        BY <1>1, <1>2, <1>4, <1>5, <3>1 DEF ReuseInv, At
      <3>2. CASE q # w
        BY <1>1, <1>4, <1>5, <3>2 DEF ReuseInv, At
      <3>3. QED  BY <3>1, <3>2
    <2>3. ASSUME NEW p \in Requests, NEW q \in Requests,
                 p # q, request'[p].tok = request'[q].tok,
                 request'[p].op = "refresh", request'[q].op = "refresh"
          PROVE  request'[p].tok \in repeated'
      <3>1. CASE p = w
        <4>1. request[q].op = "refresh" /\ request[q].tok = t
          BY <1>2, <1>4, <2>3, <3>1
        <4>2. t \in presented
          BY <4>1, RecordParts DEF RecordOK
        <4>3. QED  BY <1>2, <1>4, <1>5, <3>1, <4>2
      <3>2. CASE q = w
        <4>1. request[p].op = "refresh" /\ request[p].tok = t
          BY <1>2, <1>4, <2>3, <3>2
        <4>2. t \in presented
          BY <4>1, RecordParts DEF RecordOK
        <4>3. QED  BY <1>2, <1>4, <1>5, <2>3, <3>2, <4>2
      <3>3. CASE p # w /\ q # w
        BY <1>4, <1>5, <2>3, <3>3 DEF ReuseInv
      <3>4. QED  BY <3>1, <3>2, <3>3
    <2>4. QED  BY <2>1, <2>2, <2>3 DEF ReuseInv
  <1>8. TypeOK'
    BY <1>1, <1>4, <1>5 DEF BeginRefresh, redis
  <1>9. QED  BY <1>6, <1>7, <1>8

LEMMA RotateRowsType ==
  ASSUME TablesTypeOK, NEW t \in Tokens, NEW n \in Tokens, t \in Issued, RotateRows(t, n)
  PROVE  TablesTypeOK' /\ Issued' = Issued \cup {n} /\ used' = used \cup {t}
  BY NullAssumption DEF RotateRows, TablesTypeOK, Issued, expiry

LEMMA RotateInv ==
  ASSUME Inv, NEW w \in Requests, NEW n \in Tokens, Rotate(w, n)
  PROVE  Inv'
  <1> USE DEF Inv, TypeInv, TypeOK
  <1> PICK t : t = request[w].tok
    OBVIOUS
  <1> PICK r : r = [request[w] EXCEPT !.new = n, !.at = "link_read"]
    OBVIOUS
  <1>1. /\ request[w].op = "refresh" /\ t \in presented /\ t \in Tokens /\ t \in Issued
        /\ request[w].sid \in Sessions
    BY RecordParts DEF Rotate, At, RecordOK, Issued
  <1>2. TablesTypeOK' /\ Issued' = Issued \cup {n} /\ used' = used \cup {t}
    BY <1>1, RotateRowsType DEF Rotate
  <1>3. r \in RequestRecords
    <2>1. "link_read" \in Calls
      BY DEF Calls
    <2>2. QED  BY ZenonT(60), <2>1, RecordParts DEF RequestRecords
  <1>4. /\ r.op = "refresh" /\ r.at = "link_read" /\ r.tok = t /\ r.new = n
        /\ r.sid = request[w].sid
    BY <1>1, RecordParts DEF RequestRecords
  <1>5. /\ request'[w] = r
        /\ \A q \in Requests : q # w => request'[q] = request[q]
        /\ request' \in [Requests -> RequestRecords]
    BY <1>3, RecordParts DEF Rotate, RequestRecords
  <1>6. presented' = presented /\ repeated' = repeated
    BY DEF Rotate, history
  <1>7. \A q \in Requests : RecordOK(request[q])'
    <2> SUFFICES ASSUME NEW q \in Requests PROVE RecordOK(request[q])'
      OBVIOUS
    <2>1. CASE q = w
      BY <1>1, <1>2, <1>4, <1>5, <1>6, <2>1 DEF RecordOK
    <2>2. CASE q # w
      BY <1>2, <1>5, <1>6, <2>2 DEF RecordOK
    <2>3. QED  BY <2>1, <2>2
  <1>8. ReuseInv'
    <2>1. used' \subseteq presented'
      BY <1>1, <1>2, <1>6 DEF ReuseInv
    <2>2. ASSUME NEW q \in Requests
          PROVE  /\ At(q, "replay")' => request'[q].tok \in used'
                 /\ request'[q].op = "refresh" /\ request'[q].tok \in used' =>
                      request'[q].tok \in repeated' \/ request'[q].new # NoToken
      <3>1. CASE q = w
        <4>1. request'[q].at = "link_read" /\ request'[q].new = n /\ n # NoToken
          BY <1>4, <1>5, <3>1, NullAssumption
        <4>2. ~At(q, "replay")'
          BY <4>1 DEF At
        <4>3. QED  BY <4>1, <4>2
      <3>2. CASE q # w
        <4>1. At(q, "replay")' => request'[q].tok \in used'
          BY <1>2, <1>5, <3>2 DEF ReuseInv, At
        <4>2. ASSUME request'[q].op = "refresh", request'[q].tok \in used'
              PROVE  request'[q].tok \in repeated' \/ request'[q].new # NoToken
          <5>1. CASE request[q].tok = t
            BY <1>1, <1>5, <1>6, <3>2, <4>2, <5>1 DEF ReuseInv
          <5>2. CASE request[q].tok # t
            BY <1>2, <1>5, <1>6, <3>2, <4>2, <5>2 DEF ReuseInv
          <5>3. QED  BY <5>1, <5>2
        <4>3. QED  BY <4>1, <4>2
      <3>3. QED  BY <3>1, <3>2
    <2>3. ASSUME NEW p \in Requests, NEW q \in Requests,
                 p # q, request'[p].tok = request'[q].tok,
                 request'[p].op = "refresh", request'[q].op = "refresh"
          PROVE  request'[p].tok \in repeated'
      <3>1. \A x \in Requests : request'[x].op = request[x].op
                                /\ request'[x].tok = request[x].tok
        BY <1>1, <1>4, <1>5
      <3>2. QED  BY <1>6, <2>3, <3>1 DEF ReuseInv
    <2>4. QED  BY <2>1, <2>2, <2>3 DEF ReuseInv
  <1>9. TypeOK'
    BY <1>1, <1>2, <1>5 DEF Rotate, redis, history
  <1>10. QED  BY <1>7, <1>8, <1>9

-----------------------------------------------------------------------------
(***************************************************************************)
(* The environment.                                                        *)
(***************************************************************************)
\* The clock, which no request sees as anything but expired rows.
LEMMA ClockInv ==
  ASSUME Inv, TablesTypeOK', idle' \subseteq Sessions, Issued' = Issued, used' = used,
         UNCHANGED <<order, redis, request, delivered, history>>
  PROVE  Inv'
  <1>1. TypeOK'
    BY DEF Inv, TypeInv, TypeOK, redis, history
  <1>2. \A w \in Requests : RecordOK(request[w])'
    BY DEF Inv, TypeInv, RecordOK, history
  <1>3. ReuseInv'
    BY DEF Inv, ReuseInv, At, history
  <1>4. QED  BY <1>1, <1>2, <1>3 DEF Inv, TypeInv

LEMMA ExpireInv ==
  ASSUME Inv, Expire
  PROVE  Inv'
  <1>1. TablesTypeOK' /\ Issued' = Issued /\ used' = used
    <2>1. ASSUME NEW s \in Sessions, ExpireSession(s)
          PROVE  TablesTypeOK' /\ Issued' = Issued /\ used' = used
      BY <2>1 DEF ExpireSession, TablesTypeOK, Issued, Inv, TypeInv, TypeOK
    <2>2. ASSUME NEW t \in Tokens, ExpireToken(t)
          PROVE  TablesTypeOK' /\ Issued' = Issued /\ used' = used
      BY <2>2 DEF ExpireToken, TablesTypeOK, Issued, Inv, TypeInv, TypeOK
    <2>3. QED  BY <2>1, <2>2 DEF Expire
  <1>2. QED  BY <1>1, ClockInv DEF Expire, Inv, TypeInv, TypeOK

LEMMA GoIdleInv ==
  ASSUME Inv, NEW s \in Sessions, GoIdle(s)
  PROVE  Inv'
  <1>1. TablesTypeOK' /\ Issued' = Issued /\ used' = used
    BY DEF GoIdle, tables, Issued, TablesTypeOK, Inv, TypeInv, TypeOK
  <1>2. QED  BY <1>1, ClockInv DEF GoIdle, Inv, TypeInv, TypeOK

-----------------------------------------------------------------------------
LEMMA EnterInv ==
  ASSUME Inv, NEW w \in Requests, Enter(w)
  PROVE  Inv'
  BY BeginLoginInv, BeginRefreshInv, BeginLogoutInv, BeginLogoutAllInv,
     BeginPasswordChangeInv, BeginRevokeInv DEF Enter

LEMMA StepsInv ==
  ASSUME Inv, NEW w \in Requests, Step(w)
  PROVE  Inv'
  <1>1. CASE NoIdLeft(w)
    BY <1>1, FreeInv DEF NoIdLeft
  <1>2. CASE ~NoIdLeft(w)
    BY <1>2, CountSessionsInv, ListOldestInv, EvictInv, CreateSessionInv, ReadLinkInv,
       LinkAccessInv, ReadTokenInv, ReadContextInv, CheckIdleInv, RotateRejectedInv,
       RotateInv, ReplayStepInv, LookupInv, RevokeInv, SetPasswordInv, CloseAllInv,
       CommitAllInv, ListForBlacklistInv, NextForBlacklistInv, BlacklistSessionInv,
       AnswerInv DEF Step
  <1>3. QED  BY <1>1, <1>2

LEMMA NextInv ==
  ASSUME Inv, [Next]_vars
  PROVE  Inv'
  <1>1. ASSUME NEW w \in Requests, Enter(w) \/ Step(w) \/ Fail(w)
        PROVE  Inv'
    BY <1>1, EnterInv, StepsInv, FreeInv DEF Fail
  <1>2. CASE Expire
    BY <1>2, ExpireInv
  <1>3. ASSUME NEW s \in Sessions, GoIdle(s)
        PROVE  Inv'
    BY <1>3, GoIdleInv
  <1>4. CASE UNCHANGED vars
    <2>1. TablesTypeOK' /\ Issued' = Issued /\ used' = used
      BY <1>4 DEF vars, tables, Issued, TablesTypeOK, Inv, TypeInv, TypeOK
    <2>2. QED  BY <1>4, <2>1, ClockInv DEF vars, Inv, TypeInv, TypeOK
  <1>5. QED  BY <1>1, <1>2, <1>3, <1>4 DEF Next

LEMMA InvAlways == Spec => []Inv
  <1>1. QED  BY InitInv, NextInv, PTL DEF Spec

\* The tables, the requests and the Redis keys keep their types, however many
\* requests there are and whatever order their calls take.
THEOREM ServiceTypeCorrect == Spec => []TypeOK
  <1>1. Inv => TypeOK
    BY DEF Inv, TypeInv
  <1>2. QED  BY <1>1, InvAlways, PTL

\* A refresh that reaches handle_replay presented a token that some other
\* refresh presented too: a token is consumed only by a refresh that
\* presented it, and that refresh holds its successor and never asks again.
THEOREM OnlyReuseIsReplayAlways == Spec => []OnlyReuseIsReplay
  <1>1. Inv => OnlyReuseIsReplay
    <2> SUFFICES ASSUME Inv, NEW w \in Requests, At(w, "replay")
                 PROVE  request[w].tok \in repeated
      BY DEF OnlyReuseIsReplay
    <2>1. request[w].op = "refresh" /\ request[w].new = NoToken
      BY RecordParts DEF At, RecordOK
    <2>2. QED  BY <2>1 DEF Inv, ReuseInv
  <1>2. QED  BY <1>1, InvAlways, PTL

-----------------------------------------------------------------------------
(***************************************************************************)
(* A refresh with a used token is never merely refused.                    *)
(***************************************************************************)
Dead(s) == TokensIn({s}) \subseteq used \cup revoked

\* A closed session has a compromised family, a compromised family no usable
\* token.
DeadInv ==
    /\ \A s \in Sessions :
         /\ session[s] = "absent" <=> family[s] = "absent"
         /\ session[s] = "closed" => family[s] = "compromised"
         /\ family[s] = "compromised" => Dead(s)
    /\ \A t \in Issued : family[tokenSession[t]] # "absent"

\* What a refresh that will issue no token knows of its session.  An
\* answer without a punishment is to a token that nobody will consume.
PunishOK(r) ==
    /\ r.at \in {"close_all", "commit_all", "bar_list", "bar_next"} =>
         r.op \in {"logout_all", "password_change"}
    /\ r.at = "commit_all" => r.todo \subseteq SessionsOf(r.usr)
    /\ r.op = "refresh" /\ r.new = NoToken =>
         /\ r.at # "validate" => r.sid = tokenSession[r.tok]
         /\ r.at \in {"bar_read", "bar"} => family[r.sid] = "compromised"
         /\ r.at = "answer" => \/ family[r.sid] = "compromised"
                               \/ r.sid \in sessionExpired
                               \/ r.tok \in (revoked \cup tokenExpired) \ used

PunishInv == DeadInv /\ \A w \in Requests : PunishOK(request[w])

\* What every step leaves of the tables: nothing ends to be over, and what is
\* revoked or expired is not consumed any more.
Keeps ==
    /\ \A s \in Sessions : /\ family[s] = "compromised" => family'[s] = "compromised"
                           /\ session[s] # "absent" => session'[s] # "absent"
    /\ sessionExpired \subseteq sessionExpired'
    /\ revoked \subseteq revoked' /\ tokenExpired \subseteq tokenExpired'
    /\ \A t \in Issued : tokenSession'[t] = tokenSession[t]
    /\ (used' \ used) \cap (revoked \cup tokenExpired) = {}

-----------------------------------------------------------------------------
\* The sessions of a refresh and of its token are sessions.
LEMMA SidType ==
  ASSUME Inv, NEW w \in Requests, request[w].op = "refresh"
  PROVE  /\ request[w].tok \in Issued /\ request[w].tok \in Tokens
         /\ tokenSession[request[w].tok] \in Sessions
  <1>1. request[w].tok \in Issued
    BY RecordParts DEF Inv, TypeInv, TypeOK, RecordOK
  <1>2. QED  BY <1>1 DEF Inv, TypeInv, TypeOK, TablesTypeOK, Issued

\* A request that does not move keeps what it knows.
LEMMA StandingRequest ==
  ASSUME Inv, PunishInv, Keeps, NEW w \in Requests, request'[w] = request[w]
  PROVE  PunishOK(request[w])'
  <1>1. PunishOK(request[w])
    BY DEF PunishInv
  <1>2. request[w].at = "commit_all" =>
          request[w].todo \subseteq {s \in Sessions : session'[s] # "absent"
                                                       /\ Owner[s] = request[w].usr}
    BY <1>1 DEF PunishOK, SessionsOf, Keeps
  <1>3. request[w].op = "refresh" /\ request[w].new = NoToken =>
          /\ request[w].at # "validate" => request[w].sid = tokenSession'[request[w].tok]
          /\ request[w].at \in {"bar_read", "bar"} => family'[request[w].sid] = "compromised"
          /\ request[w].at = "answer" =>
               \/ family'[request[w].sid] = "compromised"
               \/ request[w].sid \in sessionExpired'
               \/ request[w].tok \in (revoked' \cup tokenExpired') \ used'
    BY <1>1, SidType DEF PunishOK, Keeps
  <1>4. QED  BY <1>1, <1>2, <1>3 DEF PunishOK, SessionsOf

\* A step of one request.
LEMMA OneMoves ==
  ASSUME Inv, PunishInv, Keeps, DeadInv', NEW w \in Requests,
         \A q \in Requests \ {w} : request'[q] = request[q],
         PunishOK(request[w])'
  PROVE  PunishInv'
  <1>1. \A q \in Requests \ {w} : PunishOK(request[q])'
    BY StandingRequest
  <1>2. QED  BY <1>1 DEF PunishInv

\* Steps that leave the tables alone.
LEMMA TablesStay ==
  ASSUME Inv, PunishInv, UNCHANGED tables
  PROVE  Keeps /\ DeadInv'
  <1>1. Keeps
    BY DEF tables, Keeps
  <1>2. DeadInv'
    BY DEF tables, PunishInv, DeadInv, Dead, TokensIn, Issued
  <1>3. QED  BY <1>1, <1>2

LEMMA QuietMove ==
  ASSUME Inv, PunishInv, UNCHANGED tables, NEW w \in Requests, NEW r,
         request' = [request EXCEPT ![w] = r], PunishOK(r)
  PROVE  PunishInv'
  <1>1. request'[w] = r /\ \A q \in Requests \ {w} : request'[q] = request[q]
    BY DEF Inv, TypeInv, TypeOK
  <1>2. PunishOK(r)'
    BY DEF PunishOK, SessionsOf, tables
  <1>3. PunishOK(request[w])'
    BY <1>1, <1>2 DEF PunishOK, SessionsOf
  <1>4. QED  BY <1>1, <1>3, OneMoves, TablesStay

\* Requests that are not refreshes and not about to close sessions.
LEMMA NoRefresh ==
  ASSUME NEW r, r.op # "refresh", r.at # "commit_all",
         r.at \in {"close_all", "bar_list", "bar_next"} =>
           r.op \in {"logout_all", "password_change"}
  PROVE  PunishOK(r)
  BY DEF PunishOK

-----------------------------------------------------------------------------
(***************************************************************************)
(* Requests begin, and move without writing the tables.                    *)
(***************************************************************************)
LEMMA EnterPunish ==
  ASSUME Inv, PunishInv, NEW w \in Requests, Enter(w)
  PROVE  PunishInv'
  <1>1. ASSUME NEW r, request' = [request EXCEPT ![w] = r], UNCHANGED tables,
               r.op # "refresh", r.at \in {"count", "lookup", "set_password"}
        PROVE  PunishInv'
    BY <1>1, NoRefresh, QuietMove
  <1>2. ASSUME NEW r, request' = [request EXCEPT ![w] = r], UNCHANGED tables,
               r.op = "refresh", r.at = "validate"
        PROVE  PunishInv'
    <2>1. PunishOK(r)
      BY <1>2 DEF PunishOK
    <2>2. QED  BY <1>2, <2>1, QuietMove
  <1>3. ASSUME NEW r, request' = [request EXCEPT ![w] = r], UNCHANGED tables,
               r.op = "logout_all", r.at = "close_all"
        PROVE  PunishInv'
    BY <1>3, NoRefresh, QuietMove
  <1>4. ASSUME NEW u \in Users, BeginLogin(w, u) PROVE PunishInv'
    <2> PICK r : r = [Free EXCEPT !.op = "login", !.at = "count", !.usr = u]
      OBVIOUS
    <2>1. Begin(w, r) /\ UNCHANGED tables
      BY <1>4 DEF BeginLogin
    <2>2. r.op = "login" /\ r.at = "count"
      BY DEF Free
    <2>3. QED  BY <1>1, <2>1, <2>2 DEF Begin
  <1>5. ASSUME NEW t \in Tokens, BeginRefresh(w, t) PROVE PunishInv'
    BY <1>2, <1>5 DEF BeginRefresh, Begin, Free
  <1>6. ASSUME NEW t \in Tokens, BeginLogout(w, t) PROVE PunishInv'
    <2> PICK r : r = [Free EXCEPT !.op = "logout", !.at = "lookup", !.tok = t,
                                   !.sid = tokenSession[t]]
      OBVIOUS
    <2>1. Begin(w, r) /\ UNCHANGED tables
      BY <1>6 DEF BeginLogout
    <2>2. r.op = "logout" /\ r.at = "lookup"
      BY DEF Free
    <2>3. QED  BY <1>1, <2>1, <2>2 DEF Begin
  <1>7. ASSUME NEW t \in Tokens, BeginLogoutAll(w, t) PROVE PunishInv'
    BY <1>3, <1>7 DEF BeginLogoutAll, Begin, Free
  <1>8. ASSUME NEW t \in Tokens, BeginPasswordChange(w, t) PROVE PunishInv'
    <2> PICK r : r = [Free EXCEPT !.op = "password_change", !.at = "set_password",
                                   !.tok = t, !.usr = Owner[tokenSession[t]]]
      OBVIOUS
    <2>1. Begin(w, r) /\ UNCHANGED tables
      BY <1>8 DEF BeginPasswordChange
    <2>2. r.op = "password_change" /\ r.at = "set_password"
      BY DEF Free
    <2>3. QED  BY <1>1, <2>1, <2>2 DEF Begin
  <1>9. ASSUME NEW s \in Sessions, BeginRevoke(w, s) PROVE PunishInv'
    <2> PICK r : r = [Free EXCEPT !.op = "revoke", !.at = "lookup", !.sid = s]
      OBVIOUS
    <2>1. Begin(w, r) /\ UNCHANGED tables
      BY <1>9 DEF BeginRevoke
    <2>2. r.op = "revoke" /\ r.at = "lookup"
      BY DEF Free
    <2>3. QED  BY <1>1, <2>1, <2>2 DEF Begin
  <1>10. QED  BY <1>4, <1>5, <1>6, <1>7, <1>8, <1>9 DEF Enter

LEMMA FreePunish ==
  ASSUME Inv, PunishInv, NEW w \in Requests, UNCHANGED tables,
         request' = [request EXCEPT ![w] = Free]
  PROVE  PunishInv'
  <1>1. PunishOK(Free)
    BY NoRefresh DEF Free
  <1>2. QED  BY <1>1, QuietMove

\* The steps of a login.
LEMMA LoginPunish ==
  ASSUME Inv, PunishInv, NEW w \in Requests,
         CountSessions(w) \/ ListOldest(w) \/ Evict(w)
  PROVE  PunishInv'
  <1>1. request[w].op = "login" /\ request[w] \in RequestRecords /\ UNCHANGED tables
    BY RecordParts DEF CountSessions, ListOldest, Evict, At, RecordOK
  <1>2. request'[w].op = "login" /\ request'[w].at \in {"create", "list", "evict", "revoke_tx"}
    <2>1. CASE CountSessions(w)
      BY <1>1, <2>1 DEF CountSessions, RequestRecords, Inv, TypeInv, TypeOK
    <2>2. CASE ListOldest(w)
      BY <1>1, <2>2 DEF ListOldest, RequestRecords, Inv, TypeInv, TypeOK
    <2>3. CASE Evict(w)
      <3>1. CASE Goto(w, "create")
        BY <1>1, <3>1 DEF Goto, RequestRecords, Inv, TypeInv, TypeOK
      <3>2. ASSUME NEW s,
                   request' = [request EXCEPT
                     ![w].todo = @ \ {s}, ![w].sid = s,
                     ![w].at = IF family[s] = "valid" THEN "revoke_tx" ELSE "evict"]
            PROVE  request'[w].op = "login" /\ request'[w].at \in {"evict", "revoke_tx"}
        BY <1>1, <3>2 DEF RequestRecords, Inv, TypeInv, TypeOK
      <3>3. QED  BY <2>3, <3>1, <3>2 DEF Evict
    <2>4. QED  BY <2>1, <2>2, <2>3
  <1>3. request' = [request EXCEPT ![w] = request'[w]]
    BY DEF CountSessions, ListOldest, Evict, Goto, Inv, TypeInv, TypeOK
  <1> PICK r : r = request'[w]
    OBVIOUS
  <1>4. PunishOK(r)
    BY <1>2, NoRefresh
  <1>5. QED  BY <1>1, <1>3, <1>4, QuietMove

\* A change of the next call only.
LEMMA GotoPunish ==
  ASSUME Inv, PunishInv, NEW w \in Requests, NEW c, Goto(w, c), UNCHANGED tables,
         PunishOK([request[w] EXCEPT !.at = c])
  PROVE  PunishInv'
  <1>1. request' = [request EXCEPT ![w] = [request[w] EXCEPT !.at = c]]
    BY DEF Goto, Inv, TypeInv, TypeOK
  <1>2. QED  BY <1>1, QuietMove

LEMMA ReadLinkPunish ==
  ASSUME Inv, PunishInv, NEW w \in Requests, ReadLink(w)
  PROVE  PunishInv'
  <1> PICK x : request' = [request EXCEPT ![w].read = x,
                                    ![w].at = IF @ = "link_read" THEN "link" ELSE "bar"]
    BY DEF ReadLink
  <1> PICK c : c = IF request[w].at = "link_read" THEN "link" ELSE "bar"
    OBVIOUS
  <1> PICK r : r = [request[w] EXCEPT !.read = x, !.at = c]
    OBVIOUS
  <1>1. request' = [request EXCEPT ![w] = r]
    BY DEF Inv, TypeInv, TypeOK
  <1>2. /\ r.op = request[w].op /\ r.new = request[w].new /\ r.sid = request[w].sid
        /\ r.tok = request[w].tok /\ r.at = c
    BY RecordParts DEF RequestRecords
  <1>3. PunishOK(request[w]) /\ (c = "bar" => request[w].at = "bar_read")
        /\ c \in {"bar", "link"} /\ request[w].at # "validate"
    BY DEF PunishInv, ReadLink, At
  <1>4. PunishOK(r)
    BY <1>2, <1>3 DEF PunishOK
  <1>5. QED  BY <1>1, <1>4, QuietMove DEF ReadLink

LEMMA LinkAccessPunish ==
  ASSUME Inv, PunishInv, NEW w \in Requests, LinkAccess(w)
  PROVE  PunishInv'
  <1>1. request[w].new # NoToken
    BY RecordParts, NullAssumption DEF LinkAccess, At, RecordOK, Issued
  <1>2. PunishOK([request[w] EXCEPT !.at = "answer"])
    BY <1>1, RecordParts DEF PunishOK, RequestRecords
  <1>3. QED  BY <1>2, GotoPunish DEF LinkAccess

LEMMA BlacklistPunish ==
  ASSUME Inv, PunishInv, NEW w \in Requests, BlacklistSession(w)
  PROVE  PunishInv'
  <1> PICK c : c = CASE request[w].op = "login" -> "evict"
                     [] request[w].op \in {"logout_all", "password_change"} -> "bar_next"
                     [] OTHER -> "answer"
    OBVIOUS
  <1> PICK r : r = [request[w] EXCEPT !.read = NoToken, !.at = c]
    OBVIOUS
  <1>1. request' = [request EXCEPT ![w] = r]
    <2>1. request' = [request EXCEPT ![w].read = NoToken, ![w].at = c]
      BY DEF BlacklistSession
    <2>2. QED  BY <2>1 DEF Inv, TypeInv, TypeOK
  <1>2. /\ r.op = request[w].op /\ r.new = request[w].new /\ r.sid = request[w].sid
        /\ r.tok = request[w].tok /\ r.at = c
    BY RecordParts DEF RequestRecords
  <1>3. /\ c \in {"evict", "bar_next", "answer"}
        /\ c = "bar_next" => request[w].op \in {"logout_all", "password_change"}
    OBVIOUS
  <1>4. PunishOK(request[w]) /\ request[w].at = "bar"
    BY DEF PunishInv, BlacklistSession, At
  <1>5. PunishOK(r)
    BY <1>2, <1>3, <1>4 DEF PunishOK
  <1>6. QED  BY <1>1, <1>5, QuietMove DEF BlacklistSession

LEMMA ReadTokenPunish ==
  ASSUME Inv, PunishInv, NEW w \in Requests, ReadToken(w)
  PROVE  PunishInv'
  <1> PICK t : t = request[w].tok
    OBVIOUS
  <1> PICK c : c = IF Usable(t) /\ t \notin tokenExpired THEN "context"
                   ELSE IF t \in used THEN "replay" ELSE "answer"
    OBVIOUS
  <1> PICK r : r = [request[w] EXCEPT !.sid = tokenSession[t], !.at = c]
    OBVIOUS
  <1>1. request[w].op = "refresh"
    BY RecordParts DEF ReadToken, At, RecordOK
  <1>2. request' = [request EXCEPT ![w] = r]
    BY DEF ReadToken, Inv, TypeInv, TypeOK
  <1>3. r.op = "refresh" /\ r.sid = tokenSession[t] /\ r.tok = t /\ r.at = c
    BY <1>1, RecordParts DEF RequestRecords
  <1>4. /\ c \in {"context", "replay", "answer"}
        /\ c = "answer" => t \in (revoked \cup tokenExpired) \ used
    BY <1>1, SidType DEF Usable, Issued
  <1>5. PunishOK(r)
    BY <1>3, <1>4 DEF PunishOK
  <1>6. QED  BY <1>2, <1>5, QuietMove DEF ReadToken

LEMMA ReadContextPunish ==
  ASSUME Inv, PunishInv, NEW w \in Requests, ReadContext(w)
  PROVE  PunishInv'
  <1> PICK s : s = request[w].sid
    OBVIOUS
  <1>1. /\ request[w].op = "refresh" /\ request[w].new = NoToken /\ request[w].at = "context"
        /\ PunishOK(request[w])
    BY RecordParts DEF ReadContext, At, RecordOK, PunishInv
  <1>2. s = tokenSession[request[w].tok] /\ s \in Sessions
    BY <1>1, SidType DEF PunishOK
  <1>3. PICK c \in {"check_idle", "answer"} :
          /\ Goto(w, c)
          /\ c = "answer" => ~(ActiveUnexpired(s) /\ family[s] = "valid")
    BY DEF ReadContext
  <1>4. c = "answer" => family[s] = "compromised" \/ s \in sessionExpired
    <2>1. family[s] \in {"valid", "compromised"}
      BY <1>1, <1>2, SidType DEF PunishInv, DeadInv, Inv, TypeInv, TypeOK, TablesTypeOK
    <2>2. session[s] \in {"active", "closed"}
      BY <1>2, <2>1 DEF PunishInv, DeadInv, Inv, TypeInv, TypeOK, TablesTypeOK
    <2>3. session[s] = "closed" => family[s] = "compromised"
      BY <1>2 DEF PunishInv, DeadInv
    <2>4. QED  BY <1>3, <2>1, <2>2, <2>3 DEF ActiveUnexpired
  <1>5. PunishOK([request[w] EXCEPT !.at = c])
    BY ZenonT(60), <1>1, <1>2, <1>4, RecordParts DEF PunishOK, RequestRecords
  <1>6. QED  BY <1>3, <1>5, GotoPunish DEF ReadContext

LEMMA CheckIdlePunish ==
  ASSUME Inv, PunishInv, NEW w \in Requests, CheckIdle(w)
  PROVE  PunishInv'
  <1>1. PICK c \in {"lookup", "rotate"} : Goto(w, c)
    BY DEF CheckIdle
  <1>2. request[w].at = "check_idle" /\ PunishOK(request[w])
    BY DEF CheckIdle, At, PunishInv
  <1>3. PunishOK([request[w] EXCEPT !.at = c])
    BY <1>2, RecordParts DEF PunishOK, RequestRecords
  <1>4. QED  BY <1>1, <1>3, GotoPunish DEF CheckIdle

LEMMA RotateRejectedPunish ==
  ASSUME Inv, PunishInv, NEW w \in Requests, RotateRejected(w)
  PROVE  PunishInv'
  <1>1. CASE Goto(w, "replay")
    <2>1. request[w].at = "rotate" /\ PunishOK(request[w])
      BY DEF RotateRejected, At, PunishInv
    <2>2. PunishOK([request[w] EXCEPT !.at = "replay"])
      BY <2>1, RecordParts DEF PunishOK, RequestRecords
    <2>3. QED  BY <1>1, <2>2, GotoPunish DEF RotateRejected
  <1>2. CASE request' = [request EXCEPT ![w] = Free]
    BY <1>2, FreePunish DEF RotateRejected
  <1>3. QED  BY <1>1, <1>2 DEF RotateRejected

LEMMA LookupPunish ==
  ASSUME Inv, PunishInv, NEW w \in Requests, Lookup(w)
  PROVE  PunishInv'
  <1>1. request[w].at = "lookup" /\ PunishOK(request[w])
    BY DEF Lookup, At, PunishInv
  <1>2. CASE Goto(w, "revoke_tx")
    <2>1. PunishOK([request[w] EXCEPT !.at = "revoke_tx"])
      BY <1>1, RecordParts DEF PunishOK, RequestRecords
    <2>2. QED  BY <1>2, <2>1, GotoPunish DEF Lookup
  <1>3. ASSUME NEW c \in {"bar_read", "answer"}, Goto(w, c), request[w].op # "refresh"
        PROVE  PunishInv'
    <2>1. PunishOK([request[w] EXCEPT !.at = c])
      BY <1>3, RecordParts DEF PunishOK, RequestRecords
    <2>2. QED  BY <1>3, <2>1, GotoPunish DEF Lookup
  <1>4. CASE request' = [request EXCEPT ![w] = Free]
    BY <1>4, FreePunish DEF Lookup
  <1>5. QED  BY <1>2, <1>3, <1>4 DEF Lookup

LEMMA CloseAllPunish ==
  ASSUME Inv, PunishInv, NEW w \in Requests, CloseAll(w)
  PROVE  PunishInv'
  <1> PICK S : S = ActiveOf(request[w].usr)
    OBVIOUS
  <1> PICK r : r = [request[w] EXCEPT !.todo = S, !.at = "commit_all"]
    OBVIOUS
  <1>1. request' = [request EXCEPT ![w] = r]
    BY DEF CloseAll, Inv, TypeInv, TypeOK
  <1>2. /\ r.op = request[w].op /\ r.usr = request[w].usr /\ r.at = "commit_all"
        /\ r.todo = S
    BY RecordParts DEF RequestRecords
  <1>3. r.op \in {"logout_all", "password_change"} /\ S \subseteq SessionsOf(r.usr)
    BY <1>2 DEF CloseAll, At, PunishInv, PunishOK, ActiveOf
  <1>4. PunishOK(r)
    BY <1>2, <1>3 DEF PunishOK
  <1>5. QED  BY <1>1, <1>4, QuietMove DEF CloseAll

LEMMA ListForBlacklistPunish ==
  ASSUME Inv, PunishInv, NEW w \in Requests, ListForBlacklist(w)
  PROVE  PunishInv'
  <1> PICK r : r = [request[w] EXCEPT !.todo = ActiveOf(request[w].usr), !.at = "bar_next"]
    OBVIOUS
  <1>1. request' = [request EXCEPT ![w] = r]
    BY DEF ListForBlacklist, Inv, TypeInv, TypeOK
  <1>2. r.op = request[w].op /\ r.at = "bar_next"
    BY RecordParts DEF RequestRecords
  <1>3. r.op \in {"logout_all", "password_change"}
    BY <1>2 DEF ListForBlacklist, At, PunishInv, PunishOK
  <1>4. PunishOK(r)
    BY <1>2, <1>3, NoRefresh
  <1>5. QED  BY <1>1, <1>4, QuietMove DEF ListForBlacklist

LEMMA NextForBlacklistPunish ==
  ASSUME Inv, PunishInv, NEW w \in Requests, NextForBlacklist(w)
  PROVE  PunishInv'
  <1>1. request[w].op \in {"logout_all", "password_change"}
    BY DEF NextForBlacklist, At, PunishInv, PunishOK
  <1>2. ASSUME NEW s, request' = [request EXCEPT ![w].todo = @ \ {s}, ![w].sid = s,
                                                 ![w].at = "bar_read"]
        PROVE  PunishInv'
    <2> PICK r : r = [request[w] EXCEPT !.todo = @ \ {s}, !.sid = s, !.at = "bar_read"]
      OBVIOUS
    <2>1. request' = [request EXCEPT ![w] = r]
      BY <1>2 DEF Inv, TypeInv, TypeOK
    <2>2. r.op # "refresh" /\ r.at = "bar_read"
      BY <1>1, RecordParts DEF RequestRecords
    <2>3. QED  BY <2>1, <2>2, NoRefresh, QuietMove DEF NextForBlacklist
  <1>3. CASE request' = [request EXCEPT ![w].op = "login", ![w].at = "count"]
    <2> PICK r : r = [request[w] EXCEPT !.op = "login", !.at = "count"]
      OBVIOUS
    <2>1. request' = [request EXCEPT ![w] = r]
      BY <1>3 DEF Inv, TypeInv, TypeOK
    <2>2. r.op # "refresh" /\ r.at = "count"
      BY RecordParts DEF RequestRecords
    <2>3. QED  BY <2>1, <2>2, NoRefresh, QuietMove DEF NextForBlacklist
  <1>4. CASE Goto(w, "answer")
    <2>1. PunishOK([request[w] EXCEPT !.at = "answer"])
      BY <1>1, RecordParts DEF PunishOK, RequestRecords
    <2>2. QED  BY <1>4, <2>1, GotoPunish DEF NextForBlacklist
  <1>5. QED  BY <1>2, <1>3, <1>4 DEF NextForBlacklist

\* The new password reaches every request that verified the old one, and
\* changes nothing that a refresh knows.
LEMMA SetPasswordPunish ==
  ASSUME Inv, PunishInv, NEW w \in Requests, SetPassword(w)
  PROVE  PunishInv'
  <1>1. Keeps /\ DeadInv' /\ UNCHANGED tables
    BY TablesStay DEF SetPassword
  <1>2. \A q \in Requests : PunishOK(request[q])'
    <2> SUFFICES ASSUME NEW q \in Requests PROVE PunishOK(request[q])'
      OBVIOUS
    <2>1. PunishOK(request[q]) /\ request[q] \in RequestRecords
      BY RecordParts DEF PunishInv
    <2>2. CASE q = w
      <3>1. request[w].op = "password_change"
        BY RecordParts DEF SetPassword, At, RecordOK
      <3>2. request'[q].op = "password_change" /\ request'[q].at = "close_all"
        BY <2>1, <2>2, <3>1 DEF SetPassword, RequestRecords
      <3>3. QED  BY <3>2 DEF PunishOK
    <2>3. CASE q # w
      <3>1. PICK b : request'[q] = [request[q] EXCEPT !.stale = b]
        BY <2>3 DEF SetPassword
      <3>2. /\ request'[q].op = request[q].op /\ request'[q].at = request[q].at
            /\ request'[q].usr = request[q].usr /\ request'[q].sid = request[q].sid
            /\ request'[q].tok = request[q].tok /\ request'[q].new = request[q].new
            /\ request'[q].todo = request[q].todo
        BY <2>1, <3>1 DEF RequestRecords
      <3>3. QED  BY <1>1, <2>1, <3>2 DEF PunishOK, SessionsOf, tables
    <2>4. QED  BY <2>2, <2>3
  <1>3. QED  BY <1>1, <1>2 DEF PunishInv

-----------------------------------------------------------------------------
(***************************************************************************)
(* Steps that write the tables.                                            *)
(***************************************************************************)
\* Sessions C are closed, families F compromised and tokens R revoked: it
\* is enough that every session of C gets or has a compromised family, and
\* every family of F loses its tokens.
LEMMA RevokeRowsDead ==
  ASSUME Inv, DeadInv, NEW C \in SUBSET Sessions, NEW F \in SUBSET Sessions,
         NEW R \in SUBSET Tokens, RevokeRows(C, F, R),
         \A s \in C : session[s] # "absent" /\ (family[s] = "valid" => s \in F),
         \A s \in F : family[s] # "absent" /\ TokensIn({s}) \subseteq R
  PROVE  Keeps /\ DeadInv'
  <1> USE DEF Inv, TypeInv, TypeOK, TablesTypeOK
  <1>1. /\ session' = [s \in Sessions |-> IF s \in C THEN "closed" ELSE session[s]]
        /\ family' = [s \in Sessions |-> IF s \in F THEN "compromised" ELSE family[s]]
        /\ revoked' = revoked \cup R /\ used' = used /\ tokenSession' = tokenSession
        /\ sessionExpired' = sessionExpired /\ tokenExpired' = tokenExpired
    BY DEF RevokeRows, expiry
  <1>2. Keeps
    BY <1>1 DEF Keeps
  <1>3. ASSUME NEW s \in Sessions
        PROVE  /\ session'[s] = "absent" <=> family'[s] = "absent"
               /\ session'[s] = "closed" => family'[s] = "compromised"
               /\ family'[s] = "compromised" => Dead(s)'
    <2>1. session'[s] = "absent" <=> family'[s] = "absent"
      BY <1>1 DEF DeadInv
    <2>2. session'[s] = "closed" => family'[s] = "compromised"
      <3>1. CASE s \in C
        BY <1>1, <3>1 DEF DeadInv
      <3>2. CASE s \notin C
        BY <1>1, <3>2 DEF DeadInv
      <3>3. QED  BY <3>1, <3>2
    <2>3. family'[s] = "compromised" => Dead(s)'
      <3>1. CASE s \in F
        BY <1>1, <3>1 DEF Dead, TokensIn
      <3>2. CASE s \notin F
        BY <1>1, <3>2 DEF DeadInv, Dead, TokensIn
      <3>3. QED  BY <3>1, <3>2
    <2>4. QED  BY <2>1, <2>2, <2>3
  <1>4. \A t \in Issued' : family'[tokenSession'[t]] # "absent"
    BY <1>1 DEF DeadInv, Issued
  <1>5. QED  BY <1>2, <1>3, <1>4 DEF DeadInv

LEMMA EndSessionDead ==
  ASSUME Inv, DeadInv, NEW s \in Sessions, EndSession(s)
  PROVE  /\ Keeps /\ DeadInv'
         /\ family[s] # "absent" => family'[s] = "compromised"
  <1> DEFINE C == {s} \cap {q \in Sessions : session[q] = "active"}
             F == {s} \cap {q \in Sessions : family[q] = "valid"}
             R == TokensIn({s})
  <1>1. C \in SUBSET Sessions /\ F \in SUBSET Sessions /\ R \in SUBSET Tokens
    BY DEF TokensIn
  <1>2. RevokeRows(C, F, R)
    BY DEF EndSession
  <1>3. /\ \A q \in C : session[q] # "absent" /\ (family[q] = "valid" => q \in F)
        /\ \A q \in F : family[q] # "absent" /\ TokensIn({q}) \subseteq R
    OBVIOUS
  <1>4. family[s] # "absent" => family'[s] = "compromised"
    BY <1>2 DEF RevokeRows, Inv, TypeInv, TypeOK, TablesTypeOK
  <1> HIDE DEF C, F, R
  <1>5. Keeps /\ DeadInv'
    BY <1>1, <1>2, <1>3, RevokeRowsDead
  <1>6. QED  BY <1>4, <1>5

\* A replay or an idle refresh ends the session of its token.
LEMMA EndPunish ==
  ASSUME Inv, PunishInv, NEW w \in Requests, Replay(w) \/ Revoke(w)
  PROVE  PunishInv'
  <1> PICK r : r = [request[w] EXCEPT !.at = "bar_read"]
    OBVIOUS
  <1> PICK s : s = request[w].sid
    OBVIOUS
  <1>1. s \in Sessions /\ EndSession(s)
    BY RecordParts DEF Replay, Revoke, At, RecordOK
  <1>2. /\ request'[w] = r /\ \A q \in Requests \ {w} : request'[q] = request[q]
    BY DEF Replay, Revoke, Goto, Inv, TypeInv, TypeOK
  <1>3. /\ r.op = request[w].op /\ r.new = request[w].new /\ r.sid = s
        /\ r.tok = request[w].tok /\ r.at = "bar_read"
    BY RecordParts DEF RequestRecords
  <1>4. /\ Keeps /\ DeadInv'
        /\ family[s] # "absent" => family'[s] = "compromised"
    BY <1>1, EndSessionDead DEF PunishInv
  <1>5. ASSUME r.op = "refresh", r.new = NoToken
        PROVE  r.sid = tokenSession'[r.tok] /\ family'[r.sid] = "compromised"
    <2>1. r.sid = tokenSession[r.tok]
      BY <1>3, <1>5 DEF PunishInv, PunishOK, Replay, Revoke, At
    <2>2. r.tok \in Issued
      BY <1>3, <1>5, SidType
    <2>3. QED  BY <1>3, <1>4, <2>1, <2>2 DEF Keeps, PunishInv, DeadInv
  <1>6. PunishOK(r)'
    BY <1>3, <1>5 DEF PunishOK
  <1>7. PunishOK(request[w])'
    BY <1>2, <1>6 DEF PunishOK, SessionsOf
  <1>8. QED  BY <1>2, <1>4, <1>7, OneMoves

LEMMA CommitAllPunish ==
  ASSUME Inv, PunishInv, NEW w \in Requests, CommitAll(w)
  PROVE  PunishInv'
  <1> DEFINE mine == SessionsOf(request[w].usr)
             F == {s \in mine : family[s] = "valid"}
             C == request[w].todo
  <1>1. /\ request[w].op \in {"logout_all", "password_change"}
        /\ C \subseteq mine
    BY DEF CommitAll, At, PunishInv, PunishOK
  <1>2. Keeps /\ DeadInv'
    <2>1. /\ C \in SUBSET Sessions /\ F \in SUBSET Sessions
          /\ TokensIn(mine) \in SUBSET Tokens
      BY <1>1 DEF SessionsOf, TokensIn
    <2>2. RevokeRows(C, F, TokensIn(mine))
      BY DEF CommitAll
    <2>3. /\ \A s \in C : session[s] # "absent" /\ (family[s] = "valid" => s \in F)
          /\ \A s \in F : family[s] # "absent" /\ TokensIn({s}) \subseteq TokensIn(mine)
      BY <1>1 DEF SessionsOf, TokensIn
    <2> HIDE DEF C, F
    <2>4. QED  BY <2>1, <2>2, <2>3, RevokeRowsDead DEF PunishInv
  <1>3. \A q \in Requests \ {w} : request'[q] = request[q]
    BY DEF CommitAll, Inv, TypeInv, TypeOK
  <1>4. request'[w].op = request[w].op /\ request'[w].at = "bar_list"
    BY RecordParts DEF CommitAll, RequestRecords, Inv, TypeInv, TypeOK
  <1>5. PunishOK(request[w])'
    BY <1>1, <1>4 DEF PunishOK
  <1>6. QED  BY <1>2, <1>3, <1>5, OneMoves

LEMMA CreateSessionPunish ==
  ASSUME Inv, PunishInv, NEW w \in Requests, NEW s \in Sessions, NEW t \in Tokens,
         CreateSession(w, s, t)
  PROVE  PunishInv'
  <1>1. /\ session' = [session EXCEPT ![s] = "active"]
        /\ family' = [family EXCEPT ![s] = "valid"]
        /\ tokenSession' = [tokenSession EXCEPT ![t] = s]
        /\ used' = used /\ revoked' = revoked
        /\ sessionExpired' = sessionExpired /\ tokenExpired' = tokenExpired
        /\ session[s] = "absent" /\ t \notin Issued
    BY DEF CreateSession, CreateRows, expiry
  <1>2. family[s] = "absent"
    BY <1>1 DEF PunishInv, DeadInv
  <1>3. Keeps
    BY <1>1, <1>2 DEF Keeps, Issued, Inv, TypeInv, TypeOK, TablesTypeOK
  <1>4. DeadInv'
    <2> USE DEF Inv, TypeInv, TypeOK, TablesTypeOK
    <2>1. ASSUME NEW q \in Sessions
          PROVE  /\ session'[q] = "absent" <=> family'[q] = "absent"
                 /\ session'[q] = "closed" => family'[q] = "compromised"
                 /\ family'[q] = "compromised" => Dead(q)'
      <3>1. CASE q = s
        BY <1>1, <3>1
      <3>2. CASE q # s
        BY <1>1, <3>2 DEF PunishInv, DeadInv, Dead, TokensIn
      <3>3. QED  BY <3>1, <3>2
    <2>2. \A q \in Issued' : family'[tokenSession'[q]] # "absent"
      BY <1>1 DEF PunishInv, DeadInv, Issued
    <2>3. QED  BY <2>1, <2>2 DEF DeadInv
  <1>5. \A q \in Requests \ {w} : request'[q] = request[q]
    BY DEF CreateSession, Inv, TypeInv, TypeOK
  <1>6. request[w].op = "login"
    BY RecordParts DEF CreateSession, At, RecordOK
  <1>7. request'[w].op = "login" /\ request'[w].at = "link_read"
    BY <1>6, RecordParts DEF CreateSession, RequestRecords, Inv, TypeInv, TypeOK
  <1>8. PunishOK(request[w])'
    BY <1>7 DEF PunishOK
  <1>9. QED  BY <1>3, <1>4, <1>5, <1>8, OneMoves

LEMMA RotatePunish ==
  ASSUME Inv, PunishInv, NEW w \in Requests, NEW n \in Tokens, Rotate(w, n)
  PROVE  PunishInv'
  <1> PICK t : t = request[w].tok
    OBVIOUS
  <1> PICK s : s = tokenSession[t]
    OBVIOUS
  <1>1. t \in Issued /\ t \in Tokens /\ s \in Sessions
    BY SidType, RecordParts DEF Rotate, At, RecordOK
  <1>2. /\ session' = session /\ family' = family
        /\ tokenSession' = [tokenSession EXCEPT ![n] = s]
        /\ used' = used \cup {t} /\ revoked' = revoked
        /\ sessionExpired' = sessionExpired /\ tokenExpired' = tokenExpired
        /\ n \notin Issued /\ family[s] = "valid"
        /\ t \notin revoked /\ t \notin tokenExpired
    BY DEF Rotate, RotateRows, TokenAccepted, Usable, expiry
  <1>3. Keeps
    BY <1>2 DEF Keeps, Issued, Inv, TypeInv, TypeOK, TablesTypeOK
  <1>4. DeadInv'
    <2> USE DEF Inv, TypeInv, TypeOK, TablesTypeOK
    <2>1. \A q \in Sessions : family[q] = "compromised" => Dead(q)'
      BY <1>2 DEF PunishInv, DeadInv, Dead, TokensIn
    <2>2. \A q \in Issued' : family'[tokenSession'[q]] # "absent"
      BY <1>2 DEF PunishInv, DeadInv, Issued
    <2>3. QED  BY <1>2, <2>1, <2>2 DEF PunishInv, DeadInv
  <1>5. \A q \in Requests \ {w} : request'[q] = request[q]
    BY DEF Rotate, Inv, TypeInv, TypeOK
  <1>6. request'[w].new = n /\ request'[w].at = "link_read" /\ n # NoToken
    BY RecordParts, NullAssumption DEF Rotate, RequestRecords, Inv, TypeInv, TypeOK
  <1>7. PunishOK(request[w])'
    BY <1>6 DEF PunishOK
  <1>8. QED  BY <1>3, <1>4, <1>5, <1>7, OneMoves

-----------------------------------------------------------------------------
\* Whatever only the clock does.
LEMMA ExpirePunish ==
  ASSUME Inv, PunishInv, Expire
  PROVE  PunishInv'
  <1>1. /\ UNCHANGED <<session, family, tokenSession, used, revoked, request>>
        /\ sessionExpired \subseteq sessionExpired' /\ tokenExpired \subseteq tokenExpired'
    BY DEF Expire, ExpireSession, ExpireToken
  <1>2. Keeps
    BY <1>1 DEF Keeps
  <1>3. DeadInv'
    BY <1>1 DEF PunishInv, DeadInv, Dead, TokensIn, Issued
  <1>4. \A w \in Requests : PunishOK(request[w])'
    BY <1>1, <1>2, StandingRequest
  <1>5. QED  BY <1>3, <1>4 DEF PunishInv

LEMMA StillPunish ==
  ASSUME Inv, PunishInv, UNCHANGED <<tables, request>>
  PROVE  PunishInv'
  <1>1. \A w \in Requests : PunishOK(request[w])'
    BY TablesStay, StandingRequest
  <1>2. QED  BY <1>1, TablesStay DEF PunishInv

LEMMA StepPunish ==
  ASSUME Inv, PunishInv, NEW w \in Requests, Step(w)
  PROVE  PunishInv'
  <1>1. CASE Answer(w) \/ NoIdLeft(w)
    BY <1>1, FreePunish DEF Answer, NoIdLeft
  <1>2. CASE ~(Answer(w) \/ NoIdLeft(w))
    BY <1>2, LoginPunish, CreateSessionPunish, ReadLinkPunish, LinkAccessPunish,
       ReadTokenPunish, ReadContextPunish, CheckIdlePunish, RotateRejectedPunish,
       RotatePunish, EndPunish, LookupPunish, SetPasswordPunish, CloseAllPunish,
       CommitAllPunish, ListForBlacklistPunish, NextForBlacklistPunish,
       BlacklistPunish DEF Step
  <1>3. QED  BY <1>1, <1>2

LEMMA NextPunish ==
  ASSUME Inv, PunishInv, [Next]_vars
  PROVE  PunishInv'
  <1>1. ASSUME NEW w \in Requests, Enter(w) \/ Step(w) \/ Fail(w)
        PROVE  PunishInv'
    BY <1>1, EnterPunish, StepPunish, FreePunish DEF Fail
  <1>2. CASE Expire
    BY <1>2, ExpirePunish
  <1>3. ASSUME NEW s \in Sessions, GoIdle(s)
        PROVE  PunishInv'
    BY <1>3, StillPunish DEF GoIdle
  <1>4. CASE UNCHANGED vars
    BY <1>4, StillPunish DEF vars
  <1>5. QED  BY <1>1, <1>2, <1>3, <1>4 DEF Next

LEMMA InitPunish == Init => PunishInv
  <1> SUFFICES ASSUME Init PROVE PunishInv
    OBVIOUS
  <1>1. DeadInv
    BY DEF Init, TablesInit, DeadInv, Issued
  <1>2. \A w \in Requests : PunishOK(request[w])
    <2>1. PunishOK(Free)
      BY NoRefresh DEF Free
    <2>2. QED  BY <2>1 DEF Init
  <1>3. QED  BY <1>1, <1>2 DEF PunishInv

\* A refresh that presented a used token and did not itself rotate it leaves
\* a dead session when it is answered, whatever ran in between: the tokens
\* of the session are consumed or revoked, or the session has expired.
THEOREM UsedTokenEndsSessionAlways == Spec => []UsedTokenEndsSession
  <1>1. Inv /\ PunishInv => UsedTokenEndsSession
    <2> SUFFICES ASSUME Inv, PunishInv, NEW w \in Requests,
                        request[w].op = "refresh", At(w, "answer"),
                        request[w].tok \in used, request[w].new = NoToken
                 PROVE  \/ tokenSession[request[w].tok] \in sessionExpired
                        \/ Dead(tokenSession[request[w].tok])
      BY DEF UsedTokenEndsSession, Dead
    <2>1. /\ request[w].sid = tokenSession[request[w].tok]
          /\ family[request[w].sid] = "compromised" \/ request[w].sid \in sessionExpired
      BY DEF PunishInv, PunishOK, At
    <2>2. request[w].sid \in Sessions
      BY <2>1, SidType
    <2>3. QED  BY <2>1, <2>2 DEF PunishInv, DeadInv
  <1>2. Spec => []PunishInv
    BY InvAlways, InitPunish, NextPunish, PTL DEF Spec
  <1>3. QED  BY <1>1, <1>2, InvAlways, PTL
-----------------------------------------------------------------------------
(***************************************************************************)
(* The session limit, when the logins, logout-alls and password changes of *)
(* a user take turns.  What a login has to keep from counting to creating  *)
(* is an inequality between cardinalities: of the n active sessions and    *)
(* the quota when it lists, of those it has still to evict afterwards.     *)
(***************************************************************************)
\* The sessions that stay active when a login has evicted what it still has to.
Remaining(r) ==
    ActiveOf(r.usr) \ (r.todo \cup {s \in {r.sid} : r.at = "revoke_tx"})

\* What a login that makes room and a request that closes everything know.
LimitOK(r) ==
    /\ r.op \in {"login", "logout_all", "password_change"} => r.usr \in Users
    /\ r.at = "list" => Cardinality(ActiveOf(r.usr)) < MaxSessions + r.quota
    /\ r.op = "login" /\ r.at \in {"evict", "revoke_tx", "bar_read", "bar", "create"} =>
         Cardinality(Remaining(r)) < MaxSessions
    /\ r.at = "lookup" => r.op # "login"
    /\ r.at \in {"count", "create"} => r.todo = {}
    /\ r.at = "commit_all" => ActiveOf(r.usr) \subseteq r.todo

LimitInv ==
    /\ SessionLimit
    /\ \A s \in Sessions : ActiveUnexpired(s) => family[s] = "valid"
    /\ \A s \in Sessions : session[s] # "absent" => \E i \in 1..Len(order) : order[i] = s
    /\ \A w \in Requests : LimitOK(request[w])

-----------------------------------------------------------------------------
LEMMA FewActive ==
  ASSUME NEW u
  PROVE  IsFiniteSet(ActiveOf(u)) /\ Cardinality(ActiveOf(u)) \in Nat
  <1>1. ActiveOf(u) \in SUBSET Sessions
    BY DEF ActiveOf, SessionsOf
  <1>2. QED  BY <1>1, ServiceAssumption, FS_Subset, FS_CardinalityType

LEMMA FewerActive ==
  ASSUME NEW S, IsFiniteSet(S), NEW T, T \subseteq S
  PROVE  /\ Cardinality(T) <= Cardinality(S) /\ IsFiniteSet(T)
         /\ Cardinality(T) \in Nat /\ Cardinality(S) \in Nat
  BY FS_Subset, FS_CardinalityType

\* The members of S that at least n others precede.
AfterFirst(n, S, rank) ==
    {s \in S : ~(Cardinality({q \in S : rank[q] < rank[s]}) < n)}

\* Of k things in a row, all but the first n are at most k - n: each of them
\* has at least n things before it, and no two of them have as many.
LEMMA AllButFirst ==
  ASSUME NEW S, IsFiniteSet(S), NEW rank \in [S -> Nat], NEW n \in Nat,
         \A s, q \in S : rank[s] = rank[q] => s = q
  PROVE  \/ Cardinality(AfterFirst(n, S, rank)) + n <= Cardinality(S)
         \/ AfterFirst(n, S, rank) = {}
  <1> DEFINE k == Cardinality(S)
             Before(s) == {q \in S : rank[q] < rank[s]}
             before == [s \in S |-> Cardinality(Before(s))]
             Rest == {s \in S : ~(before[s] < n)}
             f == [s \in Rest |-> before[s]]
  <1>1. k \in Nat
    BY FS_CardinalityType
  <1>2. \A s \in S : Before(s) \in SUBSET S /\ s \notin Before(s) /\ IsFiniteSet(Before(s))
    <2>1. \A s \in S : Before(s) \in SUBSET S /\ s \notin Before(s)
      OBVIOUS
    <2>2. QED  BY <2>1, FS_Subset
  <1>3. before \in [S -> 0..(k - 1)]
    <2> HIDE DEF Before
    <2>1. ASSUME NEW s \in S PROVE Cardinality(Before(s)) \in 0..(k - 1)
      <3>1. Cardinality(Before(s)) \in Nat
        BY <1>2, FS_CardinalityType
      <3>2. Cardinality(Before(s)) <= k /\ Cardinality(Before(s)) # k
        BY <1>2, FS_Subset
      <3>3. QED  BY <1>1, <3>1, <3>2
    <2>2. QED  BY <2>1
  <1>4. ASSUME NEW s \in S, NEW q \in S, rank[s] < rank[q]
        PROVE  before[s] # before[q]
    <2>1. Before(s) \subseteq Before(q) /\ s \in Before(q) /\ s \notin Before(s)
      BY <1>4
    <2> HIDE DEF Before
    <2>2. Cardinality(Before(s)) # Cardinality(Before(q))
      BY <1>2, <2>1, FS_Subset
    <2>3. QED  BY <2>2
  <1> HIDE DEF before
  <1>5. \A s, q \in S : before[s] = before[q] => s = q
    BY <1>4
  <1>6. f \in Injection(Rest, n..(k - 1))
    <2>1. f \in [Rest -> n..(k - 1)]
      BY <1>1, <1>3
    <2>2. QED  BY <1>5, <2>1 DEF Injection, IsInjective
  <1>7. IsFiniteSet(n..(k - 1)) /\ Cardinality(n..(k - 1)) = IF n > k - 1 THEN 0 ELSE k - n
    <2>1. k - 1 \in Int /\ n \in Int /\ (k - 1) - n + 1 = k - n
      BY <1>1
    <2> HIDE DEF k
    <2>2. QED  BY <2>1, FS_Interval
  <1> HIDE DEF Rest
  <1>8. IsFiniteSet(Rest) /\ Cardinality(Rest) <= Cardinality(n..(k - 1))
    <2> HIDE DEF f
    <2>1. QED  BY <1>6, <1>7, FS_Injection
  <1>9. Cardinality(Rest) \in Nat /\ (Cardinality(Rest) = 0 => Rest = {})
    BY <1>8, FS_CardinalityType, FS_EmptySet
  <1>10. Cardinality(Rest) + n <= k \/ Rest = {}
    <2> HIDE DEF k
    <2>1. QED  BY <1>1, <1>7, <1>8, <1>9
  <1>11. Rest = AfterFirst(n, S, rank)
    BY DEF Rest, before, AfterFirst
  <1>12. QED  BY <1>10, <1>11

LEMMA AllButOldest ==
  ASSUME NEW S \in SUBSET Sessions, NEW n \in Nat,
         \A s \in S : \E i \in 1..Len(order) : order[i] = s,
         order \in Seq(Sessions)
  PROVE  Cardinality(S \ Oldest(n, S)) + n <= Cardinality(S) \/ S \ Oldest(n, S) = {}
  <1> DEFINE Rank(s) == CHOOSE i \in 1..Len(order) : order[i] = s
             rank == [s \in S |-> Rank(s)]
             Rest == AfterFirst(n, S, rank)
  <1>1. \A s \in S : Rank(s) \in 1..Len(order) /\ order[Rank(s)] = s
    OBVIOUS
  <1>2. rank \in [S -> Nat] /\ \A s, q \in S : rank[s] = rank[q] => s = q
    <2> HIDE DEF Rank
    <2>1. QED  BY <1>1
  <1>3. IsFiniteSet(S)
    BY ServiceAssumption, FS_Subset
  <1>4. Cardinality(Rest) + n <= Cardinality(S) \/ Rest = {}
    <2> HIDE DEF rank
    <2>1. QED  BY <1>2, <1>3, AllButFirst
  <1>5. S \ Oldest(n, S) = Rest
    <2>1. \A s \in S : {q \in S : rank[q] < rank[s]} = {q \in S : Rank(q) < Rank(s)}
      OBVIOUS
    <2> HIDE DEF rank
    <2>2. QED  BY <2>1 DEF Oldest, AfterFirst
  <1>6. QED  BY <1>4, <1>5

-----------------------------------------------------------------------------
\* A record of which only the parts matter that LimitOK looks at.
SameMoves(r, x) ==
    r.op = x.op /\ r.at = x.at /\ r.usr = x.usr /\ r.sid = x.sid
      /\ r.quota = x.quota /\ r.todo = x.todo

\* What a request knows survives while no session of its user becomes active.
LEMMA LimitKept ==
  ASSUME NEW r, r.quota \in Nat, NEW x, SameMoves(r, x), LimitOK(r),
         ActiveOf(r.usr)' \subseteq ActiveOf(r.usr)
  PROVE  LimitOK(x)'
  <1> DEFINE A == ActiveOf(r.usr)
             B == ActiveOf(r.usr)'
             gone == r.todo \cup {s \in {r.sid} : r.at = "revoke_tx"}
  <1>1. ActiveOf(x.usr)' = B /\ Remaining(x)' = B \ gone /\ Remaining(r) = A \ gone
    BY DEF SameMoves, Remaining
  <1>2. IsFiniteSet(A)
    BY FewActive
  <1>3. Cardinality(B) <= Cardinality(A) /\ Cardinality(B) \in Nat /\ Cardinality(A) \in Nat
    <2> HIDE DEF A, B
    <2>1. B \subseteq A
      BY DEF A, B
    <2>2. QED  BY <1>2, <2>1, FewerActive
  <1>4. Cardinality(B \ gone) <= Cardinality(A \ gone)
        /\ Cardinality(B \ gone) \in Nat /\ Cardinality(A \ gone) \in Nat
    <2> HIDE DEF A, B, gone
    <2>1. B \ gone \subseteq A \ gone /\ A \ gone \subseteq A
      BY DEF A, B
    <2>2. QED  BY <1>2, <2>1, FewerActive
  <1> HIDE DEF gone, A, B
  <1>5. r.at = "list" => Cardinality(B) < MaxSessions + r.quota
    BY <1>3, ServiceAssumption DEF LimitOK, A
  <1>6. r.op = "login" /\ r.at \in {"evict", "revoke_tx", "bar_read", "bar", "create"} =>
          Cardinality(B \ gone) < MaxSessions
    BY <1>1, <1>4, ServiceAssumption DEF LimitOK
  <1>7. r.at = "commit_all" => B \subseteq r.todo
    BY DEF LimitOK, A, B
  <1>8. QED  BY <1>1, <1>5, <1>6, <1>7 DEF LimitOK, SameMoves, B

\* A step of request w after which nothing more is active than before.
LEMMA LimitStep ==
  ASSUME Inv, LimitInv, NEW w \in Requests,
         session' = session \/ \A s \in Sessions : session'[s] # session[s] =>
                                 session[s] # "absent" /\ session'[s] = "closed",
         sessionExpired \subseteq sessionExpired', order' = order,
         \A s \in Sessions : ActiveUnexpired(s)' => family'[s] = "valid",
         \A q \in Requests \ {w} : SameMoves(request[q], request'[q]),
         LimitOK(request[w])'
  PROVE  LimitInv'
  <1>1. \A s \in Sessions : session'[s] # "absent" => session[s] # "absent"
    OBVIOUS
  <1>2. \A s \in Sessions : ActiveUnexpired(s)' => ActiveUnexpired(s)
    BY DEF ActiveUnexpired
  <1>3. ASSUME NEW u PROVE ActiveOf(u)' \subseteq ActiveOf(u)
    BY <1>1, <1>2 DEF ActiveOf, SessionsOf
  <1>4. SessionLimit'
    <2> SUFFICES ASSUME NEW u \in Users PROVE Cardinality(ActiveOf(u)') <= MaxSessions
      BY DEF SessionLimit
    <2>1. IsFiniteSet(ActiveOf(u)) /\ ActiveOf(u)' \subseteq ActiveOf(u)
      BY <1>3, FewActive
    <2>2. /\ Cardinality(ActiveOf(u)') <= Cardinality(ActiveOf(u))
          /\ Cardinality(ActiveOf(u)') \in Nat /\ Cardinality(ActiveOf(u)) \in Nat
      BY <2>1, FewerActive
    <2>3. QED  BY <2>2, ServiceAssumption DEF LimitInv, SessionLimit
  <1>5. \A s \in Sessions : session'[s] # "absent" => \E i \in 1..Len(order') : order'[i] = s
    BY <1>1 DEF LimitInv
  <1>6. ASSUME NEW q \in Requests \ {w} PROVE LimitOK(request[q])'
    <2> PICK r : r = request[q]
      OBVIOUS
    <2> PICK x : x = request'[q]
      OBVIOUS
    <2>1. SameMoves(r, x) /\ LimitOK(r) /\ r.quota \in Nat
      BY RecordParts DEF LimitInv, RequestRecords
    <2>2. LimitOK(x)'
      BY <1>3, <2>1, LimitKept
    <2>3. QED  BY <2>2 DEF LimitOK, Remaining
  <1>7. \A q \in Requests : LimitOK(request[q])'
    BY <1>6
  <1>8. QED  BY <1>4, <1>5, <1>7 DEF LimitInv

\* The tables are not written.
LEMMA QuietLimit ==
  ASSUME Inv, LimitInv, NEW w \in Requests, NEW r,
         request' = [request EXCEPT ![w] = r], LimitOK(r),
         UNCHANGED <<tables, order>>
  PROVE  LimitInv'
  <1>1. request'[w] = r /\ \A q \in Requests \ {w} : SameMoves(request[q], request'[q])
    BY DEF Inv, TypeInv, TypeOK, SameMoves
  <1>2. LimitOK(r)'
    BY DEF LimitOK, Remaining, ActiveOf, SessionsOf, ActiveUnexpired, tables
  <1>3. LimitOK(request[w])'
    BY <1>1, <1>2 DEF LimitOK, Remaining
  <1>4. \A s \in Sessions : ActiveUnexpired(s)' => family'[s] = "valid"
    BY DEF LimitInv, ActiveUnexpired, tables
  <1>5. QED  BY <1>1, <1>3, <1>4, LimitStep DEF tables

\* A request that goes on without being about to evict or to close.
LEMMA GoesOn ==
  ASSUME LimitInv, NEW w \in Requests, NEW r,
         r.op = request[w].op, r.usr = request[w].usr,
         r.at \notin {"count", "list", "create", "commit_all"},
         r.op = "login" => r.at \notin {"lookup", "evict", "revoke_tx", "bar_read", "bar"}
  PROVE  LimitOK(r)
  BY DEF LimitOK, LimitInv

\* A change of the next call only.
LEMMA GotoLimit ==
  ASSUME Inv, LimitInv, NEW w \in Requests, NEW c, Goto(w, c), UNCHANGED <<tables, order>>,
         c \notin {"count", "list", "create", "commit_all"},
         request[w].op = "login" => c \notin {"lookup", "evict", "revoke_tx", "bar_read", "bar"}
  PROVE  LimitInv'
  <1> PICK r : r = [request[w] EXCEPT !.at = c]
    OBVIOUS
  <1>1. request' = [request EXCEPT ![w] = r]
    BY DEF Goto, Inv, TypeInv, TypeOK
  <1>2. r.op = request[w].op /\ r.usr = request[w].usr /\ r.at = c
    BY RecordParts DEF RequestRecords
  <1>3. LimitOK(r)
    BY <1>2, GoesOn
  <1>4. QED  BY <1>1, <1>3, QuietLimit

LEMMA FreeLimit ==
  ASSUME Inv, LimitInv, NEW w \in Requests, request' = [request EXCEPT ![w] = Free],
         UNCHANGED <<tables, order>>
  PROVE  LimitInv'
  <1>1. LimitOK(Free)
    BY DEF LimitOK, Free
  <1>2. QED  BY <1>1, QuietLimit

LEMMA EnterLimit ==
  ASSUME Inv, LimitInv, NEW w \in Requests, Enter(w)
  PROVE  LimitInv'
  <1>1. ASSUME NEW r, Begin(w, r), UNCHANGED <<tables, order>>,
               r.at \in {"count", "validate", "lookup", "close_all", "set_password"},
               r.op \in {"login", "logout_all", "password_change"} => r.usr \in Users,
               r.todo = {}, r.at = "lookup" => r.op # "login"
        PROVE  LimitInv'
    <2>1. LimitOK(r)
      BY <1>1 DEF LimitOK
    <2>2. QED  BY <1>1, <2>1, QuietLimit DEF Begin
  <1>2. \A t \in delivered : t \in Tokens /\ Owner[tokenSession[t]] \in Users
    BY OwnerAssumption DEF Inv, TypeInv, TypeOK, TablesTypeOK, Issued
  <1>3. ASSUME NEW u \in Users, BeginLogin(w, u) PROVE LimitInv'
    <2> PICK r : r = [Free EXCEPT !.op = "login", !.at = "count", !.usr = u]
      OBVIOUS
    <2>1. Begin(w, r) /\ UNCHANGED <<tables, order>>
      BY <1>3 DEF BeginLogin
    <2>2. r.at = "count" /\ r.usr = u /\ r.todo = {}
      BY DEF Free
    <2>3. QED  BY <1>1, <2>1, <2>2
  <1>4. ASSUME NEW t \in Tokens, BeginRefresh(w, t) PROVE LimitInv'
    <2> PICK r : r = [Free EXCEPT !.op = "refresh", !.at = "validate", !.tok = t]
      OBVIOUS
    <2>1. Begin(w, r) /\ UNCHANGED <<tables, order>>
      BY <1>4 DEF BeginRefresh
    <2>2. r.op = "refresh" /\ r.at = "validate" /\ r.todo = {}
      BY DEF Free
    <2>3. QED  BY <1>1, <2>1, <2>2
  <1>5. ASSUME NEW t \in Tokens, BeginLogout(w, t) PROVE LimitInv'
    <2> PICK r : r = [Free EXCEPT !.op = "logout", !.at = "lookup", !.tok = t,
                                   !.sid = tokenSession[t]]
      OBVIOUS
    <2>1. Begin(w, r) /\ UNCHANGED <<tables, order>>
      BY <1>5 DEF BeginLogout
    <2>2. r.op = "logout" /\ r.at = "lookup" /\ r.todo = {}
      BY DEF Free
    <2>3. QED  BY <1>1, <2>1, <2>2
  <1>6. ASSUME NEW t \in Tokens, BeginLogoutAll(w, t) PROVE LimitInv'
    <2> PICK r : r = [Free EXCEPT !.op = "logout_all", !.at = "close_all", !.tok = t,
                                   !.usr = Owner[tokenSession[t]]]
      OBVIOUS
    <2>1. Begin(w, r) /\ UNCHANGED <<tables, order>> /\ t \in delivered
      BY <1>6 DEF BeginLogoutAll
    <2>2. r.at = "close_all" /\ r.usr = Owner[tokenSession[t]] /\ r.todo = {}
      BY DEF Free
    <2>3. QED  BY <1>1, <1>2, <2>1, <2>2
  <1>7. ASSUME NEW t \in Tokens, BeginPasswordChange(w, t) PROVE LimitInv'
    <2> PICK r : r = [Free EXCEPT !.op = "password_change", !.at = "set_password",
                                   !.tok = t, !.usr = Owner[tokenSession[t]]]
      OBVIOUS
    <2>1. Begin(w, r) /\ UNCHANGED <<tables, order>> /\ t \in delivered
      BY <1>7 DEF BeginPasswordChange
    <2>2. r.at = "set_password" /\ r.usr = Owner[tokenSession[t]] /\ r.todo = {}
      BY DEF Free
    <2>3. QED  BY <1>1, <1>2, <2>1, <2>2
  <1>8. ASSUME NEW s \in Sessions, BeginRevoke(w, s) PROVE LimitInv'
    <2> PICK r : r = [Free EXCEPT !.op = "revoke", !.at = "lookup", !.sid = s]
      OBVIOUS
    <2>1. Begin(w, r) /\ UNCHANGED <<tables, order>>
      BY <1>8 DEF BeginRevoke
    <2>2. r.op = "revoke" /\ r.at = "lookup" /\ r.todo = {}
      BY DEF Free
    <2>3. QED  BY <1>1, <2>1, <2>2
  <1>9. QED  BY <1>3, <1>4, <1>5, <1>6, <1>7, <1>8 DEF Enter

-----------------------------------------------------------------------------
\* plan_session_limit_evictions: the quota is what is active above the limit,
\* counting the session to come.
LEMMA CountLimit ==
  ASSUME Inv, LimitInv, NEW w \in Requests, CountSessions(w)
  PROVE  LimitInv'
  <1> DEFINE A == ActiveOf(request[w].usr)
  <1> PICK n : n = Excess(Cardinality(A))
    OBVIOUS
  <1> PICK c : c = IF n = 0 THEN "create" ELSE "list"
    OBVIOUS
  <1> PICK r : r = [request[w] EXCEPT !.quota = n, !.at = c]
    OBVIOUS
  <1>1. /\ request' = [request EXCEPT ![w].quota = n,
                                      ![w].at = IF n = 0 THEN "create" ELSE "list"]
        /\ UNCHANGED <<tables, order>>
    BY DEF CountSessions
  <1>2. request' = [request EXCEPT ![w] = r]
    BY <1>1 DEF Inv, TypeInv, TypeOK
  <1>3. r.op = request[w].op /\ r.usr = request[w].usr /\ r.at = c /\ r.quota = n
        /\ r.todo = request[w].todo
    BY RecordParts DEF RequestRecords
  <1>4. request[w].op = "login" /\ request[w].todo = {}
    BY RecordParts DEF CountSessions, At, RecordOK, LimitInv, LimitOK
  <1>5. Cardinality(A) \in Nat
    BY FewActive
  <1>6. /\ n = 0 => Cardinality(A) < MaxSessions
        /\ n # 0 => Cardinality(A) < MaxSessions + n
    BY <1>5, ServiceAssumption DEF Excess
  <1>7. Remaining(r) \subseteq A /\ (n = 0 => Remaining(r) = A)
    BY <1>3, <1>4 DEF Remaining
  <1>8. LimitOK(r)
    BY <1>3, <1>4, <1>6, <1>7 DEF LimitOK, LimitInv
  <1>9. QED  BY <1>1, <1>2, <1>8, QuietLimit

\* The oldest sessions are as many as have to go.
LEMMA ListLimit ==
  ASSUME Inv, LimitInv, NEW w \in Requests, ListOldest(w)
  PROVE  LimitInv'
  <1> DEFINE A == ActiveOf(request[w].usr)
  <1> PICK n : n = request[w].quota
    OBVIOUS
  <1> PICK S : S = Oldest(n, A)
    OBVIOUS
  <1> PICK r : r = [request[w] EXCEPT !.todo = S, !.at = "evict"]
    OBVIOUS
  <1>1. /\ request' = [request EXCEPT ![w].todo = S, ![w].at = "evict"]
        /\ UNCHANGED <<tables, order>>
    BY DEF ListOldest
  <1>2. request' = [request EXCEPT ![w] = r]
    BY <1>1 DEF Inv, TypeInv, TypeOK
  <1>3. r.op = request[w].op /\ r.usr = request[w].usr /\ r.at = "evict" /\ r.todo = S
    BY RecordParts DEF RequestRecords
  <1>4. request[w].op = "login" /\ n \in Nat /\ Cardinality(A) < MaxSessions + n
    BY RecordParts DEF ListOldest, At, RecordOK, RequestRecords, LimitInv, LimitOK
  <1>5. Cardinality(A) \in Nat /\ Cardinality(A \ S) \in Nat
    BY FewActive, FewerActive
  <1>6. Cardinality(A \ S) + n <= Cardinality(A) \/ A \ S = {}
    <2>1. A \in SUBSET Sessions /\ \A s \in A : \E i \in 1..Len(order) : order[i] = s
      BY DEF ActiveOf, SessionsOf, LimitInv
    <2>2. order \in Seq(Sessions)
      BY DEF Inv, TypeInv, TypeOK
    <2> HIDE DEF A
    <2>3. QED  BY <1>4, <2>1, <2>2, AllButOldest
  <1>7. Cardinality(A \ S) < MaxSessions
    <2>1. CASE A \ S = {}
      BY <2>1, FS_EmptySet, ServiceAssumption
    <2>2. CASE Cardinality(A \ S) + n <= Cardinality(A)
      BY <1>4, <1>5, <2>2, ServiceAssumption
    <2>3. QED  BY <1>6, <2>1, <2>2
  <1>8. Remaining(r) = A \ S
    BY <1>3 DEF Remaining
  <1>9. LimitOK(r)
    BY <1>3, <1>4, <1>7, <1>8 DEF LimitOK, LimitInv
  <1>10. QED  BY <1>1, <1>2, <1>9, QuietLimit

\* A session that is skipped for want of a valid family is not active.
LEMMA EvictLimit ==
  ASSUME Inv, LimitInv, NEW w \in Requests, Evict(w)
  PROVE  LimitInv'
  <1> DEFINE A == ActiveOf(request[w].usr)
  <1>1. /\ request[w].op = "login" /\ request[w].at = "evict"
        /\ UNCHANGED <<tables, order>> /\ request[w].usr \in Users
        /\ Cardinality(A \ request[w].todo) < MaxSessions
    <2>1. request[w].op = "login" /\ request[w].at = "evict"
      BY RecordParts DEF Evict, At, RecordOK
    <2>2. Remaining(request[w]) = A \ request[w].todo
      BY <2>1 DEF Remaining
    <2>3. QED  BY <2>1, <2>2 DEF Evict, LimitInv, LimitOK
  <1>2. CASE request[w].todo = {} /\ Goto(w, "create")
    <2> PICK r : r = [request[w] EXCEPT !.at = "create"]
      OBVIOUS
    <2>1. request' = [request EXCEPT ![w] = r]
      BY <1>2 DEF Goto, Inv, TypeInv, TypeOK
    <2>2. r.op = "login" /\ r.usr = request[w].usr /\ r.at = "create" /\ r.todo = {}
      BY <1>1, <1>2, RecordParts DEF RequestRecords
    <2>3. Remaining(r) = A \ request[w].todo
      BY <1>2, <2>2 DEF Remaining
    <2>4. LimitOK(r)
      BY <1>1, <2>2, <2>3 DEF LimitOK
    <2>5. QED  BY <1>1, <2>1, <2>4, QuietLimit
  <1>3. ASSUME NEW s \in Oldest(1, request[w].todo),
               request' = [request EXCEPT
                 ![w].todo = @ \ {s}, ![w].sid = s,
                 ![w].at = IF family[s] = "valid" THEN "revoke_tx" ELSE "evict"]
        PROVE  LimitInv'
    <2> PICK c : c = IF family[s] = "valid" THEN "revoke_tx" ELSE "evict"
      OBVIOUS
    <2> PICK r : r = [request[w] EXCEPT !.todo = @ \ {s}, !.sid = s, !.at = c]
      OBVIOUS
    <2>1. request' = [request EXCEPT ![w] = r]
      BY <1>3 DEF Inv, TypeInv, TypeOK
    <2>2. r.op = "login" /\ r.usr = request[w].usr /\ r.at = c /\ r.sid = s
          /\ r.todo = request[w].todo \ {s}
      BY <1>1, RecordParts DEF RequestRecords
    <2>3. s \in request[w].todo /\ s \in Sessions
      BY RecordParts DEF Oldest
    <2>4. family[s] # "valid" => s \notin A
      BY <2>3 DEF LimitInv, ActiveOf
    <2>5. Remaining(r) = A \ request[w].todo
      BY <2>2, <2>3, <2>4 DEF Remaining
    <2>6. LimitOK(r)
      BY <1>1, <2>2, <2>5 DEF LimitOK
    <2>7. QED  BY <1>1, <2>1, <2>6, QuietLimit
  <1>4. QED  BY <1>2, <1>3 DEF Evict

\* A login has room for its session, and nobody else opens one for its user.
LEMMA CreateLimit ==
  ASSUME Inv, PunishInv, LimitInv, TurnsPerUser, NEW w \in Requests, NEW s \in Sessions,
         NEW t \in Tokens, CreateSession(w, s, t)
  PROVE  LimitInv'
  <1> PICK u : u = request[w].usr
    OBVIOUS
  <1> PICK r : r = request'[w]
    OBVIOUS
  <1>1. /\ request[w].op = "login" /\ u \in Users /\ Owner[s] = u /\ request[w].todo = {}
        /\ Cardinality(ActiveOf(u)) < MaxSessions
    <2>1. request[w].op = "login" /\ request[w].at = "create"
      BY RecordParts DEF CreateSession, At, RecordOK
    <2>2. LimitOK(request[w])
      BY DEF LimitInv
    <2>3. Remaining(request[w]) = ActiveOf(u)
      BY <2>1, <2>2 DEF Remaining, LimitOK
    <2>4. QED  BY <2>1, <2>2, <2>3 DEF LimitOK, CreateSession
  <1>2. /\ session' = [session EXCEPT ![s] = "active"]
        /\ family' = [family EXCEPT ![s] = "valid"]
        /\ sessionExpired' = sessionExpired
        /\ order' = Append(order, s) /\ session[s] = "absent"
    BY DEF CreateSession, CreateRows, expiry
  <1>3. /\ \A q \in Requests \ {w} : request'[q] = request[q]
        /\ r.op = "login" /\ r.at = "link_read" /\ r.usr = u
    BY <1>1, RecordParts DEF CreateSession, RequestRecords, Inv, TypeInv, TypeOK
  <1>4. ASSUME NEW x, x # u PROVE ActiveOf(x)' \subseteq ActiveOf(x)
    BY <1>1, <1>2, <1>4 DEF ActiveOf, SessionsOf, ActiveUnexpired, Inv, TypeInv, TypeOK,
                             TablesTypeOK
  <1>5. ActiveOf(u)' \subseteq ActiveOf(u) \cup {s}
    BY <1>2 DEF ActiveOf, SessionsOf, ActiveUnexpired, Inv, TypeInv, TypeOK, TablesTypeOK
  <1>6. SessionLimit'
    <2> SUFFICES ASSUME NEW x \in Users PROVE Cardinality(ActiveOf(x)') <= MaxSessions
      BY DEF SessionLimit
    <2>1. CASE x = u
      <3> DEFINE S == ActiveOf(u) \cup {s}
      <3>1. IsFiniteSet(ActiveOf(u)) /\ Cardinality(ActiveOf(u)) \in Nat
        BY FewActive
      <3>2. IsFiniteSet(S) /\ Cardinality(S) <= Cardinality(ActiveOf(u)) + 1
        <4> PICK A : A = ActiveOf(u)
          OBVIOUS
        <4>1. IsFiniteSet(A) /\ Cardinality(A) \in Nat /\ S = A \cup {s}
          BY <3>1
        <4>2. IsFiniteSet(A \cup {s})
              /\ Cardinality(A \cup {s}) = IF s \in A THEN Cardinality(A) ELSE Cardinality(A) + 1
          <5> HIDE DEF S
          <5>1. QED  BY <4>1, FS_AddElement
        <4>3. QED  BY <4>1, <4>2
      <3>3. /\ Cardinality(ActiveOf(u)') <= Cardinality(S)
            /\ Cardinality(ActiveOf(u)') \in Nat /\ Cardinality(S) \in Nat
        <4> HIDE DEF S
        <4>1. ActiveOf(u)' \subseteq S
          BY <1>5 DEF S
        <4>2. QED  BY <3>2, <4>1, FewerActive
      <3> HIDE DEF S
      <3>4. QED  BY <1>1, <2>1, <3>1, <3>2, <3>3, ServiceAssumption
    <2>2. CASE x # u
      <3>1. IsFiniteSet(ActiveOf(x)) /\ ActiveOf(x)' \subseteq ActiveOf(x)
        BY <1>4, <2>2, FewActive
      <3>2. /\ Cardinality(ActiveOf(x)') <= Cardinality(ActiveOf(x))
            /\ Cardinality(ActiveOf(x)') \in Nat /\ Cardinality(ActiveOf(x)) \in Nat
        BY <3>1, FewerActive
      <3>3. QED  BY <3>2, ServiceAssumption DEF LimitInv, SessionLimit
    <2>3. QED  BY <2>1, <2>2
  <1>7. \A q \in Sessions : ActiveUnexpired(q)' => family'[q] = "valid"
    BY <1>2 DEF LimitInv, ActiveUnexpired, Inv, TypeInv, TypeOK, TablesTypeOK
  <1>8. ASSUME NEW q \in Sessions, session'[q] # "absent"
        PROVE  \E i \in 1..Len(order') : order'[i] = q
    <2>1. order \in Seq(Sessions) /\ Len(order) \in Nat
      BY DEF Inv, TypeInv, TypeOK
    <2>2. /\ Len(order') = Len(order) + 1 /\ order'[Len(order) + 1] = s
          /\ \A i \in 1..Len(order) : order'[i] = order[i]
      BY <1>2, <2>1
    <2>3. CASE q = s
      BY <2>1, <2>2, <2>3
    <2>4. CASE q # s
      <3>1. session[q] # "absent"
        BY <1>2, <1>8, <2>4 DEF Inv, TypeInv, TypeOK, TablesTypeOK
      <3>2. PICK i \in 1..Len(order) : order[i] = q
        BY <3>1 DEF LimitInv
      <3>3. i \in 1..Len(order') /\ order'[i] = q
        BY <2>1, <2>2, <3>2
      <3>4. QED  BY <3>3
    <2>5. QED  BY <2>3, <2>4
  <1>9. ASSUME NEW q \in Requests \ {w} PROVE LimitOK(request[q])'
    <2> PICK y : y = request[q]
      OBVIOUS
    <2>1. LimitOK(y) /\ y.quota \in Nat /\ SameMoves(y, y)
      BY RecordParts DEF LimitInv, RequestRecords, SameMoves
    <2>2. y.usr # u
      BY <1>1, ServiceAssumption DEF TurnsPerUser
    <2>3. LimitOK(y)'
      BY <1>4, <2>1, <2>2, LimitKept
    <2>4. QED  BY <1>3, <2>3 DEF LimitOK, Remaining
  <1>10. LimitOK(request[w])'
    BY <1>1, <1>3 DEF LimitOK
  <1>11. \A q \in Requests : LimitOK(request[q])'
    BY <1>9, <1>10
  <1>12. QED  BY <1>6, <1>7, <1>8, <1>11 DEF LimitInv

-----------------------------------------------------------------------------
\* Steps of a request that write none of the tables.
LEMMA ReadLinkLimit ==
  ASSUME Inv, LimitInv, NEW w \in Requests, ReadLink(w)
  PROVE  LimitInv'
  <1> PICK t : /\ request' = [request EXCEPT ![w].read = t,
                                ![w].at = IF @ = "link_read" THEN "link" ELSE "bar"]
               /\ UNCHANGED <<tables, order>>
    BY DEF ReadLink
  <1> PICK c : c = IF request[w].at = "link_read" THEN "link" ELSE "bar"
    OBVIOUS
  <1> PICK r : r = [request[w] EXCEPT !.read = t, !.at = c]
    OBVIOUS
  <1>1. request' = [request EXCEPT ![w] = r]
    BY DEF Inv, TypeInv, TypeOK
  <1>2. /\ r.op = request[w].op /\ r.usr = request[w].usr /\ r.at = c
        /\ r.todo = request[w].todo
    BY RecordParts DEF RequestRecords
  <1>3. \/ request[w].at = "link_read" /\ c = "link"
        \/ request[w].at = "bar_read" /\ c = "bar"
    BY DEF ReadLink, At
  <1>4. LimitOK(r)
    BY <1>2, <1>3 DEF LimitInv, LimitOK, Remaining
  <1>5. QED  BY <1>1, <1>4, QuietLimit

LEMMA BlacklistLimit ==
  ASSUME Inv, LimitInv, NEW w \in Requests, BlacklistSession(w)
  PROVE  LimitInv'
  <1> PICK c : c = CASE request[w].op = "login" -> "evict"
                     [] request[w].op \in {"logout_all", "password_change"} -> "bar_next"
                     [] OTHER -> "answer"
    OBVIOUS
  <1> PICK r : r = [request[w] EXCEPT !.read = NoToken, !.at = c]
    OBVIOUS
  <1>1. request' = [request EXCEPT ![w] = r] /\ UNCHANGED <<tables, order>>
    BY DEF BlacklistSession, Inv, TypeInv, TypeOK
  <1>2. /\ r.op = request[w].op /\ r.usr = request[w].usr /\ r.at = c
        /\ r.todo = request[w].todo
    BY RecordParts DEF RequestRecords
  <1>3. CASE request[w].op = "login"
    <2>1. c = "evict" /\ Remaining(r) = Remaining(request[w])
      BY <1>2, <1>3 DEF Remaining, BlacklistSession, At
    <2>2. LimitOK(r)
      BY <1>2, <1>3, <2>1 DEF LimitInv, LimitOK, BlacklistSession, At
    <2>3. QED  BY <1>1, <2>2, QuietLimit
  <1>4. CASE request[w].op # "login"
    <2>1. c \in {"bar_next", "answer"}
      BY <1>4
    <2>2. LimitOK(r)
      BY <1>2, <2>1, GoesOn
    <2>3. QED  BY <1>1, <2>2, QuietLimit
  <1>5. QED  BY <1>3, <1>4

LEMMA ReadTokenLimit ==
  ASSUME Inv, LimitInv, NEW w \in Requests, ReadToken(w)
  PROVE  LimitInv'
  <1> PICK t : t = request[w].tok
    OBVIOUS
  <1> PICK c : c = IF Usable(t) /\ t \notin tokenExpired THEN "context"
                   ELSE IF t \in used THEN "replay" ELSE "answer"
    OBVIOUS
  <1> PICK r : r = [request[w] EXCEPT !.sid = tokenSession[t], !.at = c]
    OBVIOUS
  <1>1. request' = [request EXCEPT ![w] = r] /\ UNCHANGED <<tables, order>>
    BY DEF ReadToken, Inv, TypeInv, TypeOK
  <1>2. r.op = request[w].op /\ r.usr = request[w].usr /\ r.at = c
    BY RecordParts DEF RequestRecords
  <1>3. c \in {"context", "replay", "answer"}
    OBVIOUS
  <1>4. LimitOK(r)
    BY <1>2, <1>3, GoesOn
  <1>5. QED  BY <1>1, <1>4, QuietLimit

\* A login never looks a session up: it revokes what it evicts.
LEMMA MoveLimit ==
  ASSUME Inv, LimitInv, NEW w \in Requests,
         \/ LinkAccess(w) \/ ReadContext(w) \/ CheckIdle(w) \/ RotateRejected(w)
         \/ Lookup(w) \/ Answer(w) \/ NoIdLeft(w) \/ Fail(w)
  PROVE  LimitInv'
  <1>1. CASE LinkAccess(w)
    BY <1>1, GotoLimit DEF LinkAccess
  <1>2. CASE ReadContext(w)
    <2>1. /\ UNCHANGED <<tables, order>>
          /\ Goto(w, "check_idle") \/ Goto(w, "answer")
      BY <1>2 DEF ReadContext
    <2>2. QED  BY <2>1, GotoLimit
  <1>3. CASE CheckIdle(w)
    <2>1. /\ UNCHANGED <<tables, order>>
          /\ Goto(w, "lookup") \/ Goto(w, "rotate")
          /\ request[w].op = "refresh"
      BY <1>3, RecordParts DEF CheckIdle, At, RecordOK
    <2>2. QED  BY <2>1, GotoLimit
  <1>4. CASE RotateRejected(w)
    BY <1>4, GotoLimit, FreeLimit DEF RotateRejected
  <1>5. CASE Lookup(w)
    <2>1. UNCHANGED <<tables, order>> /\ request[w].op # "login"
      BY <1>5 DEF Lookup, At, LimitInv, LimitOK
    <2>2. \E c \in {"revoke_tx", "bar_read", "answer"} :
             Goto(w, c) \/ request' = [request EXCEPT ![w] = Free]
      BY <1>5 DEF Lookup
    <2>3. QED  BY <2>1, <2>2, GotoLimit, FreeLimit
  <1>6. CASE Answer(w) \/ NoIdLeft(w) \/ Fail(w)
    BY <1>6, FreeLimit DEF Answer, NoIdLeft, Fail
  <1>7. QED  BY <1>1, <1>2, <1>3, <1>4, <1>5, <1>6

\* revoke_all_user_sessions_tx closes the sessions that are active when it
\* looks: none is added before it commits.
LEMMA CloseAllLimit ==
  ASSUME Inv, PunishInv, LimitInv, NEW w \in Requests, CloseAll(w) \/ ListForBlacklist(w)
  PROVE  LimitInv'
  <1> PICK c : c = IF request[w].at = "close_all" THEN "commit_all" ELSE "bar_next"
    OBVIOUS
  <1> PICK S : S = ActiveOf(request[w].usr)
    OBVIOUS
  <1> PICK r : r = [request[w] EXCEPT !.todo = S, !.at = c]
    OBVIOUS
  <1>1. request' = [request EXCEPT ![w] = r] /\ UNCHANGED <<tables, order>>
    BY DEF CloseAll, ListForBlacklist, At, Inv, TypeInv, TypeOK
  <1>2. r.op = request[w].op /\ r.usr = request[w].usr /\ r.at = c /\ r.todo = S
    BY RecordParts DEF RequestRecords
  <1>3. request[w].op \in {"logout_all", "password_change"}
    BY DEF CloseAll, ListForBlacklist, At, PunishInv, PunishOK
  <1>4. LimitOK(r)
    BY <1>2, <1>3 DEF LimitInv, LimitOK
  <1>5. QED  BY <1>1, <1>4, QuietLimit

LEMMA NextForBlacklistLimit ==
  ASSUME Inv, PunishInv, LimitInv, NEW w \in Requests, NextForBlacklist(w)
  PROVE  LimitInv'
  <1>1. request[w].op \in {"logout_all", "password_change"} /\ UNCHANGED <<tables, order>>
    BY DEF NextForBlacklist, At, PunishInv, PunishOK
  <1>2. ASSUME NEW s \in Oldest(1, request[w].todo),
               request' = [request EXCEPT ![w].todo = @ \ {s}, ![w].sid = s,
                                          ![w].at = "bar_read"]
        PROVE  LimitInv'
    <2> PICK r : r = [request[w] EXCEPT !.todo = @ \ {s}, !.sid = s, !.at = "bar_read"]
      OBVIOUS
    <2>1. request' = [request EXCEPT ![w] = r]
      BY <1>2 DEF Inv, TypeInv, TypeOK
    <2>2. r.op = request[w].op /\ r.usr = request[w].usr /\ r.at = "bar_read"
      BY RecordParts DEF RequestRecords
    <2>3. LimitOK(r)
      BY <1>1, <2>2, GoesOn
    <2>4. QED  BY <1>1, <2>1, <2>3, QuietLimit
  <1>3. ASSUME request[w].todo = {},
               request' = [request EXCEPT ![w].op = "login", ![w].at = "count"]
        PROVE  LimitInv'
    <2> PICK r : r = [request[w] EXCEPT !.op = "login", !.at = "count"]
      OBVIOUS
    <2>1. request' = [request EXCEPT ![w] = r]
      BY <1>3 DEF Inv, TypeInv, TypeOK
    <2>2. r.op = "login" /\ r.usr = request[w].usr /\ r.at = "count" /\ r.todo = {}
      BY <1>3, RecordParts DEF RequestRecords
    <2>3. LimitOK(r)
      BY <1>1, <2>2 DEF LimitOK, LimitInv
    <2>4. QED  BY <1>1, <2>1, <2>3, QuietLimit
  <1>4. CASE Goto(w, "answer")
    BY <1>1, <1>4, GotoLimit
  <1>5. QED  BY <1>2, <1>3, <1>4 DEF NextForBlacklist

\* The other requests of the user learn that their password is stale.
LEMMA SetPasswordLimit ==
  ASSUME Inv, LimitInv, NEW w \in Requests, SetPassword(w)
  PROVE  LimitInv'
  <1> PICK r : r = [request[w] EXCEPT !.at = "close_all", !.stale = FALSE]
    OBVIOUS
  <1>1. /\ request[w].op = "password_change" /\ request'[w] = r /\ UNCHANGED <<tables, order>>
        /\ r.op = request[w].op /\ r.usr = request[w].usr /\ r.at = "close_all"
    BY RecordParts DEF SetPassword, At, RecordOK, RequestRecords
  <1>2. ASSUME NEW q \in Requests \ {w} PROVE SameMoves(request[q], request'[q])
    <2> PICK y : y = request[q]
      OBVIOUS
    <2> PICK b : b = (\/ y.stale
                      \/ y.usr = request[w].usr /\ y.op \in {"login", "password_change"})
      OBVIOUS
    <2>1. request'[q] = [y EXCEPT !.stale = b]
      BY DEF SetPassword
    <2>2. y \in RequestRecords
      BY RecordParts
    <2>3. QED  BY <2>1, <2>2 DEF SameMoves, RequestRecords
  <1>3. LimitOK(r)'
    <2>1. LimitOK(r)
      BY <1>1, GoesOn
    <2>2. QED  BY <1>1, <2>1 DEF LimitOK, Remaining, ActiveOf, SessionsOf, ActiveUnexpired,
                                 tables
  <1>4. LimitOK(request[w])'
    BY <1>1, <1>3 DEF LimitOK, Remaining
  <1>5. \A s \in Sessions : ActiveUnexpired(s)' => family'[s] = "valid"
    BY <1>1 DEF LimitInv, ActiveUnexpired, tables
  <1>6. QED  BY <1>1, <1>2, <1>4, <1>5, LimitStep DEF tables

-----------------------------------------------------------------------------
\* Steps that write the tables.
LEMMA RotateLimit ==
  ASSUME Inv, LimitInv, NEW w \in Requests, NEW n \in Tokens, Rotate(w, n)
  PROVE  LimitInv'
  <1> PICK r : r = [request[w] EXCEPT !.new = n, !.at = "link_read"]
    OBVIOUS
  <1>1. /\ request' = [request EXCEPT ![w] = r]
        /\ UNCHANGED <<session, sessionExpired, family, order>>
    BY DEF Rotate, RotateRows, expiry, Inv, TypeInv, TypeOK
  <1>2. r.op = request[w].op /\ r.usr = request[w].usr /\ r.at = "link_read"
    BY RecordParts DEF RequestRecords
  <1>3. LimitOK(r)
    BY <1>2, GoesOn
  <1>4. LimitOK(r)'
    BY <1>1, <1>3 DEF LimitOK, Remaining, ActiveOf, SessionsOf, ActiveUnexpired
  <1>5. request'[w] = r /\ \A q \in Requests \ {w} : SameMoves(request[q], request'[q])
    BY <1>1 DEF Inv, TypeInv, TypeOK, SameMoves
  <1>6. LimitOK(request[w])'
    BY <1>4, <1>5 DEF LimitOK, Remaining
  <1>7. \A s \in Sessions : ActiveUnexpired(s)' => family'[s] = "valid"
    BY <1>1 DEF LimitInv, ActiveUnexpired
  <1>8. QED  BY <1>1, <1>5, <1>6, <1>7, LimitStep

\* What revoking a session leaves active is what was active before without it.
LEMMA EndLimit ==
  ASSUME Inv, LimitInv, NEW w \in Requests, Replay(w) \/ Revoke(w)
  PROVE  LimitInv'
  <1> PICK x : x = request[w]
    OBVIOUS
  <1> PICK s : s = x.sid
    OBVIOUS
  <1> PICK r : r = [x EXCEPT !.at = "bar_read"]
    OBVIOUS
  <1>1. s \in Sessions /\ EndSession(s) /\ order' = order
    BY RecordParts DEF Replay, Revoke, At, RecordOK
  <1>2. request' = [request EXCEPT ![w] = r]
    BY DEF Replay, Revoke, Goto, Inv, TypeInv, TypeOK
  <1>3. /\ r.op = x.op /\ r.usr = x.usr /\ r.at = "bar_read" /\ r.todo = x.todo
        /\ r.sid = s
    BY RecordParts DEF RequestRecords
  <1>4. /\ sessionExpired' = sessionExpired
        /\ session' = [q \in Sessions |-> IF q = s /\ session[q] = "active"
                                          THEN "closed" ELSE session[q]]
        /\ family' = [q \in Sessions |-> IF q = s /\ family[q] = "valid"
                                         THEN "compromised" ELSE family[q]]
    BY <1>1 DEF EndSession, RevokeRows, expiry
  <1>5. \A q \in Sessions : ActiveUnexpired(q)' => family'[q] = "valid"
    BY <1>4 DEF LimitInv, ActiveUnexpired
  <1>6. request'[w] = r /\ \A q \in Requests \ {w} : SameMoves(request[q], request'[q])
    BY <1>2 DEF Inv, TypeInv, TypeOK, SameMoves
  <1>7. ActiveOf(x.usr)' \subseteq ActiveOf(x.usr) \ {s}
    BY <1>4 DEF ActiveOf, SessionsOf, ActiveUnexpired
  <1>8. x.op = "login" => Cardinality(Remaining(r)') < MaxSessions
    <2> SUFFICES ASSUME x.op = "login" PROVE Cardinality(Remaining(r)') < MaxSessions
      OBVIOUS
    <2>1. x.at = "revoke_tx" /\ Cardinality(Remaining(x)) < MaxSessions
      BY RecordParts DEF Replay, Revoke, At, RecordOK, LimitInv, LimitOK
    <2>2. Remaining(x) = ActiveOf(x.usr) \ (x.todo \cup {s})
      BY <2>1 DEF Remaining
    <2>3. Remaining(r)' = ActiveOf(x.usr)' \ x.todo
      BY <1>3 DEF Remaining
    <2> PICK A : A = Remaining(x)
      OBVIOUS
    <2> PICK B : B = Remaining(r)'
      OBVIOUS
    <2>4. B \subseteq A /\ A \subseteq ActiveOf(x.usr)
      BY <1>7, <2>2, <2>3
    <2>5. IsFiniteSet(A)
      BY <2>4, FewActive, FewerActive
    <2>6. Cardinality(B) <= Cardinality(A) /\ Cardinality(B) \in Nat /\ Cardinality(A) \in Nat
      BY <2>4, <2>5, FewerActive
    <2>7. QED  BY <2>1, <2>6, ServiceAssumption
  <1>9. LimitOK(r)'
    <2>1. x.op \in {"login", "logout_all", "password_change"} => x.usr \in Users
      BY DEF LimitInv, LimitOK
    <2>2. QED  BY <1>3, <1>8, <2>1 DEF LimitOK
  <1>10. LimitOK(request[w])'
    BY <1>6, <1>9 DEF LimitOK, Remaining
  <1>11. \A q \in Sessions : session'[q] # session[q] => session[q] # "absent" /\ session'[q] = "closed"
    BY <1>4
  <1>12. sessionExpired \subseteq sessionExpired'
    BY <1>4
  <1>13. QED  BY <1>1, <1>5, <1>6, <1>10, <1>11, <1>12, LimitStep

\* Every session of the user loses its family, and those that are active are
\* closed.
LEMMA CommitAllLimit ==
  ASSUME Inv, PunishInv, LimitInv, NEW w \in Requests, CommitAll(w)
  PROVE  LimitInv'
  <1> PICK x : x = request[w]
    OBVIOUS
  <1> PICK r : r = [x EXCEPT !.todo = {}, !.at = "bar_list"]
    OBVIOUS
  <1>1. request' = [request EXCEPT ![w] = r] /\ order' = order
    BY DEF CommitAll, Inv, TypeInv, TypeOK
  <1>2. /\ r.op = x.op /\ r.usr = x.usr /\ r.at = "bar_list" /\ r.todo = {}
        /\ x.op \in {"logout_all", "password_change"} /\ x.todo \subseteq SessionsOf(x.usr)
        /\ ActiveOf(x.usr) \subseteq x.todo
    BY RecordParts DEF RequestRecords, CommitAll, At, PunishInv, PunishOK, LimitInv, LimitOK
  <1>3. /\ sessionExpired' = sessionExpired
        /\ session' = [s \in Sessions |-> IF s \in x.todo THEN "closed" ELSE session[s]]
        /\ family' = [s \in Sessions |-> IF s \in SessionsOf(x.usr) /\ family[s] = "valid"
                                         THEN "compromised" ELSE family[s]]
    BY DEF CommitAll, RevokeRows, expiry, SessionsOf
  <1>4. \A s \in Sessions : ActiveUnexpired(s)' => family'[s] = "valid"
    BY <1>2, <1>3 DEF LimitInv, ActiveUnexpired, ActiveOf
  <1>5. request'[w] = r /\ \A q \in Requests \ {w} : SameMoves(request[q], request'[q])
    BY <1>1 DEF Inv, TypeInv, TypeOK, SameMoves
  <1>6. LimitOK(r)'
    <2>1. x.usr \in Users
      BY <1>2 DEF LimitInv, LimitOK
    <2>2. QED  BY <1>2, <2>1 DEF LimitOK
  <1>7. LimitOK(request[w])'
    BY <1>5, <1>6 DEF LimitOK, Remaining
  <1>8. /\ \A s \in Sessions : session'[s] # session[s] =>
             session[s] # "absent" /\ session'[s] = "closed"
        /\ sessionExpired \subseteq sessionExpired'
    BY <1>2, <1>3 DEF SessionsOf
  <1>9. QED  BY <1>1, <1>4, <1>5, <1>7, <1>8, LimitStep

-----------------------------------------------------------------------------
\* What only the clock does, and stuttering.
LEMMA StillLimit ==
  ASSUME Inv, LimitInv, UNCHANGED <<session, family, order, request>>,
         sessionExpired \subseteq sessionExpired'
  PROVE  LimitInv'
  <1>1. CASE Requests = {}
    <2>1. \A u \in Users : ActiveOf(u)' \subseteq ActiveOf(u)
      BY DEF ActiveOf, SessionsOf, ActiveUnexpired
    <2>2. SessionLimit'
      <3> SUFFICES ASSUME NEW u \in Users PROVE Cardinality(ActiveOf(u)') <= MaxSessions
        BY DEF SessionLimit
      <3>1. IsFiniteSet(ActiveOf(u)) /\ ActiveOf(u)' \subseteq ActiveOf(u)
        BY <2>1, FewActive
      <3>2. /\ Cardinality(ActiveOf(u)') <= Cardinality(ActiveOf(u))
            /\ Cardinality(ActiveOf(u)') \in Nat /\ Cardinality(ActiveOf(u)) \in Nat
        BY <3>1, FewerActive
      <3>3. QED  BY <3>2, ServiceAssumption DEF LimitInv, SessionLimit
    <2>3. QED  BY <1>1, <2>2 DEF LimitInv, ActiveUnexpired
  <1>2. ASSUME NEW w \in Requests PROVE LimitInv'
    <2>1. /\ ActiveOf(request[w].usr)' \subseteq ActiveOf(request[w].usr)
          /\ \A s \in Sessions : ActiveUnexpired(s)' => family'[s] = "valid"
      BY DEF ActiveOf, SessionsOf, ActiveUnexpired, LimitInv
    <2>2. LimitOK(request[w])'
      <3> PICK r : r = request[w]
        OBVIOUS
      <3>1. LimitOK(r) /\ r.quota \in Nat /\ SameMoves(r, r)
        BY RecordParts DEF LimitInv, RequestRecords, SameMoves
      <3>2. LimitOK(r)'
        BY <2>1, <3>1, LimitKept
      <3>3. QED  BY <3>2 DEF LimitOK, Remaining
    <2>3. \A q \in Requests \ {w} : SameMoves(request[q], request'[q])
      BY DEF SameMoves
    <2>4. QED  BY <2>1, <2>2, <2>3, LimitStep
  <1>3. QED  BY <1>1, <1>2

LEMMA StepLimit ==
  ASSUME Inv, PunishInv, LimitInv, TurnsPerUser, NEW w \in Requests, Step(w)
  PROVE  LimitInv'
  BY CountLimit, ListLimit, EvictLimit, CreateLimit, ReadLinkLimit, MoveLimit,
     ReadTokenLimit, RotateLimit, EndLimit, SetPasswordLimit, CloseAllLimit,
     CommitAllLimit, NextForBlacklistLimit, BlacklistLimit DEF Step

LEMMA NextLimit ==
  ASSUME Inv, PunishInv, LimitInv, TurnsPerUser, [Next]_vars
  PROVE  LimitInv'
  <1>1. ASSUME NEW w \in Requests, Enter(w) \/ Step(w) \/ Fail(w)
        PROVE  LimitInv'
    BY <1>1, EnterLimit, StepLimit, MoveLimit
  <1>2. CASE Expire
    <2>1. /\ UNCHANGED <<session, family, order, request>>
          /\ sessionExpired \subseteq sessionExpired'
      BY <1>2 DEF Expire, ExpireSession, ExpireToken
    <2>2. QED  BY <2>1, StillLimit
  <1>3. CASE UNCHANGED <<tables, order, request>>
    BY <1>3, StillLimit DEF tables
  <1>4. QED  BY <1>1, <1>2, <1>3 DEF Next, GoIdle, vars

LEMMA InitLimit == Init => LimitInv
  <1> SUFFICES ASSUME Init PROVE LimitInv
    OBVIOUS
  <1>1. \A u \in Users : ActiveOf(u) = {}
    BY DEF Init, TablesInit, ActiveOf, SessionsOf
  <1>2. SessionLimit
    <2>1. Cardinality({}) = 0
      BY FS_EmptySet
    <2>2. QED  BY <1>1, <2>1, ServiceAssumption DEF SessionLimit
  <1>3. \A w \in Requests : LimitOK(request[w])
    BY DEF Init, LimitOK, Free
  <1>4. QED  BY <1>2, <1>3 DEF LimitInv, Init, TablesInit, ActiveUnexpired

\* If the logins, logout-alls and password changes of each user take turns,
\* no user ever has more active sessions than max_active_sessions, whatever
\* refreshes, logouts and revocations run meanwhile and whatever fails.
THEOREM SessionLimitInTurns == Spec /\ []TurnsPerUser => []SessionLimit
  <1>1. Spec => []PunishInv
    BY InvAlways, InitPunish, NextPunish, PTL DEF Spec
  <1>2. Spec /\ []TurnsPerUser => []LimitInv
    BY <1>1, InvAlways, InitLimit, NextLimit, PTL DEF Spec
  <1>3. LimitInv => SessionLimit
    BY DEF LimitInv
  <1>4. QED  BY <1>2, <1>3, PTL

-----------------------------------------------------------------------------
(***************************************************************************)
(* What a step of a request leaves alone.                                  *)
(***************************************************************************)
\* Requests whose next step is awaited: nothing but their password is
\* changed under them.
SameRequest(r, x) ==
    /\ r.op = x.op /\ r.at = x.at /\ r.usr = x.usr /\ r.sid = x.sid
    /\ r.tok = x.tok /\ r.new = x.new /\ r.read = x.read

LEMMA OtherRequests ==
  ASSUME Inv, NEW w \in Requests, Enter(w) \/ Step(w) \/ Fail(w)
  PROVE  /\ \A q \in Requests \ {w} : SameRequest(request[q], request'[q])
         /\ ~SetPassword(w) => \A q \in Requests \ {w} : request'[q] = request[q]
  <1>1. CASE SetPassword(w)
    <2>1. ASSUME NEW q \in Requests \ {w} PROVE SameRequest(request[q], request'[q])
      <3> PICK y : y = request[q]
        OBVIOUS
      <3> PICK b : b = (\/ y.stale
                        \/ y.usr = request[w].usr /\ y.op \in {"login", "password_change"})
        OBVIOUS
      <3>1. request'[q] = [y EXCEPT !.stale = b]
        BY <1>1 DEF SetPassword
      <3>2. y \in RequestRecords
        BY RecordParts
      <3>3. QED  BY <3>1, <3>2 DEF SameRequest, RequestRecords
    <2>2. QED  BY <1>1, <2>1
  <1>2. CASE ~SetPassword(w)
    <2>1. \E r : request' = [request EXCEPT ![w] = r]
      <3>1. CASE Enter(w) \/ Fail(w)
        BY <3>1 DEF Enter, Fail, Begin, BeginLogin, BeginRefresh, BeginLogout, BeginRevoke,
                    BeginLogoutAll, BeginPasswordChange
      <3>2. CASE CountSessions(w) \/ ListOldest(w) \/ Evict(w)
        BY <3>2 DEF CountSessions, ListOldest, Evict, Goto
      <3>3. ASSUME NEW s \in Sessions, NEW t \in Tokens, CreateSession(w, s, t)
            PROVE  \E r : request' = [request EXCEPT ![w] = r]
        BY <3>3 DEF CreateSession
      <3>9. ASSUME NEW t \in Tokens, Rotate(w, t)
            PROVE  \E r : request' = [request EXCEPT ![w] = r]
        BY <3>9 DEF Rotate
      <3>4. CASE ReadLink(w) \/ LinkAccess(w) \/ BlacklistSession(w)
        BY <3>4 DEF ReadLink, LinkAccess, BlacklistSession, Goto
      <3>5. CASE ReadToken(w) \/ ReadContext(w) \/ CheckIdle(w)
        BY <3>5 DEF ReadToken, ReadContext, CheckIdle, Goto
      <3>6. CASE RotateRejected(w) \/ Replay(w) \/ Lookup(w) \/ Revoke(w)
        BY <3>6 DEF RotateRejected, Replay, Lookup, Revoke, Goto
      <3>7. CASE CloseAll(w) \/ CommitAll(w) \/ ListForBlacklist(w) \/ NextForBlacklist(w)
        BY <3>7 DEF CloseAll, CommitAll, ListForBlacklist, NextForBlacklist, Goto
      <3>8. CASE Answer(w) \/ NoIdLeft(w)
        BY <3>8 DEF Answer, NoIdLeft
      <3>10. QED  BY <1>2, <3>1, <3>2, <3>3, <3>4, <3>5, <3>6, <3>7, <3>8, <3>9 DEF Step
    <2>2. \A q \in Requests \ {w} : request'[q] = request[q]
      BY <2>1 DEF Inv, TypeInv, TypeOK
    <2>3. QED  BY <2>2 DEF SameRequest
  <1>3. QED  BY <1>1, <1>2

\* Rows stay, sessions never become active again, and tokens keep their
\* session.
RowsKept ==
    /\ \A s \in Sessions : session[s] # "absent" =>
         session'[s] # "absent" /\ (ActiveUnexpired(s)' => ActiveUnexpired(s))
    /\ \A t \in Issued : t \in Issued' /\ tokenSession'[t] = tokenSession[t]

LEMMA TablesKeepRows ==
  ASSUME UNCHANGED tables
  PROVE  RowsKept
  BY DEF RowsKept, ActiveUnexpired, Issued, tables

LEMMA RevokingKeepsRows ==
  ASSUME Inv, NEW C, NEW F, NEW R, RevokeRows(C, F, R)
  PROVE  RowsKept
  BY DEF RowsKept, RevokeRows, expiry, ActiveUnexpired, Issued

LEMMA NextKeepsRows ==
  ASSUME Inv, [Next]_vars
  PROVE  RowsKept
  <1>1. ASSUME NEW w \in Requests, Step(w) PROVE RowsKept
    <2>1. ASSUME NEW s \in Sessions, NEW t \in Tokens, CreateSession(w, s, t) PROVE RowsKept
      BY <2>1 DEF CreateSession, CreateRows, expiry, RowsKept, ActiveUnexpired, Issued,
                  Inv, TypeInv, TypeOK, TablesTypeOK
    <2>2. ASSUME NEW n \in Tokens, Rotate(w, n) PROVE RowsKept
      <3>1. /\ UNCHANGED <<session, sessionExpired>> /\ n \notin Issued
            /\ tokenSession' = [tokenSession EXCEPT ![n] = tokenSession[request[w].tok]]
        BY <2>2 DEF Rotate, RotateRows, expiry
      <3>2. QED  BY <3>1 DEF RowsKept, ActiveUnexpired, Issued, Inv, TypeInv, TypeOK,
                             TablesTypeOK
    <2>3. CASE Replay(w) \/ Revoke(w)
      BY <2>3, RevokingKeepsRows DEF Replay, Revoke, EndSession
    <2>4. CASE CommitAll(w)
      BY <2>4, RevokingKeepsRows DEF CommitAll
    <2>5. CASE UNCHANGED tables
      BY <2>5, TablesKeepRows
    <2>6. CASE CountSessions(w) \/ ListOldest(w) \/ Evict(w) \/ ReadLink(w) \/ LinkAccess(w)
               \/ BlacklistSession(w) \/ ReadToken(w) \/ ReadContext(w) \/ CheckIdle(w)
      BY <2>5, <2>6 DEF CountSessions, ListOldest, Evict, ReadLink, LinkAccess,
         BlacklistSession, ReadToken, ReadContext, CheckIdle
    <2>7. CASE RotateRejected(w) \/ Lookup(w) \/ SetPassword(w) \/ CloseAll(w) \/ Answer(w)
               \/ ListForBlacklist(w) \/ NextForBlacklist(w) \/ NoIdLeft(w)
      BY <2>5, <2>7 DEF RotateRejected, Lookup, SetPassword, CloseAll, Answer,
         ListForBlacklist, NextForBlacklist, NoIdLeft
    <2>8. QED  BY <1>1, <2>1, <2>2, <2>3, <2>4, <2>6, <2>7 DEF Step
  <1>2. ASSUME NEW w \in Requests, Enter(w) \/ Fail(w) PROVE RowsKept
    BY <1>2, TablesKeepRows DEF Enter, Fail, BeginLogin, BeginRefresh, BeginLogout,
       BeginRevoke, BeginLogoutAll, BeginPasswordChange
  <1>3. CASE Expire
    BY <1>3 DEF Expire, ExpireSession, ExpireToken, RowsKept, ActiveUnexpired, Issued
  <1>4. CASE UNCHANGED vars \/ \E s \in Sessions : GoIdle(s)
    BY <1>4, TablesKeepRows DEF vars, GoIdle
  <1>5. QED  BY <1>1, <1>2, <1>3, <1>4 DEF Next

-----------------------------------------------------------------------------
(***************************************************************************)
(* A password change ends the sessions opened with the old password.       *)
(***************************************************************************)
\* A password change of user u that still has to close its sessions.
Closing(u) ==
    \E w \in Requests :
       request[w].op = "password_change" /\ request[w].usr = u
         /\ request[w].at \in {"close_all", "commit_all"}

\* No login goes on with a password replaced meanwhile, and as long as a
\* relic is active the change that made it one has it still to close.
RelicInv ==
    /\ \A w \in Requests : request[w].stale = FALSE
    /\ \A s \in relics : session[s] # "absent" /\ (ActiveUnexpired(s) => Closing(Owner[s]))

LEMMA NotStale ==
  ASSUME Inv, NEW w \in Requests, Enter(w) \/ Step(w) \/ Fail(w), request[w].stale = FALSE
  PROVE  request'[w].stale = FALSE
  <1> USE DEF Inv, TypeInv, TypeOK, RequestRecords
  <1>1. Free \in RequestRecords /\ Free.stale = FALSE
    BY FreeType DEF Free
  <1>2. ASSUME request' = [request EXCEPT ![w] = Free] PROVE request'[w].stale = FALSE
    BY <1>1, <1>2
  <1>3. ASSUME NEW c, Goto(w, c) PROVE request'[w].stale = FALSE
    BY <1>3 DEF Goto
  <1>4. CASE Enter(w)
    <2>1. ASSUME NEW u \in Users, BeginLogin(w, u) PROVE request'[w].stale = FALSE
      BY <1>1, <2>1 DEF BeginLogin, Begin
    <2>2. ASSUME NEW t \in Tokens, BeginRefresh(w, t) PROVE request'[w].stale = FALSE
      BY <1>1, <2>2 DEF BeginRefresh, Begin
    <2>3. ASSUME NEW t \in Tokens, BeginLogout(w, t) PROVE request'[w].stale = FALSE
      BY <1>1, <2>3 DEF BeginLogout, Begin
    <2>4. ASSUME NEW t \in Tokens, BeginLogoutAll(w, t) PROVE request'[w].stale = FALSE
      BY <1>1, <2>4 DEF BeginLogoutAll, Begin
    <2>5. ASSUME NEW t \in Tokens, BeginPasswordChange(w, t) PROVE request'[w].stale = FALSE
      BY <1>1, <2>5 DEF BeginPasswordChange, Begin
    <2>6. ASSUME NEW s \in Sessions, BeginRevoke(w, s) PROVE request'[w].stale = FALSE
      BY <1>1, <2>6 DEF BeginRevoke, Begin
    <2>7. QED  BY <1>4, <2>1, <2>2, <2>3, <2>4, <2>5, <2>6 DEF Enter
  <1>5. CASE CountSessions(w) \/ ListOldest(w)
    <2>1. CASE CountSessions(w)
      BY <2>1 DEF CountSessions
    <2>2. CASE ListOldest(w)
      BY <2>2 DEF ListOldest
    <2>3. QED  BY <1>5, <2>1, <2>2
  <1>6. CASE Evict(w)
    <2>1. ASSUME NEW s \in Oldest(1, request[w].todo),
                 request' = [request EXCEPT
                   ![w].todo = @ \ {s}, ![w].sid = s,
                   ![w].at = IF family[s] = "valid" THEN "revoke_tx" ELSE "evict"]
          PROVE  request'[w].stale = FALSE
      BY <2>1
    <2>2. QED  BY <1>3, <1>6, <2>1 DEF Evict
  <1>7. ASSUME NEW s \in Sessions, NEW t \in Tokens, CreateSession(w, s, t)
        PROVE  request'[w].stale = FALSE
    BY <1>7 DEF CreateSession
  <1>8. ASSUME NEW n \in Tokens, Rotate(w, n) PROVE request'[w].stale = FALSE
    BY <1>8 DEF Rotate
  <1>9. CASE ReadLink(w)
    BY <1>9 DEF ReadLink
  <1>10. CASE BlacklistSession(w)
    BY <1>10 DEF BlacklistSession
  <1>11. CASE ReadToken(w) \/ CloseAll(w) \/ CommitAll(w) \/ ListForBlacklist(w)
    <2>1. CASE ReadToken(w)
      BY <2>1 DEF ReadToken
    <2>2. CASE CloseAll(w)
      BY <2>2 DEF CloseAll
    <2>3. CASE CommitAll(w)
      BY <2>3 DEF CommitAll
    <2>4. CASE ListForBlacklist(w)
      BY <2>4 DEF ListForBlacklist
    <2>5. QED  BY <1>11, <2>1, <2>2, <2>3, <2>4
  <1>12. CASE LinkAccess(w) \/ ReadContext(w) \/ CheckIdle(w) \/ RotateRejected(w)
              \/ Replay(w) \/ Lookup(w) \/ Revoke(w)
    BY <1>2, <1>3, <1>12
       DEF LinkAccess, ReadContext, CheckIdle, RotateRejected, Replay, Lookup, Revoke
  <1>13. CASE NextForBlacklist(w)
    <2>1. ASSUME NEW s \in Oldest(1, request[w].todo),
                 request' = [request EXCEPT ![w].todo = @ \ {s}, ![w].sid = s,
                                            ![w].at = "bar_read"]
          PROVE  request'[w].stale = FALSE
      BY <2>1
    <2>2. CASE request' = [request EXCEPT ![w].op = "login", ![w].at = "count"]
      BY <2>2
    <2>3. QED  BY <1>3, <1>13, <2>1, <2>2 DEF NextForBlacklist
  <1>14. CASE SetPassword(w)
    BY <1>14 DEF SetPassword
  <1>15. CASE Answer(w) \/ NoIdLeft(w) \/ Fail(w)
    BY <1>2, <1>15 DEF Answer, NoIdLeft, Fail
  <1>16. QED
    BY <1>4, <1>5, <1>6, <1>7, <1>8, <1>9, <1>10, <1>11, <1>12, <1>13, <1>14, <1>15 DEF Step

\* Only these two calls take a password change from what it has to close.
LEMMA ClosingCalls ==
  ASSUME NEW w \in Requests, Enter(w) \/ Step(w),
         request[w].at \in {"close_all", "commit_all"}
  PROVE  CloseAll(w) \/ CommitAll(w)
  <1>1. request[w] # Free
    BY DEF Free
  <1>2. ~Enter(w)
    BY <1>1 DEF Enter, Begin, BeginLogin, BeginRefresh, BeginLogout, BeginRevoke,
           BeginLogoutAll, BeginPasswordChange
  <1>3. QED
    BY <1>2 DEF Step, At, CountSessions, ListOldest, Evict, CreateSession, ReadLink,
       LinkAccess, ReadToken, ReadContext, CheckIdle, RotateRejected, Rotate, Replay,
       Lookup, Revoke, SetPassword, ListForBlacklist, NextForBlacklist, BlacklistSession,
       Answer, NoIdLeft

\* relics are only written by the steps that make them.
LEMMA RelicsKept ==
  ASSUME NEW w \in Requests, RelicInv, Enter(w) \/ Step(w) \/ Fail(w), ~SetPassword(w)
  PROVE  relics' = relics
  <1>1. CASE Enter(w) \/ Fail(w)
    BY <1>1 DEF Enter, Fail, BeginLogin, BeginRefresh, BeginLogout, BeginRevoke,
                BeginLogoutAll, BeginPasswordChange, history
  <1>2. ASSUME NEW s \in Sessions, NEW t \in Tokens, CreateSession(w, s, t)
        PROVE  relics' = relics
    BY <1>2 DEF CreateSession, RelicInv
  <1>3. CASE \/ CountSessions(w) \/ ListOldest(w) \/ Evict(w) \/ ReadLink(w) \/ LinkAccess(w)
             \/ BlacklistSession(w) \/ ReadToken(w) \/ ReadContext(w) \/ CheckIdle(w)
    BY <1>3 DEF CountSessions, ListOldest, Evict, ReadLink, LinkAccess,
       BlacklistSession, ReadToken, ReadContext, CheckIdle, history
  <1>4. CASE \/ RotateRejected(w) \/ (\E n \in Tokens : Rotate(w, n)) \/ Replay(w)
             \/ Lookup(w) \/ Revoke(w) \/ CloseAll(w) \/ CommitAll(w)
             \/ ListForBlacklist(w) \/ NextForBlacklist(w) \/ Answer(w) \/ NoIdLeft(w)
    BY <1>4 DEF RotateRejected, Rotate, Replay, Lookup, Revoke, CloseAll, CommitAll,
       ListForBlacklist, NextForBlacklist, Answer, NoIdLeft, history
  <1>5. QED  BY <1>1, <1>2, <1>3, <1>4 DEF Step

\* A relic that is still active is of a user whose change goes on.
LEMMA CommitAllCloses ==
  ASSUME Inv, PunishInv, LimitInv, NEW w \in Requests, CommitAll(w), NEW s \in Sessions,
         session[s] # "absent", Owner[s] = request[w].usr
  PROVE  ~ActiveUnexpired(s)'
  <1>1. ActiveOf(request[w].usr) \subseteq request[w].todo
    BY DEF CommitAll, At, LimitInv, LimitOK
  <1>2. /\ session' = [q \in Sessions |-> IF q \in request[w].todo THEN "closed" ELSE session[q]]
        /\ sessionExpired' = sessionExpired
    BY DEF CommitAll, RevokeRows, expiry
  <1>3. QED  BY <1>1, <1>2 DEF ActiveUnexpired, ActiveOf, SessionsOf

LEMMA StepRelic ==
  ASSUME "request_fails" \notin Events, Inv, PunishInv, LimitInv, RelicInv, TurnsPerUser,
         RowsKept, NEW w \in Requests, Enter(w) \/ Step(w) \/ Fail(w)
  PROVE  RelicInv'
  <1> PICK u : u = request[w].usr
    OBVIOUS
  <1>1. Enter(w) \/ Step(w)
    BY DEF Fail
  <1>2. \A q \in Requests \ {w} : SameRequest(request[q], request'[q])
    BY OtherRequests
  <1>3. request'[w].stale = FALSE
    BY NotStale DEF RelicInv
  <1>4. relics \subseteq Sessions
    BY DEF Inv, TypeInv, TypeOK
  <1>5. CASE SetPassword(w)
    <2>1. request[w].op = "password_change" /\ u \in Users
      BY <1>5, RecordParts DEF SetPassword, At, RecordOK, LimitInv, LimitOK
    <2>2. ASSUME NEW q \in Requests \ {w} PROVE request'[q].stale = FALSE
      <3> PICK y : y = request[q]
        OBVIOUS
      <3> PICK b : b = (\/ y.stale
                        \/ y.usr = request[w].usr /\ y.op \in {"login", "password_change"})
        OBVIOUS
      <3>1. request'[q] = [y EXCEPT !.stale = b] /\ y \in RequestRecords
        BY <1>5, RecordParts DEF SetPassword
      <3>2. b = FALSE
        BY <2>1, ServiceAssumption DEF TurnsPerUser, RelicInv
      <3>3. QED  BY <3>1, <3>2 DEF RequestRecords
    <2>3. /\ request'[w].op = "password_change" /\ request'[w].usr = u
          /\ request'[w].at = "close_all"
      BY <1>5, <2>1, RecordParts DEF SetPassword, RequestRecords
    <2>4. UNCHANGED tables /\ relics' = relics \cup SessionsOf(u)
      BY <1>5 DEF SetPassword
    <2>5. ASSUME NEW s \in relics'
          PROVE  session'[s] # "absent" /\ (ActiveUnexpired(s)' => Closing(Owner[s])')
      <3>1. CASE Owner[s] = u
        <4>1. Closing(Owner[s])'
          BY <2>3, <3>1 DEF Closing
        <4>2. session[s] # "absent"
          BY <2>4 DEF RelicInv, SessionsOf
        <4>3. QED  BY <2>4, <4>1, <4>2 DEF tables
      <3>2. CASE Owner[s] # u
        <4>1. s \in relics /\ session[s] # "absent"
          BY <2>4, <3>2 DEF RelicInv, SessionsOf
        <4>2. ActiveUnexpired(s)' => Closing(Owner[s])
          BY <2>4, <4>1 DEF RelicInv, ActiveUnexpired, tables
        <4>3. Closing(Owner[s]) => Closing(Owner[s])'
          BY <1>2, <3>2 DEF Closing, SameRequest
        <4>4. QED  BY <2>4, <4>1, <4>2, <4>3 DEF tables
      <3>3. QED  BY <3>1, <3>2
    <2>6. QED  BY <1>3, <2>2, <2>5 DEF RelicInv
  <1>6. CASE ~SetPassword(w)
    <2>1. \A q \in Requests \ {w} : request'[q] = request[q]
      BY <1>6, OtherRequests
    <2>2. relics' = relics
      BY <1>6, RelicsKept
    <2>3. ASSUME NEW s \in relics, ActiveUnexpired(s)'
          PROVE  Closing(Owner[s])'
      <3>1. s \in Sessions /\ session[s] # "absent" /\ ActiveUnexpired(s)
        BY <1>4, <2>3 DEF RelicInv, RowsKept
      <3> PICK q \in Requests : /\ request[q].op = "password_change"
                                /\ request[q].usr = Owner[s]
                                /\ request[q].at \in {"close_all", "commit_all"}
        BY <3>1 DEF RelicInv, Closing
      <3>2. CASE q # w
        BY <2>1, <3>2 DEF Closing
      <3>3. CASE q = w
        <4>1. CloseAll(w)
          BY <1>1, <2>3, <3>1, <3>3, ClosingCalls, CommitAllCloses
        <4>2. /\ request'[w].op = request[w].op /\ request'[w].usr = request[w].usr
              /\ request'[w].at = "commit_all"
          BY <4>1, RecordParts DEF CloseAll, RequestRecords, Inv, TypeInv, TypeOK
        <4>3. QED  BY <3>3, <4>2 DEF Closing
      <3>4. QED  BY <3>2, <3>3
    <2>4. \A s \in relics : session'[s] # "absent"
      BY <1>4 DEF RelicInv, RowsKept
    <2>5. \A q \in Requests : request'[q].stale = FALSE
      BY <1>3, <2>1 DEF RelicInv
    <2>6. QED  BY <2>2, <2>3, <2>4, <2>5 DEF RelicInv
  <1>7. QED  BY <1>5, <1>6

LEMMA NextRelic ==
  ASSUME "request_fails" \notin Events, Inv, PunishInv, LimitInv, RelicInv, TurnsPerUser,
         [Next]_vars
  PROVE  RelicInv'
  <1>1. RowsKept
    BY NextKeepsRows
  <1>2. ASSUME NEW w \in Requests, Enter(w) \/ Step(w) \/ Fail(w)
        PROVE  RelicInv'
    BY <1>1, <1>2, StepRelic
  <1>3. CASE UNCHANGED <<request, relics>>
    BY <1>1, <1>3 DEF RelicInv, RowsKept, Closing, Inv, TypeInv, TypeOK
  <1>4. QED  BY <1>2, <1>3 DEF Next, Expire, GoIdle, history, vars

\* If the logins, logout-alls and password changes of each user take turns
\* and none of them breaks off half way, then whenever no password change is
\* running no session opened with a replaced password is active, whatever
\* refreshes, logouts and revocations run meanwhile.
THEOREM PasswordChangeInTurns ==
  ASSUME "request_fails" \notin Events
  PROVE  Spec /\ []TurnsPerUser => []PasswordChangeEndsOldSessions
  <1>1. Spec => []PunishInv
    BY InvAlways, InitPunish, NextPunish, PTL DEF Spec
  <1>2. Spec /\ []TurnsPerUser => []LimitInv
    BY <1>1, InvAlways, InitLimit, NextLimit, PTL DEF Spec
  <1>3. Init => RelicInv
    BY DEF Init, Free, RelicInv
  <1>4. Spec /\ []TurnsPerUser => []RelicInv
    BY <1>1, <1>2, <1>3, InvAlways, NextRelic, PTL DEF Spec
  <1>5. RelicInv => PasswordChangeEndsOldSessions
    BY DEF RelicInv, PasswordChangeEndsOldSessions, Closing
  <1>6. QED  BY <1>4, <1>5, PTL

-----------------------------------------------------------------------------
(***************************************************************************)
(* One live access token per session.                                      *)
(***************************************************************************)
\* What a request knows between reading a mapping and writing it.
LinkOK(r) ==
    /\ r.at \in {"link", "bar"} => r.read = link[r.sid]
    /\ r.at \in {"link_read", "link"} => tokenSession[r.new] = r.sid

LinkInv ==
    /\ \A t \in linked : Draft(t) \in barred \/ link[tokenSession[t]] = t
    /\ \A w \in Requests : LinkOK(request[w])

LEMMA QuietLink ==
  ASSUME Inv, LinkInv, RowsKept, NEW w \in Requests, UNCHANGED <<link, linked>>,
         barred \subseteq barred', LinkOK(request[w])',
         \A q \in Requests \ {w} : SameRequest(request[q], request'[q])
  PROVE  LinkInv'
  <1>1. \A t \in linked : Draft(t)' \in barred' \/ link'[tokenSession'[t]] = t
    BY DEF LinkInv, RowsKept, Inv, TypeInv, TypeOK, Draft
  <1>2. ASSUME NEW q \in Requests \ {w} PROVE LinkOK(request[q])'
    <2>1. LinkOK(request[q]) /\ SameRequest(request[q], request'[q])
      BY DEF LinkInv
    <2>2. request[q].at \in {"link_read", "link"} => request[q].new \in Issued
      BY RecordParts DEF RecordOK
    <2>3. QED  BY <2>1, <2>2 DEF LinkOK, SameRequest, RowsKept
  <1>3. QED  BY <1>1, <1>2 DEF LinkInv

\* Which calls bring a request to the bridge.
LEMMA NotLinking ==
  ASSUME Inv, NEW w \in Requests, Enter(w) \/ Step(w) \/ Fail(w), ~ReadLink(w),
         ~\E s \in Sessions, t \in Tokens : CreateSession(w, s, t),
         ~\E n \in Tokens : Rotate(w, n)
  PROVE  request'[w].at \notin {"link_read", "link", "bar"}
  <1> DEFINE Elsewhere == request'[w].at \notin {"link_read", "link", "bar"}
  <1> USE DEF Inv, TypeInv, TypeOK, RequestRecords
  <1>1. Free \in RequestRecords /\ Free.at = "none"
    BY FreeType DEF Free
  <1>2. ASSUME request' = [request EXCEPT ![w] = Free] PROVE Elsewhere
    BY <1>1, <1>2
  <1>3. ASSUME NEW c, Goto(w, c), c \notin {"link_read", "link", "bar"} PROVE Elsewhere
    BY <1>3 DEF Goto
  <1>4. CASE Enter(w)
    <2>1. ASSUME NEW u \in Users, BeginLogin(w, u) PROVE Elsewhere
      BY <1>1, <2>1 DEF BeginLogin, Begin
    <2>2. ASSUME NEW t \in Tokens, BeginRefresh(w, t) PROVE Elsewhere
      BY <1>1, <2>2 DEF BeginRefresh, Begin
    <2>3. ASSUME NEW t \in Tokens, BeginLogout(w, t) PROVE Elsewhere
      BY <1>1, <2>3 DEF BeginLogout, Begin
    <2>4. ASSUME NEW t \in Tokens, BeginLogoutAll(w, t) PROVE Elsewhere
      BY <1>1, <2>4 DEF BeginLogoutAll, Begin
    <2>5. ASSUME NEW t \in Tokens, BeginPasswordChange(w, t) PROVE Elsewhere
      BY <1>1, <2>5 DEF BeginPasswordChange, Begin
    <2>6. ASSUME NEW s \in Sessions, BeginRevoke(w, s) PROVE Elsewhere
      BY <1>1, <2>6 DEF BeginRevoke, Begin
    <2>7. QED  BY <1>4, <2>1, <2>2, <2>3, <2>4, <2>5, <2>6 DEF Enter
  <1>5. CASE CountSessions(w)
    BY <1>5 DEF CountSessions
  <1>6. CASE ListOldest(w)
    BY <1>6 DEF ListOldest
  <1>7. CASE Evict(w)
    <2>1. ASSUME NEW s \in Oldest(1, request[w].todo),
                 request' = [request EXCEPT
                   ![w].todo = @ \ {s}, ![w].sid = s,
                   ![w].at = IF family[s] = "valid" THEN "revoke_tx" ELSE "evict"]
          PROVE  Elsewhere
      BY <2>1
    <2>2. QED  BY <1>3, <1>7, <2>1 DEF Evict
  <1>8. CASE ReadToken(w)
    BY <1>8 DEF ReadToken
  <1>9. CASE BlacklistSession(w)
    BY <1>9 DEF BlacklistSession
  <1>10. CASE CloseAll(w)
    BY <1>10 DEF CloseAll
  <1>11. CASE CommitAll(w)
    BY <1>11 DEF CommitAll
  <1>12. CASE ListForBlacklist(w)
    BY <1>12 DEF ListForBlacklist
  <1>13. CASE NextForBlacklist(w)
    <2>1. ASSUME NEW s \in Oldest(1, request[w].todo),
                 request' = [request EXCEPT ![w].todo = @ \ {s}, ![w].sid = s,
                                            ![w].at = "bar_read"]
          PROVE  Elsewhere
      BY <2>1
    <2>2. CASE request' = [request EXCEPT ![w].op = "login", ![w].at = "count"]
      BY <2>2
    <2>3. QED  BY <1>3, <1>13, <2>1, <2>2 DEF NextForBlacklist
  <1>14. CASE SetPassword(w)
    BY <1>14 DEF SetPassword
  <1>15. CASE LinkAccess(w) \/ Replay(w) \/ Revoke(w)
    BY <1>3, <1>15 DEF LinkAccess, Replay, Revoke
  <1>16. CASE ReadContext(w)
    <2>1. Goto(w, "check_idle") \/ Goto(w, "answer")
      BY <1>16 DEF ReadContext
    <2>2. QED  BY <1>3, <2>1
  <1>17. CASE CheckIdle(w)
    <2>1. Goto(w, "lookup") \/ Goto(w, "rotate")
      BY <1>17 DEF CheckIdle
    <2>2. QED  BY <1>3, <2>1
  <1>18. CASE RotateRejected(w) \/ Lookup(w)
    BY <1>2, <1>3, <1>18 DEF RotateRejected, Lookup
  <1>19. CASE Answer(w) \/ NoIdLeft(w) \/ Fail(w)
    BY <1>2, <1>19 DEF Answer, NoIdLeft, Fail
  <1>20. QED
    BY <1>4, <1>5, <1>6, <1>7, <1>8, <1>9, <1>10, <1>11, <1>12, <1>13, <1>14, <1>15,
       <1>16, <1>17, <1>18, <1>19 DEF Step

\* Everything but the bridge leaves the mapping alone, and nothing is taken
\* off the blacklist.
LEMMA MappingStays ==
  ASSUME "redis_fails" \notin Events, NEW w \in Requests, Enter(w) \/ Step(w) \/ Fail(w),
         ~LinkAccess(w), ~BlacklistSession(w)
  PROVE  UNCHANGED <<link, linked>> /\ barred \subseteq barred'
  <1>1. CASE Enter(w) \/ Fail(w)
    BY <1>1 DEF Enter, Fail, BeginLogin, BeginRefresh, BeginLogout, BeginRevoke,
                BeginLogoutAll, BeginPasswordChange, redis, history, Written
  <1>2. CASE \/ CountSessions(w) \/ ListOldest(w) \/ Evict(w) \/ ReadLink(w)
             \/ (\E s \in Sessions, t \in Tokens : CreateSession(w, s, t))
             \/ ReadToken(w) \/ ReadContext(w) \/ CheckIdle(w)
    BY <1>2 DEF CountSessions, ListOldest, Evict, ReadLink, CreateSession,
       ReadToken, ReadContext, CheckIdle, redis, history
  <1>3. CASE \/ RotateRejected(w) \/ (\E n \in Tokens : Rotate(w, n)) \/ Replay(w)
             \/ Lookup(w) \/ Revoke(w) \/ CloseAll(w) \/ CommitAll(w)
             \/ ListForBlacklist(w) \/ NextForBlacklist(w) \/ NoIdLeft(w)
    BY <1>3 DEF RotateRejected, Rotate, Replay, Lookup, Revoke, CloseAll, CommitAll,
       ListForBlacklist, NextForBlacklist, NoIdLeft, redis, history
  <1>4. CASE SetPassword(w) \/ Answer(w)
    BY <1>4 DEF SetPassword, Answer, history, Written
  <1>5. QED  BY <1>1, <1>2, <1>3, <1>4 DEF Step

\* The bridge writes the mapping of one session.
LEMMA WriteLink ==
  ASSUME Inv, LinkInv, RowsKept, TurnsPerLink, NEW w \in Requests,
         request[w].at \in {"link", "bar"}, NEW s \in Sessions, request[w].sid = s,
         NEW t \in Tokens \cup {NoToken}, link' = [link EXCEPT ![s] = t],
         link[s] \in {NoToken, t} \/ Draft(link[s]) \in barred',
         linked' = linked \cup ({t} \ {NoToken}), t # NoToken => tokenSession'[t] = s,
         barred \subseteq barred', request'[w].at \notin {"link_read", "link", "bar"},
         \A q \in Requests \ {w} : SameRequest(request[q], request'[q])
  PROVE  LinkInv'
  <1>1. ASSUME NEW x \in linked' PROVE Draft(x) \in barred' \/ link'[tokenSession'[x]] = x
    <2>1. CASE x = t
      <3>1. t # NoToken
        BY <1>1, <2>1, NullAssumption DEF Inv, TypeInv, TypeOK, Issued
      <3>2. link'[s] = t
        BY DEF Inv, TypeInv, TypeOK
      <3>3. QED  BY <2>1, <3>1, <3>2
    <2>2. CASE x # t
      <3>1. x \in linked /\ x \in Issued /\ x \in Tokens /\ tokenSession'[x] = tokenSession[x]
            /\ tokenSession[x] \in Sessions
        BY <1>1, <2>2 DEF Inv, TypeInv, TypeOK, TablesTypeOK, RowsKept, Issued
      <3>2. Draft(x) \in barred \/ link[tokenSession[x]] = x
        BY <3>1 DEF LinkInv
      <3>3. CASE tokenSession[x] = s /\ link[s] = x
        BY <2>2, <3>1, <3>3, NullAssumption
      <3>4. QED  BY <3>1, <3>2, <3>3 DEF Inv, TypeInv, TypeOK
    <2>3. QED  BY <2>1, <2>2
  <1>2. ASSUME NEW q \in Requests PROVE LinkOK(request[q])'
    <2>1. CASE q = w
      BY <2>1 DEF LinkOK
    <2>2. CASE q # w
      <3>1. LinkOK(request[q]) /\ SameRequest(request[q], request'[q])
        BY <2>2 DEF LinkInv
      <3>2. request[q].at \in {"link_read", "link"} => request[q].new \in Issued
        BY RecordParts DEF RecordOK
      <3>3. request[q].at \in {"link", "bar"} => request[q].sid # s
        BY <2>2 DEF TurnsPerLink
      <3>4. request[q].at \in {"link", "bar"} => link'[request[q].sid] = link[request[q].sid]
        BY <3>3, RecordParts DEF RecordOK, Inv, TypeInv, TypeOK
      <3>5. QED  BY <3>1, <3>2, <3>4 DEF LinkOK, SameRequest, RowsKept
    <2>3. QED  BY <2>1, <2>2
  <1>3. QED  BY <1>1, <1>2 DEF LinkInv, Draft

LEMMA LinkAccessLink ==
  ASSUME "redis_fails" \notin Events, Inv, LinkInv, RowsKept, TurnsPerLink,
         NEW w \in Requests, LinkAccess(w)
  PROVE  LinkInv'
  <1> PICK r : r = request[w]
    OBVIOUS
  <1>1. /\ r.at = "link" /\ r.sid \in Sessions /\ r.new \in Issued /\ r.new \in Tokens
        /\ r.read = link[r.sid] /\ tokenSession[r.new] = r.sid
    BY RecordParts DEF LinkAccess, At, RecordOK, LinkInv, LinkOK, Issued
  <1>2. /\ barred' = barred \cup {Draft(t) : t \in {r.read} \ {NoToken, r.new}}
        /\ link' = [link EXCEPT ![r.sid] = r.new]
        /\ linked' = linked \cup {t \in {r.new} : link'[r.sid] = t}
    BY DEF LinkAccess, Written
  <1>3. linked' = linked \cup ({r.new} \ {NoToken}) /\ r.new # NoToken
    BY <1>1, <1>2, NullAssumption DEF Inv, TypeInv, TypeOK
  <1>4. tokenSession'[r.new] = r.sid
    BY <1>1 DEF RowsKept
  <1>5. Step(w)
    BY DEF Step
  <1>6. /\ request'[w].at \notin {"link_read", "link", "bar"}
        /\ \A q \in Requests \ {w} : SameRequest(request[q], request'[q])
    <2>1. request'[w].at = "answer"
      BY RecordParts DEF LinkAccess, Goto, RequestRecords, Inv, TypeInv, TypeOK
    <2>2. QED  BY <1>5, <2>1, OtherRequests
  <1>7. link[r.sid] \in {NoToken, r.new} \/ Draft(link[r.sid]) \in barred'
    BY <1>1, <1>2
  <1>8. QED  BY <1>1, <1>2, <1>3, <1>4, <1>6, <1>7, WriteLink

LEMMA BlacklistLink ==
  ASSUME "redis_fails" \notin Events, Inv, LinkInv, RowsKept, TurnsPerLink,
         NEW w \in Requests, BlacklistSession(w)
  PROVE  LinkInv'
  <1> PICK r : r = request[w]
    OBVIOUS
  <1>1. r.at = "bar" /\ r.sid \in Sessions /\ r.read = link[r.sid]
    BY RecordParts DEF BlacklistSession, At, RecordOK, LinkInv, LinkOK
  <1>2. Step(w)
    BY DEF Step
  <1>3. linked' = linked
    BY DEF BlacklistSession, history
  <1>4. /\ request'[w].at \notin {"link_read", "link", "bar"}
        /\ \A q \in Requests \ {w} : SameRequest(request[q], request'[q])
    <2>1. request'[w].at \in {"evict", "bar_next", "answer"}
      BY RecordParts DEF BlacklistSession, RequestRecords, Inv, TypeInv, TypeOK
    <2>2. QED  BY <1>2, <2>1, OtherRequests
  <1>5. CASE r.read = NoToken
    <2>1. UNCHANGED <<link, barred>>
      BY <1>5 DEF BlacklistSession, redis
    <2>2. LinkOK(request[w])'
      BY <1>4 DEF LinkOK
    <2>3. QED  BY <1>3, <1>4, <2>1, <2>2, QuietLink
  <1>6. CASE r.read # NoToken
    <2>1. /\ barred' = barred \cup {Draft(r.read)}
          /\ link' = [link EXCEPT ![r.sid] = NoToken]
      BY <1>6 DEF BlacklistSession, Written
    <2>2. linked' = linked \cup ({NoToken} \ {NoToken})
      BY <1>3
    <2>3. barred \subseteq barred' /\ Draft(link[r.sid]) \in barred'
      BY <1>1, <2>1
    <2>4. QED  BY <1>1, <1>4, <2>1, <2>2, <2>3, WriteLink
  <1>7. QED  BY <1>5, <1>6

LEMMA StepLink ==
  ASSUME "redis_fails" \notin Events, Inv, PunishInv, LinkInv, RowsKept, TurnsPerLink,
         NEW w \in Requests, Enter(w) \/ Step(w) \/ Fail(w)
  PROVE  LinkInv'
  <1> PICK r : r = request[w]
    OBVIOUS
  <1>1. CASE LinkAccess(w)
    BY <1>1, LinkAccessLink
  <1>2. CASE BlacklistSession(w)
    BY <1>2, BlacklistLink
  <1>3. CASE ~LinkAccess(w) /\ ~BlacklistSession(w)
    <2>1. UNCHANGED <<link, linked>> /\ barred \subseteq barred'
      BY <1>3, MappingStays
    <2>2. ASSUME LinkOK(request[w])' PROVE LinkInv'
      BY <2>1, <2>2, OtherRequests, QuietLink
    <2>3. ASSUME NEW s \in Sessions, NEW t \in Tokens, CreateSession(w, s, t)
          PROVE  LinkInv'
      <3>1. request'[w].at = "link_read" /\ request'[w].new = t /\ request'[w].sid = s
        BY <2>3, RecordParts DEF CreateSession, RequestRecords, Inv, TypeInv, TypeOK
      <3>2. tokenSession'[t] = s
        BY <2>3 DEF CreateSession, CreateRows, Inv, TypeInv, TypeOK, TablesTypeOK
      <3>3. QED  BY <2>2, <3>1, <3>2 DEF LinkOK
    <2>4. ASSUME NEW n \in Tokens, Rotate(w, n) PROVE LinkInv'
      <3>1. request'[w].at = "link_read" /\ request'[w].new = n /\ request'[w].sid = r.sid
        BY <2>4, RecordParts DEF Rotate, RequestRecords, Inv, TypeInv, TypeOK
      <3>2. r.sid = tokenSession[r.tok]
        BY <2>4, RecordParts DEF Rotate, At, RecordOK, PunishInv, PunishOK
      <3>3. tokenSession'[n] = r.sid
        BY <2>4, <3>2 DEF Rotate, RotateRows, Inv, TypeInv, TypeOK, TablesTypeOK
      <3>4. QED  BY <2>2, <3>1, <3>3 DEF LinkOK
    <2>5. CASE ReadLink(w)
      <3> PICK c : c = IF r.at = "link_read" THEN "link" ELSE "bar"
        OBVIOUS
      <3>1. request' = [request EXCEPT ![w].read = link[r.sid], ![w].at = c]
        BY <2>5 DEF ReadLink, Read, Inv, TypeInv, TypeOK
      <3>2. /\ request'[w].at = c /\ request'[w].new = r.new /\ request'[w].sid = r.sid
            /\ request'[w].read = link[r.sid] /\ UNCHANGED tokenSession
        BY <2>5, <3>1, RecordParts DEF RequestRecords, Inv, TypeInv, TypeOK, ReadLink, tables
      <3>3. c = "link" => tokenSession[r.new] = r.sid
        BY DEF LinkInv, LinkOK
      <3>4. QED  BY <2>1, <2>2, <3>2, <3>3 DEF LinkOK
    <2>6. CASE /\ ~ReadLink(w)
               /\ ~\E s \in Sessions, t \in Tokens : CreateSession(w, s, t)
               /\ ~\E n \in Tokens : Rotate(w, n)
      <3>1. request'[w].at \notin {"link_read", "link", "bar"}
        BY <2>6, NotLinking
      <3>2. QED  BY <2>2, <3>1 DEF LinkOK
    <2>7. QED  BY <2>3, <2>4, <2>5, <2>6
  <1>4. QED  BY <1>1, <1>2, <1>3

LEMMA NextLink ==
  ASSUME "redis_fails" \notin Events, Inv, PunishInv, LinkInv, TurnsPerLink, [Next]_vars
  PROVE  LinkInv'
  <1>1. RowsKept
    BY NextKeepsRows
  <1>2. ASSUME NEW w \in Requests, Enter(w) \/ Step(w) \/ Fail(w)
        PROVE  LinkInv'
    BY <1>1, <1>2, StepLink
  <1>3. CASE UNCHANGED <<request, redis, linked>>
    <2>1. \A w \in Requests : LinkOK(request[w])'
      <3> SUFFICES ASSUME NEW w \in Requests PROVE LinkOK(request[w])'
        OBVIOUS
      <3>1. request[w].at \in {"link_read", "link"} => request[w].new \in Issued
        BY RecordParts DEF RecordOK
      <3>2. QED  BY <1>1, <1>3, <3>1 DEF LinkInv, LinkOK, RowsKept, redis
    <2>2. \A t \in linked' : Draft(t) \in barred' \/ link'[tokenSession'[t]] = t
      BY <1>1, <1>3 DEF LinkInv, RowsKept, redis, Inv, TypeInv, TypeOK
    <2>3. QED  BY <2>1, <2>2 DEF LinkInv, Draft
  <1>4. QED  BY <1>2, <1>3 DEF Next, Expire, GoIdle, history, vars

\* As long as Redis answers and no two requests are between reading and
\* writing the mapping of the same session, refreshes and logins leave no
\* second live access token behind: every draft ever linked is blacklisted
\* or the one its session maps to, at rest and while requests run.
THEOREM OneLinkedAccessInTurns ==
  ASSUME "redis_fails" \notin Events
  PROVE  Spec /\ []TurnsPerLink => []OneLinkedAccess
  <1>1. Spec => []PunishInv
    BY InvAlways, InitPunish, NextPunish, PTL DEF Spec
  <1>2. Init => LinkInv
    BY DEF Init, Free, LinkInv, LinkOK
  <1>3. Spec /\ []TurnsPerLink => []LinkInv
    BY <1>1, <1>2, InvAlways, NextLink, PTL DEF Spec
  <1>4. LinkInv => OneLinkedAccess
    BY DEF LinkInv, OneLinkedAccess
  <1>5. QED  BY <1>3, <1>4, PTL
=============================================================================
