---------------------------- MODULE RequestProofs ----------------------------
(* What a request may do twice or cross with another: the sessions of an      *)
(* account, the codes of a phone, the bookings of the portal; for any number of *)
(* accounts, sessions, requests, phones, codes, keys and appointments.        *)
EXTENDS Sessions, Otp, Portal, FiniteSetTheorems, TLAPS

(* The sessions                                                               *)

EndedStates == {"rotatedNow", "rotated", "revoked", "purged"}

(* A row that was never written has no account; every other one has. *)
RowsHaveUsers ==
    \A s \in SessionIds :
        /\ session[s].state = "none" => session[s].user = NoSession
        /\ session[s].state # "none" => session[s].user \in Users

(* A session that was rotated is never continued again. *)
ParentsAreSpent ==
    \A s \in SessionIds :
        session[s].parent # NoSession => session[session[s].parent].state \in EndedStates

(* The lock of a row: its rotation is the only one, and nobody else ends the session. *)
ClaimsAreExclusive ==
    /\ \A r \in AuthRequests : authReq[r].at = "claimed" => Unrevoked(authReq[r].on)
    /\ \A q, r \in AuthRequests :
         q # r /\ authReq[q].at = "claimed" /\ authReq[r].at = "claimed"
         => authReq[q].on # authReq[r].on

(* What a request has read of the table and still counts on. *)
SessionKnows ==
    \A r \in AuthRequests :
        /\ authReq[r].at # "idle" => authReq[r].user \in Users
        /\ authReq[r].at \in {"refresh", "claimed", "close"} =>
              /\ authReq[r].on \in SessionIds
              /\ session[authReq[r].on].user = authReq[r].user
        /\ authReq[r].at = "login" =>
              authReq[r].overlap \/ authReq[r].saw = cuts[authReq[r].user]
        /\ authReq[r].at = "revoking" /\ authReq[r].keep # NoSession =>
              /\ session[authReq[r].keep].user = authReq[r].user
              /\ authReq[r].why = "change"

(* A revocation under way misses only what it keeps and what raced with it. *)
RevocationSees ==
    \A r \in AuthRequests : \A s \in SessionIds :
        authReq[r].at = "revoking" /\ Unrevoked(s) /\ session[s].user \in Reached(r) =>
            s \in authReq[r].rows \/ s = authReq[r].keep \/ s \in raced

(* RevocationReaches, of the expired sessions too: a rotation may hold one. *)
UnrevokedIsCurrent ==
    \A s \in SessionIds :
        Unrevoked(s) => s \in raced \/ born[s] = cuts[session[s].user]

SessionsInv ==
    /\ SessionsTypeOK
    /\ RowsHaveUsers
    /\ ParentsAreSpent
    /\ ClaimsAreExclusive
    /\ SessionKnows
    /\ RevocationSees
    /\ RefreshIsSingleUse
    /\ UnrevokedIsCurrent

(* No session was issued at the start. *)
LEMMA InitSessionsInv == SessionsInit => SessionsInv
  BY SessionsAssumption
  DEF SessionsInit, SessionsInv, SessionsTypeOK, SessionRows, SessionStates, AuthCalls, Quiet,
      RowsHaveUsers, ParentsAreSpent, ClaimsAreExclusive, SessionKnows, RevocationSees,
      RefreshIsSingleUse, UnrevokedIsCurrent, Unrevoked

(* A step of one request that writes no session. *)
LEMMA RequestMoves ==
    ASSUME SessionsInv, NEW r \in AuthRequests, NEW q \in AuthCalls,
           authReq' = [authReq EXCEPT ![r] = q], UNCHANGED <<session, cuts, born, raced>>,
           account' \in [Users -> [active : BOOLEAN, failures : Nat, reset : BOOLEAN]],
           q.at # "idle" => q.user \in Users,
           q.at \in {"refresh", "claimed", "close"} =>
              q.on \in SessionIds /\ session[q.on].user = q.user,
           q.at = "claimed" => Unrevoked(q.on) /\ ~RowLocked(q.on),
           q.at = "login" => q.saw = cuts[q.user],
           q.at = "revoking" =>
              /\ q.keep # NoSession => session[q.keep].user = q.user /\ q.why = "change"
              /\ \A s \in SessionIds :
                    Unrevoked(s) /\ session[s].user \in Reached(r)' => s \in q.rows \/ s = q.keep
    PROVE  SessionsInv'
<1> USE DEF SessionsInv
<1>0. authReq'[r] = q /\ \A p \in AuthRequests \ {r} : authReq'[p] = authReq[p]
  BY DEF SessionsTypeOK
<1>1. SessionsTypeOK'
  BY DEF SessionsTypeOK
<1>2. RowsHaveUsers' /\ ParentsAreSpent' /\ RefreshIsSingleUse' /\ UnrevokedIsCurrent'
  BY DEF RowsHaveUsers, ParentsAreSpent, RefreshIsSingleUse, UnrevokedIsCurrent, Unrevoked
<1>3. ClaimsAreExclusive'
  BY <1>0 DEF ClaimsAreExclusive, Unrevoked, RowLocked
<1>4. SessionKnows'
  BY <1>0 DEF SessionKnows
<1>5. RevocationSees'
  <2> SUFFICES ASSUME NEW p \in AuthRequests, NEW s \in SessionIds, authReq'[p].at = "revoking",
                      Unrevoked(s)', session[s].user \in Reached(p)'
               PROVE  s \in authReq'[p].rows \/ s = authReq'[p].keep \/ s \in raced
    BY DEF RevocationSees
  <2>1. Unrevoked(s)
    BY DEF Unrevoked
  <2>2. CASE p = r
    BY <1>0, <2>1, <2>2
  <2>3. CASE p # r
    <3>1. authReq'[p] = authReq[p] /\ Reached(p)' = Reached(p)
      BY <1>0, <2>3 DEF Reached
    <3>2. QED
      BY <3>1, <2>1 DEF RevocationSees
  <2>4. QED
    BY <2>2, <2>3
<1>6. QED
  BY <1>1, <1>2, <1>3, <1>4, <1>5

(* A step that takes a row towards its end, and perhaps ends a request. *)
LEMMA RowMovesOn ==
    ASSUME SessionsInv, NEW s \in SessionIds, NEW x \in SessionStates,
           session' = [session EXCEPT ![s].state = x],
           \A q \in AuthRequests : authReq'[q] \in {authReq[q], Quiet},
           authReq' \in [AuthRequests -> AuthCalls],
           UNCHANGED <<account, cuts, born, raced>>,
           session[s].state = "none" <=> x = "none",
           x \in {"live", "expired"} => Unrevoked(s),
           session[s].state \in EndedStates => x \in EndedStates,
           RowLocked(s) => x \in {"live", "expired"}
    PROVE  SessionsInv'
<1> USE DEF SessionsInv
<1>0. /\ \A t \in SessionIds : /\ session'[t].user = session[t].user
                               /\ session'[t].parent = session[t].parent
                               /\ Unrevoked(t)' => Unrevoked(t)
                               /\ session[t].state \in EndedStates => session'[t].state \in EndedStates
                               /\ session'[t].state = "none" <=> session[t].state = "none"
      /\ \A t \in SessionIds : RowLocked(t) /\ Unrevoked(t) => Unrevoked(t)'
  BY DEF SessionsTypeOK, SessionRows, Unrevoked, EndedStates
<1>1. SessionsTypeOK'
  BY DEF SessionsTypeOK, SessionRows
<1>2. RowsHaveUsers' /\ RefreshIsSingleUse'
  BY <1>0 DEF RowsHaveUsers, RefreshIsSingleUse
<1>3. ParentsAreSpent'
  BY <1>0 DEF ParentsAreSpent, SessionsTypeOK, SessionRows
<1>4. UnrevokedIsCurrent'
  BY <1>0 DEF UnrevokedIsCurrent
<1>5. \A q \in AuthRequests : authReq'[q].at = "idle" \/ authReq'[q] = authReq[q]
  BY DEF Quiet
<1>6. ClaimsAreExclusive'
  BY <1>0, <1>5 DEF ClaimsAreExclusive, SessionKnows, RowLocked
<1>7. SessionKnows'
  <2> SUFFICES ASSUME NEW q \in AuthRequests, authReq'[q] = authReq[q], authReq'[q].at # "idle"
               PROVE  SessionKnows!(q)'
    BY <1>5 DEF SessionKnows
  <2>1. QED
    BY <1>0, SessionsAssumption DEF SessionKnows, SessionsTypeOK, AuthCalls
<1>8. RevocationSees'
  BY <1>0, <1>5 DEF RevocationSees, Reached
<1>9. QED
  BY <1>1, <1>2, <1>3, <1>4, <1>6, <1>7, <1>8

(* A session is opened: nobody holds its row yet, and whoever revokes sees it as raced. *)
LEMMA SessionOpens ==
    ASSUME SessionsInv, NEW r \in AuthRequests, NEW s \in SessionIds, NEW u \in Users,
           NEW from \in SessionIds \cup {NoSession},
           authReq[r].at \in {"login", "claimed"}, authReq[r].user = u,
           authReq[r].at = "claimed" => from = authReq[r].on,
           authReq[r].at = "login" => from = NoSession,
           session[s].state = "none",
           \A t \in SessionIds : session'[t] =
              IF t = s THEN [user |-> u, state |-> "live", parent |-> from]
              ELSE IF t = from THEN [session[t] EXCEPT !.state = "rotatedNow"]
              ELSE session[t],
           session' \in [SessionIds -> SessionRows],
           account' \in [Users -> [active : BOOLEAN, failures : Nat, reset : BOOLEAN]],
           \E n \in Nat :
              /\ born' = [born EXCEPT ![s] = n]
              /\ n = cuts[u] \/ s \in raced',
           raced' = raced \/ raced' = raced \cup {s},
           Overlapped(r) => s \in raced',
           Finish(r), cuts' = cuts
    PROVE  SessionsInv'
<1> USE DEF SessionsInv
<1>0. /\ \A p \in AuthRequests : authReq'[p] = IF p = r THEN Quiet ELSE authReq[p]
      /\ \A p \in AuthRequests \ {r} : Reached(p)' = Reached(p)
      /\ Quiet \in AuthCalls /\ Quiet.at = "idle"
  BY DEF Finish, SessionsTypeOK, Quiet, AuthCalls, Reached
<1>1. SessionsTypeOK'
  <2>1. authReq' \in [AuthRequests -> AuthCalls]
    BY <1>0 DEF Finish, SessionsTypeOK
  <2>2. born' \in [SessionIds -> Nat] /\ cuts' \in [Users -> Nat] /\ raced' \subseteq SessionIds
    BY DEF SessionsTypeOK
  <2>3. QED
    BY <2>1, <2>2 DEF SessionsTypeOK
<1>2. /\ from # s
      /\ from # NoSession => /\ from \in SessionIds /\ Unrevoked(from) /\ RowLocked(from)
                             /\ session[from].user = u
  <2>1. CASE authReq[r].at = "login"
    BY <2>1, SessionsAssumption
  <2>2. CASE authReq[r].at = "claimed"
    BY <2>2 DEF SessionKnows, ClaimsAreExclusive, Unrevoked, RowLocked
  <2>3. QED
    BY <2>1, <2>2
<1>3. \A t \in SessionIds \ {s} :
        /\ session'[t].user = session[t].user /\ session'[t].parent = session[t].parent
        /\ Unrevoked(t)' <=> Unrevoked(t) /\ t # from
        /\ session[t].state \in EndedStates => session'[t].state \in EndedStates
        /\ session'[t].state = "none" <=> session[t].state = "none"
  <2> SUFFICES ASSUME NEW t \in SessionIds \ {s}
               PROVE  /\ session'[t].user = session[t].user /\ session'[t].parent = session[t].parent
                      /\ Unrevoked(t)' <=> Unrevoked(t) /\ t # from
                      /\ session[t].state \in EndedStates => session'[t].state \in EndedStates
                      /\ session'[t].state = "none" <=> session[t].state = "none"
    OBVIOUS
  <2>1. session[t] \in SessionRows
    BY DEF SessionsTypeOK
  <2>2. CASE t = from
    <3>1. session'[t] = [session[t] EXCEPT !.state = "rotatedNow"] /\ Unrevoked(t)
      BY <2>2, <1>2, SessionsAssumption
    <3>2. QED
      BY <3>1, <2>1, <2>2 DEF Unrevoked, SessionRows, EndedStates
  <2>3. CASE t # from
    BY <2>3 DEF Unrevoked
  <2>4. QED
    BY <2>2, <2>3
<1>4. session'[s] = [user |-> u, state |-> "live", parent |-> from]
  OBVIOUS
<1>5. RowsHaveUsers'
  BY <1>3, <1>4 DEF RowsHaveUsers
<1>6. \A t \in SessionIds : session[t].parent # s /\ (from # NoSession => session[t].parent # from)
  <2> SUFFICES ASSUME NEW t \in SessionIds, session[t].parent # NoSession
               PROVE  session[t].parent # s /\ (from # NoSession => session[t].parent # from)
    BY SessionsAssumption
  <2>1. session[session[t].parent].state \in EndedStates
    BY DEF ParentsAreSpent
  <2>2. session[s].state \notin EndedStates /\ (from # NoSession => session[from].state \notin EndedStates)
    BY <1>2 DEF EndedStates, Unrevoked
  <2>3. QED
    BY <2>1, <2>2
<1>7. ParentsAreSpent'
  <2> SUFFICES ASSUME NEW t \in SessionIds, session'[t].parent # NoSession
               PROVE  session'[session'[t].parent].state \in EndedStates
    BY DEF ParentsAreSpent
  <2>1. CASE t = s
    BY <2>1, <1>2, <1>4 DEF EndedStates, SessionsTypeOK, SessionRows
  <2>2. CASE t # s
    <3>1. session'[t].parent = session[t].parent /\ session[t].parent \in SessionIds \ {s}
      BY <2>2, <1>3, <1>6 DEF SessionsTypeOK, SessionRows
    <3>2. session[session[t].parent].state \in EndedStates
      BY <3>1 DEF ParentsAreSpent
    <3>3. QED
      BY <3>1, <3>2, <1>3
  <2>3. QED
    BY <2>1, <2>2
<1>8. RefreshIsSingleUse'
  BY <1>3, <1>4, <1>6, SessionsAssumption DEF RefreshIsSingleUse
<1>9. ClaimsAreExclusive'
  <2>1. ASSUME NEW p \in AuthRequests, authReq'[p].at = "claimed"
        PROVE  /\ authReq[p].at = "claimed" /\ p # r /\ authReq'[p] = authReq[p]
               /\ authReq[p].on \in SessionIds /\ authReq[p].on # s
               /\ Unrevoked(authReq[p].on)
    BY <2>1, <1>0 DEF ClaimsAreExclusive, SessionKnows, Unrevoked
  <2>2. ASSUME NEW p \in AuthRequests, authReq'[p].at = "claimed" PROVE authReq[p].on # from
    <3>1. CASE authReq[r].at = "claimed"
      BY <3>1, <2>1, <2>2 DEF ClaimsAreExclusive
    <3>2. CASE authReq[r].at = "login"
      BY <3>2, <2>1, <2>2, SessionsAssumption
    <3>3. QED
      BY <3>1, <3>2
  <2>3. QED
    BY <2>1, <2>2, <1>3 DEF ClaimsAreExclusive
<1>10. SessionKnows'
  <2> SUFFICES ASSUME NEW p \in AuthRequests \ {r} PROVE SessionKnows!(p)'
    BY <1>0 DEF SessionKnows
  <2>1. authReq'[p] = authReq[p] /\ p # r
    BY <1>0
  <2>2. \A t \in SessionIds : session[t].user \in Users => session'[t].user = session[t].user
    BY <1>3, SessionsAssumption DEF RowsHaveUsers
  <2>3. QED
    BY <2>1, <2>2 DEF SessionKnows, SessionsTypeOK, AuthCalls
<1>11. RevocationSees'
  <2> SUFFICES ASSUME NEW p \in AuthRequests, NEW t \in SessionIds, authReq'[p].at = "revoking",
                      Unrevoked(t)', session'[t].user \in Reached(p)'
               PROVE  t \in authReq'[p].rows \/ t = authReq'[p].keep \/ t \in raced'
    BY DEF RevocationSees
  <2>1. p # r /\ authReq'[p] = authReq[p] /\ Reached(p)' = Reached(p)
    BY <1>0
  <2>2. CASE t = s
    BY <2>1, <2>2, <1>4 DEF Overlapped
  <2>3. CASE t # s
    BY <2>1, <2>3, <1>3 DEF RevocationSees
  <2>4. QED
    BY <2>2, <2>3
<1>12. UnrevokedIsCurrent'
  <2> SUFFICES ASSUME NEW t \in SessionIds, Unrevoked(t)'
               PROVE  t \in raced' \/ born'[t] = cuts[session'[t].user]
    BY DEF UnrevokedIsCurrent
  <2>1. CASE t = s
    BY <2>1, <1>4 DEF SessionsTypeOK
  <2>2. CASE t # s
    BY <2>2, <1>3 DEF UnrevokedIsCurrent, SessionsTypeOK
  <2>3. QED
    BY <2>1, <2>2
<1>13. QED
  BY <1>1, <1>5, <1>7, <1>8, <1>9, <1>10, <1>11, <1>12

(* The UPDATE of a revocation commits: the rows it waited for end. *)
LEMMA RevokeCommitKeeps ==
    ASSUME SessionsInv, NEW r \in AuthRequests, RevokeCommit(r) PROVE SessionsInv'
<1> USE DEF SessionsInv
<1> DEFINE u == authReq[r].user
           rows == authReq[r].rows
<1>1. /\ authReq[r].at = "revoking" /\ u \in Users /\ rows \subseteq SessionIds
      /\ Reached(r) \subseteq Users
      /\ authReq[r].keep # NoSession =>
            session[authReq[r].keep].user = u /\ authReq[r].why = "change"
      /\ authReq[r].why = "change" => Reached(r) = {u}
  BY DEF RevokeCommit, SessionKnows, SessionsTypeOK, AuthCalls, Reached
<1>2. /\ raced' = raced
      /\ \A v \in Users : cuts'[v] = IF v \in Reached(r) THEN cuts[v] + 1 ELSE cuts[v]
      /\ \A s \in SessionIds : born'[s] = IF s = authReq[r].keep THEN cuts[u] + 1 ELSE born[s]
      /\ \A s \in SessionIds :
            /\ session'[s] = IF s \in rows /\ Unrevoked(s)
                             THEN [session[s] EXCEPT !.state = "revoked"] ELSE session[s]
            /\ session[s] \in SessionRows
      /\ \A q \in AuthRequests :
            authReq'[q] = IF q = r THEN Quiet
                          ELSE [authReq[q] EXCEPT !.overlap = @ \/ authReq[q].user \in Reached(r)]
  BY DEF RevokeCommit, SessionsTypeOK
<1>3. \A s \in SessionIds :
        /\ session'[s].user = session[s].user /\ session'[s].parent = session[s].parent
        /\ Unrevoked(s)' <=> Unrevoked(s) /\ s \notin rows
        /\ session[s].state \in EndedStates => session'[s].state \in EndedStates
        /\ session'[s].state = "none" <=> session[s].state = "none"
        /\ session'[s] \in SessionRows
  <2> SUFFICES ASSUME NEW s \in SessionIds
               PROVE /\ session'[s].user = session[s].user /\ session'[s].parent = session[s].parent
                     /\ Unrevoked(s)' <=> Unrevoked(s) /\ s \notin rows
                     /\ session[s].state \in EndedStates => session'[s].state \in EndedStates
                     /\ session'[s].state = "none" <=> session[s].state = "none"
                     /\ session'[s] \in SessionRows
    OBVIOUS
  <2>1. CASE s \in rows /\ Unrevoked(s)
    BY <2>1, <1>2, ZenonT(60) DEF Unrevoked, SessionRows, SessionStates, EndedStates
  <2>2. CASE ~ (s \in rows /\ Unrevoked(s))
    BY <2>2, <1>2 DEF Unrevoked
  <2>3. QED
    BY <2>1, <2>2
<1>4. \A q \in AuthRequests \ {r} :
        /\ authReq'[q] \in AuthCalls
        /\ authReq'[q].at = authReq[q].at /\ authReq'[q].user = authReq[q].user
        /\ authReq'[q].on = authReq[q].on /\ authReq'[q].rows = authReq[q].rows
        /\ authReq'[q].keep = authReq[q].keep /\ authReq'[q].why = authReq[q].why
        /\ authReq'[q].saw = authReq[q].saw
        /\ authReq'[q].overlap <=> authReq[q].overlap \/ authReq[q].user \in Reached(r)
        /\ Reached(q)' = Reached(q)
  <2> SUFFICES ASSUME NEW q \in AuthRequests \ {r}
               PROVE /\ authReq'[q] \in AuthCalls
                     /\ authReq'[q].at = authReq[q].at /\ authReq'[q].user = authReq[q].user
                     /\ authReq'[q].on = authReq[q].on /\ authReq'[q].rows = authReq[q].rows
                     /\ authReq'[q].keep = authReq[q].keep /\ authReq'[q].why = authReq[q].why
                     /\ authReq'[q].saw = authReq[q].saw
                     /\ authReq'[q].overlap <=> authReq[q].overlap \/ authReq[q].user \in Reached(r)
                     /\ Reached(q)' = Reached(q)
    OBVIOUS
  <2>1. authReq[q] \in AuthCalls
    BY DEF SessionsTypeOK
  <2>2. authReq'[q] = [authReq[q] EXCEPT !.overlap = @ \/ authReq[q].user \in Reached(r)]
    BY <1>2
  <2>3. /\ authReq'[q] \in AuthCalls
        /\ authReq'[q].at = authReq[q].at /\ authReq'[q].user = authReq[q].user
        /\ authReq'[q].on = authReq[q].on /\ authReq'[q].rows = authReq[q].rows
        /\ authReq'[q].keep = authReq[q].keep /\ authReq'[q].why = authReq[q].why
        /\ authReq'[q].saw = authReq[q].saw
        /\ authReq'[q].overlap <=> authReq[q].overlap \/ authReq[q].user \in Reached(r)
    BY <2>1, <2>2 DEF AuthCalls
  <2>4. QED
    BY <2>3 DEF Reached
<1>5. authReq'[r].at = "idle" /\ Quiet \in AuthCalls
  <2>1. authReq'[r] = Quiet
    BY <1>2
  <2>2. QED
    BY <2>1 DEF Quiet, AuthCalls
<1>6. SessionsTypeOK'
  <2>1. account' \in [Users -> [active : BOOLEAN, failures : Nat, reset : BOOLEAN]]
    <3>1. account \in [Users -> [active : BOOLEAN, failures : Nat, reset : BOOLEAN]]
      BY DEF SessionsTypeOK
    <3>2. PICK off \in BOOLEAN, spent \in BOOLEAN :
            account' = [account EXCEPT ![u].reset = IF spent THEN FALSE ELSE @,
                                       ![u].active = IF off THEN FALSE ELSE @]
      BY DEF RevokeCommit
    <3> DEFINE Standing == [active : BOOLEAN, failures : Nat, reset : BOOLEAN]
               cleared == [account[u] EXCEPT !.reset = IF spent THEN FALSE ELSE @]
               last == [cleared EXCEPT !.active = IF off THEN FALSE ELSE @]
    <3>3. account[u] \in Standing
      BY <1>1, <3>1
    <3>4. cleared \in Standing
      BY <3>3
    <3> HIDE DEF cleared
    <3>5. last \in Standing
      BY <3>4
    <3>6. account' = [account EXCEPT ![u] = last]
      BY <1>1, <3>1, <3>2 DEF cleared
    <3> HIDE DEF last, Standing
    <3>7. account \in [Users -> Standing]
      BY <3>1 DEF Standing
    <3>8. account' \in [Users -> Standing]
      BY <3>5, <3>6, <3>7
    <3>9. QED
      BY <3>8 DEF Standing
  <2>2. session' \in [SessionIds -> SessionRows]
    BY <1>3 DEF RevokeCommit
  <2>3. authReq' \in [AuthRequests -> AuthCalls]
    BY <1>2, <1>4, <1>5 DEF RevokeCommit
  <2>4. cuts' \in [Users -> Nat] /\ born' \in [SessionIds -> Nat] /\ raced' \subseteq SessionIds
    BY <1>1, <1>2 DEF RevokeCommit, SessionsTypeOK
  <2>5. QED
    BY <2>1, <2>2, <2>3, <2>4 DEF SessionsTypeOK
<1>7. RowsHaveUsers' /\ RefreshIsSingleUse'
  BY <1>3 DEF RowsHaveUsers, RefreshIsSingleUse
<1>8. ParentsAreSpent'
  BY <1>3 DEF ParentsAreSpent, SessionsTypeOK, SessionRows
<1>9. ClaimsAreExclusive'
  <2>1. \A s \in rows : ~RowLocked(s)
    BY DEF RevokeCommit
  <2>2. QED
    BY <2>1, <1>3, <1>4, <1>5 DEF ClaimsAreExclusive, SessionKnows, RowLocked
<1>10. SessionKnows'
  <2> SUFFICES ASSUME NEW q \in AuthRequests \ {r} PROVE SessionKnows!(q)'
    BY <1>5 DEF SessionKnows
  <2>1. authReq'[q].at = "login" => authReq'[q].overlap \/ authReq'[q].saw = cuts'[authReq'[q].user]
    BY <1>2, <1>4 DEF SessionKnows
  <2>2. QED
    BY <2>1, <1>3, <1>4 DEF SessionKnows, SessionsTypeOK, AuthCalls
<1>11. RevocationSees'
  BY <1>2, <1>3, <1>4, <1>5 DEF RevocationSees
<1>12. UnrevokedIsCurrent'
  <2> SUFFICES ASSUME NEW s \in SessionIds, Unrevoked(s)', s \notin raced
               PROVE  born'[s] = cuts'[session'[s].user]
    BY <1>2 DEF UnrevokedIsCurrent
  <2>1. /\ Unrevoked(s) /\ s \notin rows /\ session[s].user \in Users
        /\ session'[s].user = session[s].user
        /\ born[s] = cuts[session[s].user]
    BY <1>3 DEF UnrevokedIsCurrent, RowsHaveUsers, Unrevoked
  <2>2. CASE session[s].user \in Reached(r)
    <3>1. s = authReq[r].keep
      BY <1>1, <2>1, <2>2 DEF RevocationSees
    <3>2. QED
      BY <3>1, <1>1, <1>2, <2>1, <2>2, SessionsAssumption
  <2>3. CASE session[s].user \notin Reached(r)
    <3>1. s # authReq[r].keep
      BY <1>1, <2>1, <2>3, SessionsAssumption
    <3>2. QED
      BY <3>1, <1>2, <2>1, <2>3
  <2>4. QED
    BY <2>2, <2>3
<1>13. QED
  BY <1>6, <1>7, <1>8, <1>9, <1>10, <1>11, <1>12

(* Whatever ends the sessions of an account begins with the rows it can see. *)
LEMMA RevocationBegins ==
    ASSUME SessionsInv, NEW r \in AuthRequests, NEW u \in Users, NEW rows \in SUBSET SessionIds,
           NEW keep \in SessionIds \cup {NoSession},
           NEW why \in {"reuse", "reset", "change", "baja", "user", "store", "all"},
           BeginRevoke(r, u, rows, keep, why), UNCHANGED <<account, session, cuts, born, raced>>,
           keep # NoSession => session[keep].user = u /\ why = "change",
           \A s \in SessionIds :
              /\ Unrevoked(s)
              /\ IF why = "store" THEN session[s].user \in Users \ GlobalAdmins
                 ELSE IF why = "all" THEN session[s].user \in Users
                 ELSE session[s].user = u
              => s \in rows \/ s = keep
    PROVE  SessionsInv'
<1> DEFINE q == [Quiet EXCEPT !.at = "revoking", !.user = u, !.rows = rows, !.keep = keep,
                              !.why = why]
<1>1. authReq' = [authReq EXCEPT ![r] = q]
  BY DEF BeginRevoke
<1>2. /\ q \in AuthCalls /\ q.at = "revoking" /\ q.user = u /\ q.rows = rows /\ q.keep = keep
      /\ q.why = why
  BY DEF Quiet, AuthCalls
<1> HIDE DEF q
<1>3. authReq'[r] = q
  BY <1>1 DEF SessionsInv, SessionsTypeOK
<1>4. Reached(r)' = IF why = "store" THEN Users \ GlobalAdmins ELSE IF why = "all" THEN Users ELSE {u}
  BY <1>2, <1>3 DEF Reached
<1>5. account' \in [Users -> [active : BOOLEAN, failures : Nat, reset : BOOLEAN]]
  BY DEF SessionsInv, SessionsTypeOK
<1>6. \A s \in SessionIds :
        Unrevoked(s) /\ session[s].user \in Reached(r)' => s \in q.rows \/ s = q.keep
  BY <1>2, <1>4
<1>7. QED
  BY <1>1, <1>2, <1>5, <1>6, RequestMoves

(* A replayed refresh token, ignored in the grace or ending every session, keeps the invariant. *)
LEMMA ReuseKeeps ==
    ASSUME SessionsInv, NEW r \in AuthRequests, NEW s \in SessionIds, session[s].state # "none",
           HandleReuse(r, s)
    PROVE  SessionsInv'
<1>1. session[s].user \in Users
  BY DEF SessionsInv, RowsHaveUsers
<1>2. CASE WithinGrace(s)
  <2>1. Quiet \in AuthCalls /\ Quiet.at = "idle"
    BY DEF Quiet, AuthCalls
  <2>2. authReq' = [authReq EXCEPT ![r] = Quiet]
    BY <1>2 DEF HandleReuse, Finish
  <2>3. /\ UNCHANGED <<session, cuts, born, raced>>
        /\ account' \in [Users -> [active : BOOLEAN, failures : Nat, reset : BOOLEAN]]
    BY DEF HandleReuse, SessionsInv, SessionsTypeOK
  <2>4. QED
    BY <2>1, <2>2, <2>3, RequestMoves
<1>3. CASE ~WithinGrace(s)
  <2>1. /\ BeginRevoke(r, session[s].user, RowsOf({session[s].user}), NoSession, "reuse")
        /\ UNCHANGED <<account, session, cuts, born, raced>>
    BY <1>3 DEF HandleReuse
  <2>2. /\ RowsOf({session[s].user}) \in SUBSET SessionIds
        /\ \A t \in SessionIds :
              Unrevoked(t) /\ session[t].user = session[s].user => t \in RowsOf({session[s].user})
    BY DEF RowsOf
  <2>3. QED
    BY <1>1, <2>1, <2>2, RevocationBegins
<1>4. QED
  BY <1>2, <1>3

(* Every request, worker and request that ends sessions keeps the invariant. *)
LEMMA NextSessionsInv == SessionsInv /\ [SessionsNext]_sessionVars => SessionsInv'
<1> SUFFICES ASSUME SessionsInv, [SessionsNext]_sessionVars PROVE SessionsInv'
  OBVIOUS
<1> DEFINE Accounts == [Users -> [active : BOOLEAN, failures : Nat, reset : BOOLEAN]]
<1>0. account \in Accounts /\ authReq \in [AuthRequests -> AuthCalls] /\ Quiet \in AuthCalls
  BY DEF SessionsInv, SessionsTypeOK, Quiet, AuthCalls
<1>q. Quiet.at = "idle" /\ \A r \in AuthRequests : authReq[r].at # "idle" => authReq[r].user \in Users
  BY DEF SessionsInv, SessionKnows, Quiet
<1>1. ASSUME NEW r \in AuthRequests, NEW u \in Users, LoginRead(r, u) PROVE SessionsInv'
  <2> DEFINE q == [Quiet EXCEPT !.at = "login", !.user = u, !.saw = cuts[u],
                                !.why = IF account[u].active THEN "active" ELSE "inactive"]
  <2>1. q \in AuthCalls /\ q.at = "login" /\ q.user = u /\ q.saw = cuts[u]
    BY DEF Quiet, AuthCalls, SessionsInv, SessionsTypeOK
  <2>2. authReq' = [authReq EXCEPT ![r] = q] /\ UNCHANGED <<account, session, cuts, born, raced>>
    BY <1>1 DEF LoginRead
  <2> HIDE DEF q
  <2>3. QED
    BY <1>0, <2>1, <2>2, RequestMoves
<1>2. ASSUME NEW r \in AuthRequests, LoginFail(r) PROVE SessionsInv'
  <2>1. account' \in Accounts
    BY <1>0, <1>2, <1>q DEF LoginFail
  <2>2. authReq' = [authReq EXCEPT ![r] = Quiet] /\ UNCHANGED <<session, cuts, born, raced>>
    BY <1>2 DEF LoginFail, Finish
  <2>3. QED
    BY <1>0, <1>q, <2>1, <2>2, RequestMoves
<1>3. ASSUME NEW r \in AuthRequests, NEW s \in SessionIds, LoginOk(r, s) PROVE SessionsInv'
  <2> DEFINE u == authReq[r].user
  <2>1. /\ authReq[r].at = "login" /\ u \in Users /\ session[s].state = "none"
        /\ session' = [session EXCEPT ![s] = [user |-> u, state |-> "live", parent |-> NoSession]]
        /\ cuts' = cuts /\ Finish(r)
        /\ born' = [born EXCEPT ![s] = authReq[r].saw]
        /\ raced' = IF Overlapped(r) THEN raced \cup {s} ELSE raced
        /\ authReq[r].saw \in Nat
    BY <1>0, <1>3, <1>q DEF LoginOk, NewSession, AuthCalls
  <2>2. account' \in Accounts
    BY <1>0, <1>3, <2>1 DEF LoginOk
  <2>3. authReq[r].saw = cuts[u] \/ s \in raced'
    BY <2>1 DEF SessionsInv, SessionKnows, Overlapped
  <2>4. session' \in [SessionIds -> SessionRows]
    BY <2>1 DEF SessionsInv, SessionsTypeOK, SessionRows, SessionStates
  <2>5. \A t \in SessionIds : session'[t] =
              IF t = s THEN [user |-> u, state |-> "live", parent |-> NoSession]
              ELSE IF t = NoSession THEN [session[t] EXCEPT !.state = "rotatedNow"]
              ELSE session[t]
    BY <2>1, SessionsAssumption DEF SessionsInv, SessionsTypeOK
  <2>6. raced' = raced \/ raced' = raced \cup {s}
    BY <2>1
  <2>7. Overlapped(r) => s \in raced'
    BY <2>1
  <2>8. \E n \in Nat : born' = [born EXCEPT ![s] = n] /\ (n = cuts[u] \/ s \in raced')
    BY <2>1, <2>3
  <2> HIDE DEF u
  <2>9. QED
    BY <2>1, <2>2, <2>4, <2>5, <2>6, <2>7, <2>8, SessionOpens DEF u
<1>4. ASSUME NEW r \in AuthRequests, NEW s \in SessionIds, RefreshCommit(r, s) PROVE SessionsInv'
  <2> DEFINE u == authReq[r].user
             old == authReq[r].on
  <2>1. /\ authReq[r].at = "claimed" /\ u \in Users /\ session[s].state = "none"
        /\ old \in SessionIds /\ Unrevoked(old) /\ session[old].user = u
        /\ session' = [session EXCEPT ![old].state = "rotatedNow",
                          ![s] = [user |-> u, state |-> "live", parent |-> old]]
        /\ cuts' = cuts /\ Finish(r) /\ account' = account
        /\ born' = [born EXCEPT ![s] = born[old]]
        /\ raced' = IF Overlapped(r) \/ old \in raced THEN raced \cup {s} ELSE raced
        /\ born[old] \in Nat
    BY <1>0, <1>4, <1>q DEF RefreshCommit, SessionsInv, SessionKnows, ClaimsAreExclusive, SessionsTypeOK
  <2>2. born[old] = cuts[u] \/ s \in raced'
    BY <2>1 DEF SessionsInv, UnrevokedIsCurrent
  <2>3. old # s
    BY <2>1 DEF Unrevoked
  <2>4. \A t \in SessionIds : session'[t] =
              IF t = s THEN [user |-> u, state |-> "live", parent |-> old]
              ELSE IF t = old THEN [session[t] EXCEPT !.state = "rotatedNow"]
              ELSE session[t]
    BY <2>1, <2>3 DEF SessionsInv, SessionsTypeOK
  <2>5. session' \in [SessionIds -> SessionRows]
    <3>1. [user |-> u, state |-> "live", parent |-> old] \in SessionRows
      BY <2>1 DEF SessionRows, SessionStates
    <3>2. session \in [SessionIds -> SessionRows]
      BY DEF SessionsInv, SessionsTypeOK
    <3>3. [session[old] EXCEPT !.state = "rotatedNow"] \in SessionRows
      BY <3>2, <2>1 DEF SessionRows, SessionStates
    <3>4. QED
      BY <3>1, <3>2, <3>3, <2>1
  <2>6. raced' = raced \/ raced' = raced \cup {s}
    BY <2>1
  <2>7. Overlapped(r) => s \in raced'
    BY <2>1
  <2>8. \E n \in Nat : born' = [born EXCEPT ![s] = n] /\ (n = cuts[u] \/ s \in raced')
    BY <2>1, <2>2
  <2>9. account' \in Accounts
    BY <1>0, <2>1
  <2> HIDE DEF u, old
  <2>10. QED
    BY <2>1, <2>4, <2>5, <2>6, <2>7, <2>8, <2>9, SessionOpens DEF u, old
<1>5. ASSUME NEW r \in AuthRequests, NEW s \in SessionIds, RefreshRead(r, s) PROVE SessionsInv'
  <2> DEFINE q == [Quiet EXCEPT !.at = "refresh", !.user = session[s].user, !.on = s]
  <2>1. session[s].user \in Users
    BY <1>5 DEF RefreshRead, SessionsInv, RowsHaveUsers
  <2>2. q \in AuthCalls /\ q.at = "refresh" /\ q.user = session[s].user /\ q.on = s
    BY <2>1 DEF Quiet, AuthCalls
  <2>3. authReq' = [authReq EXCEPT ![r] = q] /\ UNCHANGED <<account, session, cuts, born, raced>>
    BY <1>5 DEF RefreshRead
  <2> HIDE DEF q
  <2>4. QED
    BY <1>0, <2>1, <2>2, <2>3, RequestMoves
<1>6. ASSUME NEW r \in AuthRequests, NEW s \in SessionIds, RefreshReused(r, s) PROVE SessionsInv'
  BY <1>6, ReuseKeeps DEF RefreshReused
<1>7. ASSUME NEW r \in AuthRequests, RefreshClaim(r) PROVE SessionsInv'
  <2> DEFINE q == [authReq[r] EXCEPT !.at = "claimed"]
  <2>1. q \in AuthCalls /\ q.at = "claimed" /\ q.user = authReq[r].user /\ q.on = authReq[r].on
    BY <1>0 DEF AuthCalls
  <2>2. q.on \in SessionIds /\ session[q.on].user = q.user /\ q.user \in Users
    BY <1>7, <2>1, <1>q DEF RefreshClaim, SessionsInv, SessionKnows
  <2>3. /\ authReq' = [authReq EXCEPT ![r] = q] /\ UNCHANGED <<account, session, cuts, born, raced>>
        /\ Unrevoked(q.on) /\ ~RowLocked(q.on)
    BY <1>0, <1>7, <2>1 DEF RefreshClaim
  <2> HIDE DEF q
  <2>4. QED
    BY <1>0, <2>1, <2>2, <2>3, RequestMoves
<1>8. ASSUME NEW r \in AuthRequests, RefreshLost(r) PROVE SessionsInv'
  <2>1. authReq[r].on \in SessionIds /\ session[authReq[r].on].state # "none"
    BY <1>8, <1>q, SessionsAssumption DEF RefreshLost, SessionsInv, SessionKnows, RowsHaveUsers
  <2>2. QED
    BY <1>8, <2>1, ReuseKeeps DEF RefreshLost
<1>9. ASSUME NEW r \in AuthRequests, NEW s \in SessionIds, Logout(r, s) \/ RevokeOwnSession(r, s)
      PROVE  SessionsInv'
  <2> DEFINE q == [Quiet EXCEPT !.at = "close", !.user = session[s].user, !.on = s]
  <2>0. CloseRead(r, s)
    BY <1>9 DEF Logout, RevokeOwnSession
  <2>1. session[s].user \in Users
    BY <2>0 DEF CloseRead, SessionsInv, RowsHaveUsers, Unrevoked
  <2>2. q \in AuthCalls /\ q.at = "close" /\ q.user = session[s].user /\ q.on = s
    BY <2>1 DEF Quiet, AuthCalls
  <2>3. authReq' = [authReq EXCEPT ![r] = q] /\ UNCHANGED <<account, session, cuts, born, raced>>
    BY <2>0 DEF CloseRead
  <2> HIDE DEF q
  <2>4. QED
    BY <1>0, <2>1, <2>2, <2>3, RequestMoves
<1>10. ASSUME NEW r \in AuthRequests, CloseWrite(r) PROVE SessionsInv'
  <2> DEFINE s == authReq[r].on
             x == CASE Unrevoked(s) -> "revoked"
                    [] session[s].state = "rotated" -> "rotatedNow"
                    [] OTHER -> session[s].state
  <2>1. s \in SessionIds /\ session[s] \in SessionRows
    BY <1>10 DEF CloseWrite, SessionsInv, SessionKnows, SessionsTypeOK
  <2>2. /\ session' = [session EXCEPT ![s].state = x]
        /\ UNCHANGED <<account, cuts, born, raced>> /\ Finish(r) /\ ~RowLocked(s)
    BY <1>10, <2>1 DEF CloseWrite, SessionsInv, SessionsTypeOK
  <2>3. /\ x \in SessionStates
        /\ session[s].state = "none" <=> x = "none"
        /\ x \in {"live", "expired"} => Unrevoked(s)
        /\ session[s].state \in EndedStates => x \in EndedStates
    BY <2>1 DEF SessionRows, SessionStates, Unrevoked, EndedStates
  <2>4. /\ \A q \in AuthRequests : authReq'[q] \in {authReq[q], Quiet}
        /\ authReq' \in [AuthRequests -> AuthCalls]
    BY <1>0, <2>2 DEF Finish
  <2> HIDE DEF s, x
  <2>5. QED
    BY <2>1, <2>2, <2>3, <2>4, RowMovesOn
<1>11. ASSUME NEW u \in Users, RequestReset(u) \/ Reactivate(u) \/ LockoutLapses(u)
       PROVE  SessionsInv'
  <2>1. account' \in Accounts /\ UNCHANGED <<session, authReq, cuts, born, raced>>
    <3>1. CASE RequestReset(u)
      BY <1>0, <3>1 DEF RequestReset
    <3>2. CASE Reactivate(u)
      BY <1>0, <3>2 DEF Reactivate
    <3>3. CASE LockoutLapses(u)
      BY <1>0, <3>3 DEF LockoutLapses
    <3>4. QED
      BY <1>11, <3>1, <3>2, <3>3
  <2>2. QED
    BY <2>1 DEF SessionsInv, SessionsTypeOK, RowsHaveUsers, ParentsAreSpent, ClaimsAreExclusive,
                SessionKnows, RevocationSees, RefreshIsSingleUse, UnrevokedIsCurrent, Unrevoked, Reached
<1>12. ASSUME NEW r \in AuthRequests, NEW u \in Users, ResetRead(r, u) PROVE SessionsInv'
  <2> DEFINE q == [Quiet EXCEPT !.at = "reset", !.user = u]
  <2>1. q \in AuthCalls /\ q.at = "reset" /\ q.user = u
    BY DEF Quiet, AuthCalls
  <2>2. authReq' = [authReq EXCEPT ![r] = q] /\ UNCHANGED <<account, session, cuts, born, raced>>
    BY <1>12 DEF ResetRead
  <2> HIDE DEF q
  <2>3. QED
    BY <1>0, <2>1, <2>2, RequestMoves
<1>r. \A us : /\ RowsOf(us) \in SUBSET SessionIds
              /\ \A s \in SessionIds : Unrevoked(s) /\ session[s].user \in us => s \in RowsOf(us)
  BY DEF RowsOf
<1>13. ASSUME NEW r \in AuthRequests, ResetRevoke(r) PROVE SessionsInv'
  BY <1>13, <1>q, <1>r, RevocationBegins DEF ResetRevoke
<1>14. ASSUME NEW r \in AuthRequests, NEW u \in Users, NEW keep \in SessionIds \cup {NoSession},
              ChangePassword(r, u, keep)
       PROVE  SessionsInv'
  <2>1. /\ BeginRevoke(r, u, RowsOf({u}) \ {keep}, keep, "change")
        /\ UNCHANGED <<account, session, cuts, born, raced>>
        /\ keep # NoSession => session[keep].user = u
    BY <1>14 DEF ChangePassword
  <2>2. RowsOf({u}) \ {keep} \in SUBSET SessionIds
    BY <1>r
  <2>3. QED
    BY <2>1, <2>2, <1>r, RevocationBegins
<1>15. ASSUME NEW r \in AuthRequests, NEW u \in Users, Deactivate(r, u) PROVE SessionsInv'
  BY <1>15, <1>r, RevocationBegins DEF Deactivate
<1>16. ASSUME NEW r \in AuthRequests, NEW u \in Users, RevokeUserSessions(r, u) PROVE SessionsInv'
  BY <1>16, <1>r, RevocationBegins DEF RevokeUserSessions
<1>17. ASSUME NEW r \in AuthRequests, RevokeStoreSessions(r) PROVE SessionsInv'
  <2>1. PICK u \in Users \ GlobalAdmins :
          BeginRevoke(r, u, RowsOf(Users \ GlobalAdmins), NoSession, "store")
    BY <1>17 DEF RevokeStoreSessions
  <2>2. UNCHANGED <<account, session, cuts, born, raced>>
    BY <1>17 DEF RevokeStoreSessions
  <2>3. QED
    BY <2>1, <2>2, <1>r, RevocationBegins
<1>18. ASSUME NEW r \in AuthRequests, RevokeAllSessions(r) PROVE SessionsInv'
  BY <1>18, <1>r, RevocationBegins DEF RevokeAllSessions
<1>19. ASSUME NEW r \in AuthRequests, RevokeCommit(r) PROVE SessionsInv'
  BY <1>19, RevokeCommitKeeps
<1>20. ASSUME NEW s \in SessionIds, GraceLapses(s) \/ Expires(s) \/ Purge(s) PROVE SessionsInv'
  <2>1. session[s] \in SessionRows
    BY DEF SessionsInv, SessionsTypeOK
  <2>2. /\ \A q \in AuthRequests : authReq'[q] \in {authReq[q], Quiet}
        /\ authReq' \in [AuthRequests -> AuthCalls]
        /\ UNCHANGED <<account, cuts, born, raced>>
    BY <1>0, <1>20 DEF GraceLapses, Expires, Purge
  <2>3. CASE GraceLapses(s)
    <3>1. ~RowLocked(s)
      BY <2>3 DEF GraceLapses, RowLocked, SessionsInv, ClaimsAreExclusive, Unrevoked
    <3>2. QED
      BY <3>1, <2>2, <2>3, RowMovesOn DEF GraceLapses, SessionStates, EndedStates
  <2>4. CASE Expires(s)
    BY <2>2, <2>4, RowMovesOn DEF Expires, SessionStates, EndedStates, Unrevoked
  <2>5. CASE Purge(s)
    <3>1. ~RowLocked(s)
      BY <2>5 DEF Purge, RowLocked
    <3>2. QED
      BY <3>1, <2>2, <2>5, RowMovesOn DEF Purge, SessionStates, EndedStates
  <2>6. QED
    BY <1>20, <2>3, <2>4, <2>5
<1>21. CASE UNCHANGED sessionVars
  BY <1>21 DEF sessionVars, SessionsInv, SessionsTypeOK, RowsHaveUsers, ParentsAreSpent,
               ClaimsAreExclusive, SessionKnows, RevocationSees, RefreshIsSingleUse,
               UnrevokedIsCurrent, Unrevoked, Reached
<1>22. QED
  BY <1>1, <1>2, <1>3, <1>4, <1>5, <1>6, <1>7, <1>8, <1>9, <1>10, <1>11, <1>12, <1>13, <1>14,
     <1>15, <1>16, <1>17, <1>18, <1>19, <1>20, <1>21 DEF SessionsNext

(* A session is continued once, and ended whenever the account ends its sessions, for any *)
(* accounts, sessions and requests in flight.                                              *)
THEOREM SessionsAreSafe == SessionsSpec => []SessionsHold
<1>1. SessionsInv => SessionsHold
  BY DEF SessionsInv, SessionsHold, UnrevokedIsCurrent, RevocationReaches, Unrevoked
<1>2. QED
  BY <1>1, InitSessionsInv, NextSessionsInv, PTL DEF SessionsSpec

------------------------------------------------------------------------------
(* The codes                                                                  *)

(* What a stored code carries agrees with its history; an id not yet stored has none. *)
CodesAgree ==
    \A c \in OtpCodes :
        /\ compared[c] = code[c].attempts
        /\ code[c].state = "none" =>
              code[c].attempts = 0 /\ code[c].verified = "no" /\ replacedBy[c] = NoCode
        /\ code[c].state # "none" => mailedTo[c] = code[c].to
        /\ replacedBy[c] # NoCode =>
              code[replacedBy[c]].state # "none" /\ mailedTo[replacedBy[c]] = mailedTo[c]

(* A request for a code is alone with an id that is not stored yet. *)
FreshCodes ==
    \A r \in OtpRequests :
        /\ otpReq[r].at \in {"idle", "looking", "locked"} => otpReq[r].code = NoCode
        /\ otpReq[r].at \in {"resolved", "mailed"} =>
              /\ otpReq[r].code \in OtpCodes
              /\ code[otpReq[r].code].state = "none"
              /\ \A q \in OtpRequests \ {r} : otpReq[q].code # otpReq[r].code
        /\ otpReq[r].at = "mailed" => mailedTo[otpReq[r].code] = otpReq[r].to

(* A verification writes what it read: nobody else writes the rows it has locked. *)
LocksHold ==
    /\ \A r \in OtpRequests :
          /\ \A c \in otpReq[r].rows : code[c].state # "none"
          /\ otpReq[r].at = "locked" =>
                \A c \in otpReq[r].rows : /\ otpReq[r].attempts[c] = code[c].attempts
                                         /\ code[c].attempts < OtpMaxAttempts
    /\ \A q, r \in OtpRequests :
          q # r /\ otpReq[q].at = "locked" /\ otpReq[r].at = "locked"
          => otpReq[q].rows \cap otpReq[r].rows = {}

(* Every code that lives, or is on its way to, took one request of the budget. *)
Pending == LiveCodes \cup {c \in OtpCodes : \E r \in OtpRequests : otpReq[r].code = c}
BudgetCovers ==
    /\ IsFiniteSet(Pending)
    /\ Cardinality(Pending) <= asked
    /\ Cardinality(Pending) <= OtpMaxRequests

OtpInv ==
    /\ OtpTypeOK
    /\ CodesAgree
    /\ FreshCodes
    /\ LocksHold
    /\ BudgetCovers

(* No code was sent at the start. *)
LEMMA InitOtpInv == OtpInit => OtpInv
<1> SUFFICES ASSUME OtpInit PROVE OtpInv
  OBVIOUS
<1>1. NoOtpRequest \in OtpCalls /\ NoOtpRequest.at = "idle" /\ NoOtpRequest.code = NoCode
      /\ NoOtpRequest.rows = {}
  BY OtpAssumption DEF NoOtpRequest, OtpCalls
<1>2. OtpTypeOK
  BY <1>1, OtpAssumption DEF OtpInit, OtpTypeOK, CodeRows, CodeStates
<1>3. CodesAgree /\ FreshCodes /\ LocksHold
  BY <1>1 DEF OtpInit, CodesAgree, FreshCodes, LocksHold
<1>4. Pending = {}
  BY <1>1, OtpAssumption DEF OtpInit, Pending, LiveCodes
<1>5. QED
  BY <1>2, <1>3, <1>4, FS_EmptySet, OtpAssumption DEF OtpInit, OtpInv, BudgetCovers

(* The budget, after a step that adds no code to the pending ones. *)
LEMMA NoMorePending ==
    ASSUME BudgetCovers, OtpTypeOK, Pending' \subseteq Pending, asked' = asked
    PROVE  BudgetCovers'
<1>1. IsFiniteSet(Pending') /\ Cardinality(Pending') <= Cardinality(Pending)
  BY FS_Subset DEF BudgetCovers
<1>2. Cardinality(Pending) \in Nat /\ Cardinality(Pending') \in Nat
  BY <1>1, FS_CardinalityType DEF BudgetCovers
<1>3. QED
  BY <1>1, <1>2, OtpAssumption DEF BudgetCovers, OtpTypeOK

(* Sends, guesses, lapses and changes of contact keep the invariant. *)
LEMMA NextOtpInv == OtpInv /\ [OtpNext]_otpVars => OtpInv'
<1> SUFFICES ASSUME OtpInv, [OtpNext]_otpVars PROVE OtpInv'
  OBVIOUS
<1>0. /\ NoOtpRequest \in OtpCalls /\ NoOtpRequest.at = "idle" /\ NoOtpRequest.code = NoCode
      /\ NoOtpRequest.rows = {} /\ NoOtpRequest.to = NoMailbox
      /\ \A r \in OtpRequests : otpReq[r] \in OtpCalls
      /\ OtpTypeOK /\ CodesAgree /\ FreshCodes /\ LocksHold /\ BudgetCovers
  BY OtpAssumption DEF NoOtpRequest, OtpCalls, OtpInv, OtpTypeOK
<1>1. ASSUME NEW r \in OtpRequests, NEW typed \in Mailboxes, NEW c \in OtpCodes,
             RequestCode(r, typed, c)
      PROVE  OtpInv'
  <2>0. /\ asked' = asked + 1 /\ asked <= OtpMaxRequests /\ asked \in Nat
        /\ otpReq[r].at = "idle" /\ code[c].state = "none"
        /\ \A q \in OtpRequests : otpReq[q].code # c
        /\ UNCHANGED <<contact, code, stored, verified, mailedTo, compared, replacedBy>>
    BY <1>1, <1>0 DEF RequestCode, Spent, OtpTypeOK
  <2>1. CASE asked' <= OtpMaxRequests
    <3> DEFINE q == [NoOtpRequest EXCEPT !.at = "resolved", !.code = c,
                                         !.to = ResolveDestination(typed)]
    <3>1. otpReq' = [otpReq EXCEPT ![r] = q]
      BY <1>1, <2>1 DEF RequestCode
    <3>2. q \in OtpCalls /\ q.at = "resolved" /\ q.code = c /\ q.rows = {}
      BY <1>0 DEF OtpCalls, ResolveDestination, OtpTypeOK
    <3> HIDE DEF q
    <3>3. \A p \in OtpRequests : otpReq'[p] = IF p = r THEN q ELSE otpReq[p]
      BY <3>1, <1>0 DEF OtpTypeOK
    <3>4. OtpTypeOK'
      BY <1>0, <2>0, <2>1, <3>1, <3>2, OtpAssumption DEF OtpTypeOK
    <3>5. CodesAgree'
      BY <1>0, <2>0 DEF CodesAgree
    <3>6. FreshCodes'
      BY <1>0, <2>0, <3>2, <3>3, OtpAssumption DEF FreshCodes
    <3>7. LocksHold'
      BY <1>0, <2>0, <3>2, <3>3 DEF LocksHold
    <3>8. BudgetCovers'
      <4>1. Pending' = Pending \cup {c}
        BY <1>0, <2>0, <3>2, <3>3, OtpAssumption DEF Pending, LiveCodes, FreshCodes
      <4>2. IsFiniteSet(Pending) /\ Cardinality(Pending) \in Nat
        BY <1>0, FS_CardinalityType DEF BudgetCovers
      <4>3. /\ IsFiniteSet(Pending')
            /\ Cardinality(Pending') = IF c \in Pending THEN Cardinality(Pending)
                                       ELSE Cardinality(Pending) + 1
        BY <4>1, <4>2, FS_AddElement
      <4>4. Cardinality(Pending') <= Cardinality(Pending) + 1 /\ Cardinality(Pending') \in Nat
        BY <4>2, <4>3
      <4>5. Cardinality(Pending) <= asked
        BY <1>0 DEF BudgetCovers
      <4>6. QED
        BY <2>0, <2>1, <4>2, <4>3, <4>4, <4>5, OtpAssumption DEF BudgetCovers
    <3>9. QED
      BY <3>4, <3>5, <3>6, <3>7, <3>8 DEF OtpInv
  <2>2. CASE ~ (asked' <= OtpMaxRequests)
    <3>1. otpReq' = otpReq
      BY <1>1, <2>2 DEF RequestCode
    <3>2. OtpTypeOK' /\ CodesAgree' /\ FreshCodes' /\ LocksHold'
      BY <1>0, <2>0, <3>1, OtpAssumption DEF OtpTypeOK, CodesAgree, FreshCodes, LocksHold
    <3>3. Pending' = Pending
      BY <2>0, <3>1 DEF Pending, LiveCodes
    <3>4. BudgetCovers'
      BY <1>0, <2>0, <3>3, FS_CardinalityType, OtpAssumption DEF BudgetCovers
    <3>5. QED
      BY <3>2, <3>4 DEF OtpInv
  <2>3. QED
    BY <2>1, <2>2
<1>2. ASSUME NEW r \in OtpRequests, CodeNotMailed(r) \/ OtpRequestDies(r) PROVE OtpInv'
  <2>0. /\ UNCHANGED <<contact, code, stored, asked, verified, mailedTo, compared, replacedBy>>
        /\ \A p \in OtpRequests : otpReq'[p] = IF p = r THEN NoOtpRequest ELSE otpReq[p]
        /\ otpReq' \in [OtpRequests -> OtpCalls]
    BY <1>0, <1>2 DEF CodeNotMailed, OtpRequestDies, EndOtp, OtpTypeOK
  <2>1. OtpTypeOK' /\ CodesAgree'
    BY <1>0, <2>0 DEF OtpTypeOK, CodesAgree
  <2>2. FreshCodes'
    BY <1>0, <2>0, OtpAssumption DEF FreshCodes
  <2>3. LocksHold'
    BY <1>0, <2>0 DEF LocksHold
  <2>4. Pending' \subseteq Pending
    BY <1>0, <2>0, OtpAssumption DEF Pending, LiveCodes
  <2>5. QED
    BY <1>0, <2>0, <2>1, <2>2, <2>3, <2>4, NoMorePending DEF OtpInv
<1>3. ASSUME NEW r \in OtpRequests, CodeMailed(r) PROVE OtpInv'
  <2> DEFINE q == [otpReq[r] EXCEPT !.at = "mailed"]
             c == otpReq[r].code
  <2>1. q \in OtpCalls /\ q.at = "mailed" /\ q.code = c /\ q.to = otpReq[r].to /\ q.rows = otpReq[r].rows
    BY <1>0 DEF OtpCalls
  <2>2. /\ UNCHANGED <<contact, code, stored, asked, verified, compared, replacedBy>>
        /\ otpReq[r].at = "resolved" /\ c \in OtpCodes /\ code[c].state = "none"
        /\ otpReq' = [otpReq EXCEPT ![r] = q]
        /\ mailedTo' = [mailedTo EXCEPT ![c] = otpReq[r].to]
        /\ otpReq[r].to \in Mailboxes \cup {NoMailbox}
    BY <1>0, <1>3 DEF CodeMailed, FreshCodes, OtpTypeOK, OtpCalls
  <2> HIDE DEF q
  <2>3. \A p \in OtpRequests : otpReq'[p] = IF p = r THEN q ELSE otpReq[p]
    BY <1>0, <2>2 DEF OtpTypeOK
  <2>4. OtpTypeOK'
    BY <1>0, <2>1, <2>2 DEF OtpTypeOK
  <2>5. CodesAgree'
    BY <1>0, <2>2 DEF CodesAgree, OtpTypeOK
  <2>6. FreshCodes'
    BY <1>0, <2>1, <2>2, <2>3 DEF FreshCodes, OtpTypeOK
  <2>7. LocksHold'
    BY <1>0, <2>1, <2>2, <2>3 DEF LocksHold
  <2>8. Pending' \subseteq Pending
    BY <2>1, <2>2, <2>3 DEF Pending, LiveCodes
  <2>9. QED
    BY <1>0, <2>2, <2>4, <2>5, <2>6, <2>7, <2>8, NoMorePending DEF OtpInv
<1>4. ASSUME NEW r \in OtpRequests, StoreCode(r) PROVE OtpInv'
  <2> DEFINE new == otpReq[r].code
             old == Replaced(r)
  <2>1. /\ UNCHANGED <<contact, asked, verified, mailedTo, compared>>
        /\ otpReq[r].at = "mailed" /\ new \in OtpCodes /\ code[new].state = "none"
        /\ mailedTo[new] = otpReq[r].to /\ otpReq[r].to \in Mailboxes \cup {NoMailbox}
        /\ old \subseteq OtpCodes /\ new \notin old
        /\ \A c \in old : code[c].state = "live" /\ code[c].to = otpReq[r].to
        /\ \A p \in OtpRequests : otpReq'[p] = IF p = r THEN NoOtpRequest ELSE otpReq[p]
        /\ otpReq' \in [OtpRequests -> OtpCalls]
        /\ stored' = stored + 1
        /\ \A c \in OtpCodes : replacedBy'[c] = IF c \in old THEN new ELSE replacedBy[c]
        /\ replacedBy' \in [OtpCodes -> OtpCodes \cup {NoCode}]
    BY <1>0, <1>4 DEF StoreCode, EndOtp, FreshCodes, OtpTypeOK, OtpCalls, Replaced, LiveCodes
  <2>2. \A c \in OtpCodes :
          /\ c = new => code'[c] = [state |-> "live", to |-> otpReq[r].to, attempts |-> 0,
                                    verified |-> "no", at |-> stored + 1]
          /\ c \in old => code'[c] = [code[c] EXCEPT !.state = "consumed"]
          /\ c # new /\ c \notin old => code'[c] = code[c]
    BY <1>4, <2>1 DEF StoreCode
  <2>3. \A c \in OtpCodes : code[c] \in CodeRows
    BY <1>0 DEF OtpTypeOK
  <2> HIDE DEF new, old
  <2>m. code'[new] = [state |-> "live", to |-> otpReq[r].to, attempts |-> 0, verified |-> "no",
                      at |-> stored + 1]
    BY <2>1, <2>2
  <2>n. /\ code'[new].state = "live" /\ code'[new].to = otpReq[r].to
        /\ code'[new].attempts = 0 /\ code'[new].verified = "no"
        /\ code'[new] \in CodeRows
    <3>1. stored + 1 \in Nat /\ 0 \in 0..OtpMaxAttempts
      BY <1>0, OtpAssumption DEF OtpTypeOK
    <3>2. QED
      BY <2>1, <2>m, <3>1 DEF CodeRows, CodeStates
  <2>4. \A c \in OtpCodes : c # new =>
          /\ code'[c].to = code[c].to /\ code'[c].attempts = code[c].attempts
          /\ code'[c].verified = code[c].verified
          /\ code'[c].state = IF c \in old THEN "consumed" ELSE code[c].state
    BY <2>2, <2>3 DEF CodeRows
  <2>5. OtpTypeOK'
    <3>1. \A c \in OtpCodes : code'[c] \in CodeRows
      <4> SUFFICES ASSUME NEW c \in OtpCodes PROVE code'[c] \in CodeRows
        OBVIOUS
      <4>1. CASE c = new
        BY <2>n, <4>1
      <4>2. CASE c \in old
        <5>1. code'[c] = [code[c] EXCEPT !.state = "consumed"]
          BY <2>2, <4>2
        <5>2. QED
          BY <2>3, <5>1 DEF CodeRows, CodeStates
      <4>3. CASE c # new /\ c \notin old
        BY <2>2, <2>3, <4>3
      <4>4. QED
        BY <4>1, <4>2, <4>3
    <3>2. code' \in [OtpCodes -> CodeRows]
      BY <1>4, <3>1 DEF StoreCode
    <3>3. QED
      BY <1>0, <2>1, <3>2 DEF OtpTypeOK
  <2>6. CodesAgree'
    <3> SUFFICES ASSUME NEW c \in OtpCodes PROVE CodesAgree!(c)'
      BY DEF CodesAgree
    <3>1. CASE c = new
      <4>1. compared[c] = 0 /\ replacedBy[c] = NoCode
        BY <1>0, <2>1, <3>1 DEF CodesAgree
      <4>2. QED
        BY <2>1, <2>n, <3>1, <4>1 DEF CodesAgree
    <3>2. CASE c \in old
      <4>1. /\ compared[c] = code[c].attempts /\ mailedTo[c] = otpReq[r].to
            /\ code'[c].state = "consumed" /\ c # new
        BY <1>0, <2>1, <2>4, <3>2 DEF CodesAgree
      <4>2. replacedBy'[c] = new
        BY <2>1, <3>2
      <4>3. /\ compared'[c] = code'[c].attempts /\ mailedTo'[c] = code'[c].to
            /\ mailedTo'[new] = mailedTo'[c]
        <5>1. compared' = compared /\ mailedTo' = mailedTo
          BY <2>1
        <5>2. mailedTo[new] = otpReq[r].to
          BY <2>1
        <5>3. code'[c].attempts = code[c].attempts /\ code'[c].to = code[c].to
          BY <2>4, <4>1
        <5>4. code[c].to = otpReq[r].to
          BY <2>1, <3>2
        <5>5. QED
          BY <4>1, <5>1, <5>2, <5>3, <5>4
      <4>4. QED
        BY <2>n, <4>1, <4>2, <4>3 DEF CodesAgree
    <3>3. CASE c # new /\ c \notin old
      BY <1>0, <2>1, <2>2, <2>4, <3>3 DEF CodesAgree, OtpTypeOK
    <3>4. QED
      BY <3>1, <3>2, <3>3
  <2>7. FreshCodes'
    BY <1>0, <2>1, <2>4, OtpAssumption DEF FreshCodes, new
  <2>8. LocksHold'
    <3>1. ASSUME NEW p \in OtpRequests, NEW c \in otpReq[p].rows
          PROVE  code'[c].state # "none" /\ code'[c].attempts = code[c].attempts
      <4>1. c \in OtpCodes /\ code[c].state # "none" /\ c # new
        BY <1>0, <2>1 DEF LocksHold, OtpCalls
      <4>2. QED
        BY <2>4, <4>1
    <3>2. QED
      BY <1>0, <2>1, <3>1 DEF LocksHold
  <2>9. Pending' \subseteq Pending
    BY <1>0, <2>1, <2>4, OtpAssumption DEF Pending, LiveCodes, new
  <2>10. QED
    BY <1>0, <2>1, <2>5, <2>6, <2>7, <2>8, <2>9, NoMorePending DEF OtpInv
<1>5. ASSUME NEW r \in OtpRequests, VerifyStarts(r) PROVE OtpInv'
  <2>1. /\ UNCHANGED <<contact, code, stored, asked, mailedTo, compared, replacedBy>>
        /\ verified' \in 0..(OtpMaxVerifications + 1)
        /\ otpReq[r].at = "idle"
    BY <1>0, <1>5, OtpAssumption DEF VerifyStarts, Spent, OtpTypeOK
  <2>2. CASE otpReq' = otpReq
    <3>1. OtpTypeOK' /\ CodesAgree' /\ FreshCodes' /\ LocksHold'
      BY <1>0, <2>1, <2>2 DEF OtpTypeOK, CodesAgree, FreshCodes, LocksHold
    <3>2. Pending' \subseteq Pending
      BY <2>1, <2>2 DEF Pending, LiveCodes
    <3>3. QED
      BY <1>0, <2>1, <3>1, <3>2, NoMorePending DEF OtpInv
  <2>3. CASE otpReq' # otpReq
    <3> DEFINE q == [otpReq[r] EXCEPT !.at = "looking", !.rows = Newest(LiveCodes)]
    <3>1. otpReq' = [otpReq EXCEPT ![r] = q]
      BY <1>0, <1>5, <2>3 DEF VerifyStarts, OtpTypeOK
    <3>2. Newest(LiveCodes) \subseteq OtpCodes /\ \A c \in Newest(LiveCodes) : code[c].state # "none"
      BY DEF Newest, LiveCodes
    <3>3. q \in OtpCalls /\ q.at = "looking" /\ q.code = NoCode /\ q.rows = Newest(LiveCodes)
      BY <1>0, <2>1, <3>2 DEF OtpCalls, FreshCodes
    <3> HIDE DEF q
    <3>4. \A p \in OtpRequests : otpReq'[p] = IF p = r THEN q ELSE otpReq[p]
      BY <1>0, <3>1 DEF OtpTypeOK
    <3>5. OtpTypeOK' /\ CodesAgree'
      BY <1>0, <2>1, <3>1, <3>3 DEF OtpTypeOK, CodesAgree
    <3>6. FreshCodes'
      BY <1>0, <2>1, <3>3, <3>4, OtpAssumption DEF FreshCodes
    <3>7. LocksHold'
      BY <1>0, <2>1, <3>2, <3>3, <3>4 DEF LocksHold
    <3>8. Pending' \subseteq Pending
      BY <2>1, <3>3, <3>4, OtpAssumption DEF Pending, LiveCodes
    <3>9. QED
      BY <1>0, <2>1, <3>5, <3>6, <3>7, <3>8, NoMorePending DEF OtpInv
  <2>4. QED
    BY <2>2, <2>3
<1>6. ASSUME NEW r \in OtpRequests, LockLiveCodes(r) PROVE OtpInv'
  <2> DEFINE usable == {c \in otpReq[r].rows : /\ code[c].state # "consumed"
                                               /\ code[c].attempts < OtpMaxAttempts}
  <2>1. /\ UNCHANGED <<contact, code, stored, asked, verified, mailedTo, compared, replacedBy>>
        /\ otpReq[r].at = "looking" /\ otpReq[r].code = NoCode
        /\ otpReq[r].rows \cap CodesLockedByOthers(r) = {}
    BY <1>0, <1>6 DEF LockLiveCodes, FreshCodes
  <2> DEFINE q == IF usable = {} THEN NoOtpRequest
                  ELSE [otpReq[r] EXCEPT !.at = "locked", !.rows = usable,
                                         !.attempts = [c \in OtpCodes |-> code[c].attempts]]
  <2>2. otpReq' = [otpReq EXCEPT ![r] = q]
    BY <1>0, <1>6 DEF LockLiveCodes, EndOtp, OtpTypeOK
  <2>3. usable \subseteq otpReq[r].rows /\ otpReq[r].rows \subseteq OtpCodes
    BY <1>0 DEF OtpCalls
  <2>4. /\ q \in OtpCalls /\ q.at \in {"idle", "locked"} /\ q.code = NoCode
        /\ q.rows \subseteq otpReq[r].rows
        /\ \A c \in q.rows : code[c].attempts < OtpMaxAttempts
        /\ \A c \in q.rows : q.attempts[c] = code[c].attempts
    <3>1. [c \in OtpCodes |-> code[c].attempts] \in [OtpCodes -> 0..OtpMaxAttempts]
      BY <1>0 DEF OtpTypeOK, CodeRows
    <3>2. CASE usable = {}
      BY <1>0, <3>2
    <3>3. CASE usable # {}
      BY <1>0, <2>1, <2>3, <3>1, <3>3 DEF OtpCalls
    <3>4. QED
      BY <3>2, <3>3
  <2> HIDE DEF q, usable
  <2>5. \A p \in OtpRequests : otpReq'[p] = IF p = r THEN q ELSE otpReq[p]
    BY <1>0, <2>2 DEF OtpTypeOK
  <2>6. OtpTypeOK' /\ CodesAgree'
    BY <1>0, <2>1, <2>2, <2>4 DEF OtpTypeOK, CodesAgree
  <2>7. FreshCodes'
    BY <1>0, <2>1, <2>4, <2>5, OtpAssumption DEF FreshCodes
  <2>8. LocksHold'
    <3>1. \A p \in OtpRequests \ {r} : otpReq[p].at = "locked" => otpReq[p].rows \cap q.rows = {}
      BY <2>1, <2>4 DEF CodesLockedByOthers
    <3>2. QED
      BY <1>0, <2>1, <2>4, <2>5, <3>1 DEF LocksHold
  <2>9. Pending' \subseteq Pending
    BY <2>1, <2>4, <2>5, OtpAssumption DEF Pending, LiveCodes
  <2>10. QED
    BY <1>0, <2>1, <2>6, <2>7, <2>8, <2>9, NoMorePending DEF OtpInv
<1>7. ASSUME NEW r \in OtpRequests, NEW matches \in SUBSET OtpCodes, VerifyCode(r, matches)
      PROVE  OtpInv'
  <2> DEFINE rows == otpReq[r].rows
             hit == {c \in matches : \A d \in matches : code[d].at <= code[c].at}
  <2>1. /\ UNCHANGED <<contact, stored, asked, verified, mailedTo, replacedBy>>
        /\ otpReq[r].at = "locked" /\ rows \subseteq OtpCodes
        /\ \A c \in rows : /\ otpReq[r].attempts[c] = code[c].attempts
                           /\ code[c].attempts < OtpMaxAttempts /\ code[c].state # "none"
        /\ \A p \in OtpRequests : otpReq'[p] = IF p = r THEN NoOtpRequest ELSE otpReq[p]
        /\ otpReq' \in [OtpRequests -> OtpCalls]
        /\ \A c \in OtpCodes : compared'[c] = compared[c] + (IF c \in rows THEN 1 ELSE 0)
        /\ compared' \in [OtpCodes -> Nat]
    <3>1. /\ UNCHANGED <<contact, stored, asked, verified, mailedTo, replacedBy>>
          /\ otpReq[r].at = "locked" /\ EndOtp(r)
          /\ compared' = [c \in OtpCodes |-> compared[c] + (IF c \in rows THEN 1 ELSE 0)]
      BY <1>7 DEF VerifyCode
    <3>2. /\ rows \subseteq OtpCodes
          /\ \A c \in rows : /\ otpReq[r].attempts[c] = code[c].attempts
                             /\ code[c].attempts < OtpMaxAttempts /\ code[c].state # "none"
      BY <1>0, <3>1 DEF OtpCalls, LocksHold
    <3>3. /\ \A p \in OtpRequests : otpReq'[p] = IF p = r THEN NoOtpRequest ELSE otpReq[p]
          /\ otpReq' \in [OtpRequests -> OtpCalls]
      BY <1>0, <3>1 DEF EndOtp, OtpTypeOK
    <3>4. compared' \in [OtpCodes -> Nat]
      BY <1>0, <3>1 DEF OtpTypeOK
    <3>5. QED
      BY <3>1, <3>2, <3>3, <3>4
  <2>2. \A c \in OtpCodes :
          code'[c] = IF c \notin rows THEN code[c]
                     ELSE [code[c] EXCEPT
                             !.attempts = otpReq[r].attempts[c] + 1,
                             !.state = IF c \in hit THEN "consumed" ELSE @,
                             !.verified = IF c \in hit THEN "recent" ELSE @]
    BY <1>7 DEF VerifyCode
  <2>3. \A c \in OtpCodes : code[c] \in CodeRows
    BY <1>0 DEF OtpTypeOK
  <2> HIDE DEF rows, hit
  <2>4. \A c \in OtpCodes :
          /\ c \notin rows => code'[c] = code[c]
          /\ c \in rows => /\ code'[c].attempts = code[c].attempts + 1
                           /\ code'[c].to = code[c].to
                           /\ code'[c].state \in {code[c].state, "consumed"}
                           /\ code'[c] \in CodeRows
    <3> SUFFICES ASSUME NEW c \in OtpCodes, c \in rows
                 PROVE  /\ code'[c].attempts = code[c].attempts + 1
                        /\ code'[c].to = code[c].to
                        /\ code'[c].state \in {code[c].state, "consumed"}
                        /\ code'[c] \in CodeRows
      BY <2>2
    <3>1. code[c].attempts + 1 \in 0..OtpMaxAttempts
      BY <2>1, <2>3, OtpAssumption DEF CodeRows
    <3> DEFINE n == otpReq[r].attempts[c] + 1
               state == IF c \in hit THEN "consumed" ELSE code[c].state
               proof == IF c \in hit THEN "recent" ELSE code[c].verified
    <3>2. code'[c] = [code[c] EXCEPT !.attempts = n, !.state = state, !.verified = proof]
      BY <2>2, <2>3 DEF CodeRows
    <3>3. /\ n \in 0..OtpMaxAttempts /\ n = code[c].attempts + 1
          /\ state \in {code[c].state, "consumed"} /\ state \in CodeStates
          /\ proof \in {"no", "recent", "old"}
      BY <2>1, <2>3, <3>1 DEF CodeRows, CodeStates
    <3> HIDE DEF n, state, proof
    <3>4. QED
      BY <2>3, <3>2, <3>3 DEF CodeRows
  <2>5. OtpTypeOK'
    <3>1. code' \in [OtpCodes -> CodeRows]
      BY <1>7, <2>3, <2>4 DEF VerifyCode
    <3>2. QED
      BY <1>0, <2>1, <3>1 DEF OtpTypeOK
  <2>6. CodesAgree'
    <3> SUFFICES ASSUME NEW c \in OtpCodes PROVE CodesAgree!(c)'
      BY DEF CodesAgree
    <3>1. replacedBy[c] # NoCode =>
            code'[replacedBy[c]].state # "none" /\ mailedTo[replacedBy[c]] = mailedTo[c]
      BY <1>0, <2>1, <2>4 DEF CodesAgree, OtpTypeOK
    <3>2. CASE c \notin rows
      BY <1>0, <2>1, <2>4, <3>1, <3>2 DEF CodesAgree, OtpTypeOK
    <3>3. CASE c \in rows
      <4>1. /\ compared[c] = code[c].attempts /\ mailedTo[c] = code[c].to
            /\ code'[c].state # "none"
        BY <1>0, <2>1, <2>4, <3>3 DEF CodesAgree
      <4>2. compared'[c] = code'[c].attempts /\ mailedTo[c] = code'[c].to
        BY <2>1, <2>4, <3>3, <4>1
      <4>3. QED
        BY <2>1, <3>1, <4>1, <4>2 DEF CodesAgree
    <3>4. QED
      BY <3>2, <3>3
  <2>7. \A c \in OtpCodes : code'[c].state \in {code[c].state, "consumed"}
                            /\ (code[c].state = "none" => code'[c].state = "none")
    BY <2>1, <2>4
  <2>8. FreshCodes'
    BY <1>0, <2>1, <2>7, OtpAssumption DEF FreshCodes
  <2>9. LocksHold'
    <3>1. ASSUME NEW p \in OtpRequests \ {r}
          PROVE  /\ \A c \in otpReq[p].rows : code'[c].state # "none"
                 /\ otpReq[p].at = "locked" =>
                      \A c \in otpReq[p].rows : code'[c] = code[c]
      <4>1. otpReq[p].rows \subseteq OtpCodes
        BY <1>0 DEF OtpCalls
      <4>2. otpReq[p].at = "locked" => otpReq[p].rows \cap rows = {}
        BY <1>0, <2>1 DEF LocksHold, rows
      <4>3. \A c \in otpReq[p].rows : code[c].state # "none"
        BY <1>0 DEF LocksHold
      <4>4. QED
        BY <2>4, <2>7, <4>1, <4>2, <4>3
    <3>2. QED
      BY <1>0, <2>1, <3>1 DEF LocksHold
  <2>10. Pending' \subseteq Pending
    BY <1>0, <2>1, <2>7, OtpAssumption DEF Pending, LiveCodes
  <2>11. QED
    BY <1>0, <2>1, <2>5, <2>6, <2>8, <2>9, <2>10, NoMorePending DEF OtpInv
<1>8. ASSUME NEW c \in OtpCodes, CodeExpires(c) \/ VerificationAges(c) PROVE OtpInv'
  <2>1. /\ UNCHANGED <<contact, stored, otpReq, asked, verified, mailedTo, compared, replacedBy>>
        /\ \A d \in OtpCodes \ {c} : code'[d] = code[d]
        /\ code[c] \in CodeRows
        /\ code' \in [OtpCodes -> CodeRows]
        /\ code'[c].attempts = code[c].attempts /\ code'[c].to = code[c].to
        /\ code'[c].state = code[c].state \/ (code[c].state = "live" /\ code'[c].state = "expired")
        /\ code[c].verified = "no" => code'[c].verified = "no"
    <3>0. code[c] \in CodeRows /\ code \in [OtpCodes -> CodeRows]
      BY <1>0 DEF OtpTypeOK
    <3>1. CASE CodeExpires(c)
      BY <3>0, <3>1 DEF CodeExpires, CodeRows, CodeStates
    <3>2. CASE VerificationAges(c)
      BY <3>0, <3>2 DEF VerificationAges, CodeRows, CodeStates
    <3>3. QED
      BY <1>8, <3>1, <3>2
  <2>2. OtpTypeOK'
    BY <1>0, <2>1 DEF OtpTypeOK
  <2>3. CodesAgree'
    <3> SUFFICES ASSUME NEW d \in OtpCodes PROVE CodesAgree!(d)'
      BY DEF CodesAgree
    <3>1. QED
      BY <1>0, <2>1 DEF CodesAgree, OtpTypeOK
  <2>4. FreshCodes'
    BY <1>0, <2>1 DEF FreshCodes
  <2>5. LocksHold'
    BY <1>0, <2>1 DEF LocksHold, OtpCalls
  <2>6. Pending' \subseteq Pending
    BY <2>1 DEF Pending, LiveCodes
  <2>7. QED
    BY <1>0, <2>1, <2>2, <2>3, <2>4, <2>5, <2>6, NoMorePending DEF OtpInv
<1>9. ASSUME BudgetLapses PROVE OtpInv'
  <2>1. /\ UNCHANGED <<contact, code, stored, otpReq, mailedTo, compared, replacedBy>>
        /\ asked' = 0 /\ verified' = 0
        /\ LiveCodes = {} /\ \A r \in OtpRequests : otpReq[r].at = "idle"
    BY <1>9 DEF BudgetLapses
  <2>2. OtpTypeOK' /\ CodesAgree' /\ FreshCodes' /\ LocksHold'
    BY <1>0, <2>1, OtpAssumption DEF OtpTypeOK, CodesAgree, FreshCodes, LocksHold
  <2>3. Pending' = {}
    BY <1>0, <2>1, OtpAssumption DEF Pending, LiveCodes, FreshCodes
  <2>4. BudgetCovers'
    BY <2>1, <2>3, FS_EmptySet, OtpAssumption DEF BudgetCovers
  <2>5. QED
    BY <2>2, <2>4 DEF OtpInv
<1>10. ASSUME NEW m \in Mailboxes \cup {NoMailbox}, ContactChanges(m) PROVE OtpInv'
  <2>1. contact' = m
        /\ UNCHANGED <<code, stored, otpReq, asked, verified, mailedTo, compared, replacedBy>>
    BY <1>10 DEF ContactChanges
  <2>2. OtpTypeOK' /\ CodesAgree' /\ FreshCodes' /\ LocksHold'
    BY <1>0, <2>1 DEF OtpTypeOK, CodesAgree, FreshCodes, LocksHold
  <2>3. Pending' \subseteq Pending
    BY <2>1 DEF Pending, LiveCodes
  <2>4. QED
    BY <1>0, <2>1, <2>2, <2>3, NoMorePending DEF OtpInv
<1>11. CASE UNCHANGED otpVars
  <2>1. OtpTypeOK' /\ CodesAgree' /\ FreshCodes' /\ LocksHold'
    BY <1>0, <1>11 DEF otpVars, OtpTypeOK, CodesAgree, FreshCodes, LocksHold
  <2>2. Pending' \subseteq Pending /\ asked' = asked
    BY <1>11 DEF otpVars, Pending, LiveCodes
  <2>3. QED
    BY <1>0, <2>1, <2>2, NoMorePending DEF OtpInv
<1>12. QED
  BY <1>1, <1>2, <1>3, <1>4, <1>5, <1>6, <1>7, <1>8, <1>9, <1>10, <1>11 DEF OtpNext

(* The LIMIT of the query never leaves a live code out: each one took a request. *)
LEMMA AllCompared == OtpInv => NoLiveCodeLeftOut
<1> SUFFICES ASSUME OtpInv, NEW c \in LiveCodes
             PROVE  Cardinality({d \in LiveCodes : code[d].at > code[c].at}) < OtpMaxRequests
  BY DEF NoLiveCodeLeftOut, Newest
<1> DEFINE newer == {d \in LiveCodes : code[d].at > code[c].at}
<1>1. IsFiniteSet(Pending) /\ Cardinality(Pending) <= OtpMaxRequests /\ Cardinality(Pending) \in Nat
  BY FS_CardinalityType DEF OtpInv, BudgetCovers
<1>2. c \in OtpCodes /\ code[c].at \in Nat /\ c \in Pending
  BY DEF OtpInv, OtpTypeOK, CodeRows, LiveCodes, Pending
<1>3. c \notin newer /\ newer \subseteq Pending \ {c}
  BY <1>2 DEF Pending
<1>4. IsFiniteSet(Pending \ {c}) /\ Cardinality(Pending \ {c}) = Cardinality(Pending) - 1
  BY <1>1, <1>2, FS_RemoveElement
<1>5. IsFiniteSet(newer) /\ Cardinality(newer) <= Cardinality(Pending \ {c})
  BY <1>3, <1>4, FS_Subset
<1>6. Cardinality(newer) \in Nat
  BY <1>5, FS_CardinalityType
<1>7. QED
  BY <1>1, <1>4, <1>5, <1>6, OtpAssumption

(* What a one-time code promises, for any mailboxes, codes, requests and limits. *)
THEOREM OtpCodesHold == OtpSpec => []CodesHold
<1>1. OtpInv => GuessesBounded
  BY DEF OtpInv, GuessesBounded, CodesAgree, OtpTypeOK, CodeRows
<1>2. OtpInv => ReplacedByDelivered
  BY DEF OtpInv, ReplacedByDelivered, CodesAgree
<1>3. OtpInv => OnlyTheClientServesHimself
  BY DEF OtpInv, OnlyTheClientServesHimself, SelfServiceAllowed, ContactVerified, TokenAccepted,
         CodesAgree
<1>4. OtpInv => CodesHold
  BY <1>1, <1>2, <1>3, AllCompared DEF CodesHold
<1>5. QED
  BY <1>4, InitOtpInv, NextOtpInv, PTL DEF OtpSpec

------------------------------------------------------------------------------
(* The bookings of the portal                                                 *)

(* A request that committed has its row, under its key; it answers once. *)
RowsOfRequests ==
    \A r \in PortalRequests :
        /\ bookReq[r].at \in {"linking", "firm", "replying"} =>
              booking[r].key = bookReq[r].key /\ booking[r].state \in {"active", "over"}
        /\ r \in answered => bookReq[r].at = "ended"

(* Who holds the row of the client is alone, and there is room for its booking. *)
RoomForHolder ==
    /\ IsFiniteSet(ActiveBookings)
    /\ ~clientKnown => ActiveBookings = {}
    /\ Cardinality(ActiveBookings) <= MaxFutureBookings
    /\ \A r \in PortalRequests : bookReq[r].at \in HoldsClient =>
          /\ Cardinality(ActiveBookings) < MaxFutureBookings
          /\ \A q \in PortalRequests \ {r} : bookReq[q].at \notin HoldsClient

(* Who holds the row of the promotion has a use of it left. *)
UseForHolder ==
    /\ promo.uses <= MaxPromoUses
    /\ \A r \in PortalRequests :
          bookReq[r].at \in HoldsPromo /\ bookReq[r].promo => promo.uses < promo.max

PortalInv ==
    /\ PortalTypeOK
    /\ RowsOfRequests
    /\ RoomForHolder
    /\ UseForHolder
    /\ OneBookingPerKey
    /\ ReplayedBookingStands

(* Nothing was booked at the start. *)
LEMMA InitPortalInv == PortalInit => PortalInv
<1> SUFFICES ASSUME PortalInit PROVE PortalInv
  OBVIOUS
<1>1. IdleRequest \in BookingCalls /\ IdleRequest.at = "idle" /\ NoRow \in BookingRows
      /\ NoRow.state = "none"
  BY DEF IdleRequest, BookingCalls, NoRow, BookingRows
<1>2. PortalTypeOK
  BY <1>1, PortalAssumption DEF PortalInit, PortalTypeOK
<1>3. ActiveBookings = {}
  BY <1>1 DEF PortalInit, ActiveBookings
<1>4. RowsOfRequests /\ RoomForHolder
  BY <1>1, <1>3, FS_EmptySet, PortalAssumption
  DEF PortalInit, RowsOfRequests, RoomForHolder, HoldsClient
<1>5. UseForHolder /\ OneBookingPerKey /\ ReplayedBookingStands
  BY <1>1, PortalAssumption
  DEF PortalInit, UseForHolder, HoldsPromo, OneBookingPerKey, ReplayedBookingStands
<1>6. QED
  BY <1>2, <1>4, <1>5 DEF PortalInv

(* A step of one request that touches no row. *)
LEMMA RequestGoes ==
    ASSUME PortalInv, NEW r \in PortalRequests, NEW q \in BookingCalls,
           bookReq' = [bookReq EXCEPT ![r] = q], UntouchedRows,
           mark' \in [BookingKeys -> {"none", "processing", "result"}],
           \A k \in BookingKeys : mark'[k] = "result" => mark[k] = "result",
           r \in answered => q.at = "ended",
           q.at \in {"linking", "firm", "replying"} =>
              bookReq[r].at \in {"linking", "firm", "replying"} /\ q.key = bookReq[r].key,
           q.at \in HoldsClient =>
              /\ Cardinality(ActiveBookings) < MaxFutureBookings
              /\ \A p \in PortalRequests \ {r} : bookReq[p].at \notin HoldsClient,
           q.at \in HoldsPromo /\ q.promo => promo.uses < promo.max
    PROVE  PortalInv'
<1> USE DEF PortalInv, UntouchedRows
<1>1. \A p \in PortalRequests : bookReq'[p] = IF p = r THEN q ELSE bookReq[p]
  BY DEF PortalTypeOK
<1>2. PortalTypeOK'
  BY DEF PortalTypeOK
<1>3. RowsOfRequests'
  BY <1>1 DEF RowsOfRequests
<1>4. RoomForHolder'
  <2>1. ActiveBookings' = ActiveBookings /\ clientKnown' = clientKnown
    BY DEF ActiveBookings
  <2>2. QED
    BY <1>1, <2>1 DEF RoomForHolder
<1>5. UseForHolder'
  BY <1>1 DEF UseForHolder
<1>6. OneBookingPerKey' /\ ReplayedBookingStands'
  BY DEF OneBookingPerKey, ReplayedBookingStands
<1>7. QED
  BY <1>2, <1>3, <1>4, <1>5, <1>6

(* The rows, after a step that makes no booking active. *)
LEMMA NoMoreActive ==
    ASSUME PortalInv, ActiveBookings' \subseteq ActiveBookings, clientKnown => clientKnown',
           \A r \in PortalRequests : bookReq'[r].at \in HoldsClient => bookReq[r].at \in HoldsClient
    PROVE  RoomForHolder'
<1>1. IsFiniteSet(ActiveBookings) /\ Cardinality(ActiveBookings) \in Nat
  BY FS_CardinalityType DEF PortalInv, RoomForHolder
<1>2. /\ IsFiniteSet(ActiveBookings') /\ Cardinality(ActiveBookings') <= Cardinality(ActiveBookings)
      /\ Cardinality(ActiveBookings') \in Nat
  BY <1>1, FS_Subset, FS_CardinalityType
<1>3. QED
  BY <1>1, <1>2, PortalAssumption DEF PortalInv, RoomForHolder, HoldsClient

(* Every step of every booking, replay and cancellation keeps the invariant. *)
LEMMA NextPortalInv == PortalInv /\ [PortalNext]_portalVars => PortalInv'
<1> SUFFICES ASSUME PortalInv, [PortalNext]_portalVars PROVE PortalInv'
  OBVIOUS
<1>0. PortalTypeOK /\ RowsOfRequests /\ RoomForHolder /\ UseForHolder /\ OneBookingPerKey
      /\ ReplayedBookingStands
  BY DEF PortalInv
<1>g. ASSUME NEW r \in PortalRequests, NEW place, Goes(r, place),
             place \in {"admitted", "resolved", "counted", "redeemed", "linking", "firm",
                        "replying", "failing", "releasing", "ended"}
      PROVE  \E q \in BookingCalls :
                /\ bookReq' = [bookReq EXCEPT ![r] = q]
                /\ q.at = place
                /\ place # "ended" => q.key = bookReq[r].key /\ q.promo = bookReq[r].promo
  <2>1. bookReq[r] \in BookingCalls /\ IdleRequest \in BookingCalls
    BY <1>0 DEF PortalTypeOK, IdleRequest, BookingCalls
  <2>2. CASE place = "ended"
    <3>1. [IdleRequest EXCEPT !.at = "ended"] \in BookingCalls
          /\ [IdleRequest EXCEPT !.at = "ended"].at = "ended"
      BY <2>1 DEF BookingCalls
    <3>2. bookReq' = [bookReq EXCEPT ![r] = [IdleRequest EXCEPT !.at = "ended"]]
      BY <1>g, <2>2 DEF Goes
    <3>3. QED
      BY <2>2, <3>1, <3>2
  <2>3. CASE place # "ended"
    <3> DEFINE q == [bookReq[r] EXCEPT !.at = place]
    <3>1. q \in BookingCalls /\ q.at = place /\ q.key = bookReq[r].key /\ q.promo = bookReq[r].promo
      BY <1>g, <2>1 DEF BookingCalls
    <3>2. bookReq' = [bookReq EXCEPT ![r] = q]
      BY <1>g, <2>3 DEF Goes
    <3>3. QED
      BY <3>1, <3>2
  <2>4. QED
    BY <2>2, <2>3
<1>h. /\ "counted" \in HoldsClient /\ "redeemed" \in HoldsClient /\ "redeemed" \in HoldsPromo
      /\ \A place : /\ place \in HoldsClient => place \in {"counted", "redeemed"}
                    /\ place \in HoldsPromo => place = "redeemed"
  BY DEF HoldsClient, HoldsPromo
<1>1. ASSUME NEW r \in PortalRequests, NEW k \in BookingKeys, NEW withPromo \in BOOLEAN,
             NEW withCharge \in BOOLEAN, CreatePublicBooking(r, k, withPromo, withCharge)
      PROVE  PortalInv'
  <2> DEFINE q == [at |-> "admitted", key |-> k, promo |-> withPromo, charge |-> withCharge]
  <2>1. q \in BookingCalls /\ q.at = "admitted"
    BY DEF BookingCalls
  <2>2. bookReq' = [bookReq EXCEPT ![r] = q] /\ UntouchedRows /\ r \notin answered
    BY <1>0, <1>1 DEF CreatePublicBooking, At, RowsOfRequests
  <2>3. /\ mark' \in [BookingKeys -> {"none", "processing", "result"}]
        /\ \A j \in BookingKeys : mark'[j] = "result" => mark[j] = "result"
    BY <1>0, <1>1 DEF CreatePublicBooking, IdempotencyGuard, GuardWithoutRedis, PortalTypeOK
  <2> HIDE DEF q
  <2>4. QED
    BY <1>h, <2>1, <2>2, <2>3, RequestGoes
<1>2. ASSUME NEW r \in PortalRequests,
             NEW place \in {"resolved", "failing", "releasing", "ended", "firm"},
             Goes(r, place), UntouchedRows, r \in answered => place = "ended",
             place = "firm" => bookReq[r].at = "linking",
             mark' \in [BookingKeys -> {"none", "processing", "result"}],
             \A j \in BookingKeys : mark'[j] = "result" => mark[j] = "result"
      PROVE  PortalInv'
  <2>1. PICK q \in BookingCalls : /\ bookReq' = [bookReq EXCEPT ![r] = q]
                                  /\ q.at = place
                                  /\ place # "ended" => q.key = bookReq[r].key
    BY <1>2, <1>g
  <2>2. QED
    BY <1>2, <1>h, <2>1, RequestGoes
<1>m. mark' = mark => /\ mark' \in [BookingKeys -> {"none", "processing", "result"}]
                      /\ \A j \in BookingKeys : mark'[j] = "result" => mark[j] = "result"
  BY <1>0 DEF PortalTypeOK
<1>a. \A r \in answered : r \in PortalRequests /\ bookReq[r].at = "ended"
  BY <1>0 DEF PortalTypeOK, RowsOfRequests
<1>3. ASSUME NEW r \in PortalRequests, ResolveRequest(r) \/ PortalRefuses(r) \/ LinkAttached(r)
                                       \/ ReleaseReads(r)
      PROVE  PortalInv'
  BY <1>2, <1>3, <1>m, <1>a DEF ResolveRequest, PortalRefuses, LinkAttached, ReleaseReads, At
<1>4. ASSUME NEW r \in PortalRequests, ReleaseDeletes(r) \/ PortalRequestDies(r) PROVE PortalInv'
  <2>1. CASE ReleaseDeletes(r)
    BY <1>0, <1>2, <1>a, <2>1 DEF ReleaseDeletes, PortalTypeOK
  <2>2. CASE PortalRequestDies(r)
    BY <1>2, <1>a, <1>m, <2>2 DEF PortalRequestDies
  <2>3. QED
    BY <1>4, <2>1, <2>2
<1>5. ASSUME NEW r \in PortalRequests, LockClientAndCount(r) PROVE PortalInv'
  <2>1. /\ \A p \in PortalRequests \ {r} : bookReq[p].at \notin HoldsClient
        /\ bookReq[r].at = "resolved" /\ mark' = mark /\ UntouchedRows
    BY <1>5 DEF LockClientAndCount, CountWithoutLock, At
  <2>2. CASE clientKnown /\ Cardinality(ActiveBookings) + panelBookings >= MaxFutureBookings
    <3>1. Goes(r, "failing")
      BY <1>5, <2>2 DEF LockClientAndCount, CountWithoutLock, CountFutureBookings
    <3>2. QED
      BY <1>2, <1>a, <1>m, <2>1, <3>1
  <2>3. CASE ~ (clientKnown /\ Cardinality(ActiveBookings) + panelBookings >= MaxFutureBookings)
    <3>1. Goes(r, "counted")
      BY <1>5, <2>3 DEF LockClientAndCount, CountWithoutLock, CountFutureBookings
    <3>2. Cardinality(ActiveBookings) < MaxFutureBookings
      <4>1. Cardinality(ActiveBookings) \in Nat /\ panelBookings \in Nat
        BY <1>0, FS_CardinalityType DEF RoomForHolder, PortalTypeOK
      <4>2. CASE ~clientKnown
        BY <1>0, <4>2, FS_EmptySet, PortalAssumption DEF RoomForHolder
      <4>3. CASE clientKnown
        BY <2>3, <4>1, <4>3, PortalAssumption
      <4>4. QED
        BY <4>2, <4>3
    <3>3. PICK q \in BookingCalls : bookReq' = [bookReq EXCEPT ![r] = q] /\ q.at = "counted"
      BY <1>g, <3>1
    <3>4. QED
      BY <1>a, <1>h, <1>m, <2>1, <3>2, <3>3, RequestGoes
  <2>4. QED
    BY <2>2, <2>3
<1>6. ASSUME NEW r \in PortalRequests, RedeemPromotion(r) PROVE PortalInv'
  <2>1. bookReq[r].at = "counted" /\ mark' = mark /\ UntouchedRows
    BY <1>6 DEF RedeemPromotion, At
  <2>2. CASE ~ (bookReq[r].promo => PromotionApplies)
    <3>1. Goes(r, "failing")
      BY <1>6, <2>2 DEF RedeemPromotion
    <3>2. QED
      BY <1>2, <1>a, <1>m, <2>1, <3>1
  <2>3. CASE bookReq[r].promo => PromotionApplies
    <3>1. Goes(r, "redeemed")
      BY <1>6, <2>3 DEF RedeemPromotion
    <3>2. /\ Cardinality(ActiveBookings) < MaxFutureBookings
          /\ \A p \in PortalRequests \ {r} : bookReq[p].at \notin HoldsClient
      BY <1>0, <1>h, <2>1 DEF RoomForHolder
    <3>3. PICK q \in BookingCalls : /\ bookReq' = [bookReq EXCEPT ![r] = q] /\ q.at = "redeemed"
                                    /\ q.promo = bookReq[r].promo
      BY <1>g, <3>1
    <3>4. q.promo => promo.uses < promo.max
      BY <2>3, <3>3 DEF PromotionApplies
    <3>5. QED
      BY <1>a, <1>h, <1>m, <2>1, <3>2, <3>3, <3>4, RequestGoes
  <2>4. QED
    BY <2>2, <2>3
<1>7. ASSUME NEW r \in PortalRequests, CommitBooking(r) PROVE PortalInv'
  <2> DEFINE key == bookReq[r].key
             row == [state |-> "active", key |-> key, redeemed |-> bookReq[r].promo]
  <2>1. /\ bookReq[r].at = "redeemed" /\ r \notin answered
        /\ UNCHANGED <<mark, panelBookings, quotaSpent, answered>>
        /\ Cardinality(ActiveBookings) < MaxFutureBookings
        /\ \A p \in PortalRequests \ {r} : bookReq[p].at \notin HoldsClient
        /\ bookReq[r].promo => promo.uses < promo.max
        /\ bookReq[r] \in BookingCalls /\ booking[r] \in BookingRows
    BY <1>0, <1>7, <1>a, <1>h DEF CommitBooking, At, RoomForHolder, UseForHolder, PortalTypeOK
  <2>2. CASE ~KeyIsFree(key)
    <3>1. Goes(r, "failing") /\ UntouchedRows
      BY <1>7, <2>1, <2>2 DEF CommitBooking, UntouchedRows
    <3>2. QED
      BY <1>2, <1>m, <2>1, <3>1
  <2>3. CASE KeyIsFree(key)
    <3>1. /\ booking' = [booking EXCEPT ![r] = row]
          /\ clientKnown' = TRUE
          /\ promo' = IF bookReq[r].promo THEN [promo EXCEPT !.uses = @ + 1] ELSE promo
          /\ Goes(r, IF bookReq[r].charge THEN "linking" ELSE "firm")
      BY <1>7, <2>3 DEF CommitBooking
    <3>2. row \in BookingRows /\ row.state = "active" /\ row.key = key
      BY <2>1 DEF BookingRows, BookingCalls
    <3> HIDE DEF row
    <3>3. PICK q \in BookingCalls : /\ bookReq' = [bookReq EXCEPT ![r] = q]
                                    /\ q.at \in {"linking", "firm"} /\ q.key = key
      <4>1. CASE bookReq[r].charge
        BY <1>g, <3>1, <4>1
      <4>2. CASE ~bookReq[r].charge
        BY <1>g, <3>1, <4>2
      <4>3. QED
        BY <4>1, <4>2
    <3>4. /\ \A p \in PortalRequests : bookReq'[p] = IF p = r THEN q ELSE bookReq[p]
          /\ \A p \in PortalRequests : booking'[p] = IF p = r THEN row ELSE booking[p]
      BY <1>0, <3>1, <3>3 DEF PortalTypeOK
    <3>5. promo' \in [active : BOOLEAN, max : 0..MaxPromoUses, uses : Nat]
          /\ promo'.uses <= MaxPromoUses
      <4>0. promo \in [active : BOOLEAN, max : 0..MaxPromoUses, uses : Nat]
            /\ promo.uses <= MaxPromoUses
        BY <1>0 DEF PortalTypeOK, UseForHolder
      <4>1. CASE bookReq[r].promo
        BY <2>1, <3>1, <4>0, <4>1, PortalAssumption
      <4>2. CASE ~bookReq[r].promo
        BY <3>1, <4>0, <4>2
      <4>3. QED
        BY <4>1, <4>2
    <3>6. PortalTypeOK'
      BY <1>0, <2>1, <3>1, <3>2, <3>3, <3>5 DEF PortalTypeOK
    <3>7. RowsOfRequests'
      BY <1>0, <2>1, <3>2, <3>3, <3>4 DEF RowsOfRequests
    <3>8. RoomForHolder'
      <4>1. ActiveBookings' = ActiveBookings \cup {r}
        BY <3>2, <3>4 DEF ActiveBookings
      <4>2. IsFiniteSet(ActiveBookings) /\ Cardinality(ActiveBookings) \in Nat
        BY <1>0, FS_CardinalityType DEF RoomForHolder
      <4>3. /\ IsFiniteSet(ActiveBookings')
            /\ Cardinality(ActiveBookings') = IF r \in ActiveBookings THEN Cardinality(ActiveBookings)
                                              ELSE Cardinality(ActiveBookings) + 1
        BY <4>1, <4>2, FS_AddElement
      <4>4. Cardinality(ActiveBookings') <= MaxFutureBookings
        BY <2>1, <4>2, <4>3, PortalAssumption
      <4>5. \A p \in PortalRequests : bookReq'[p].at \notin HoldsClient
        BY <1>h, <2>1, <3>3, <3>4
      <4>6. QED
        BY <3>1, <4>3, <4>4, <4>5 DEF RoomForHolder
    <3>9. UseForHolder'
      BY <1>h, <2>1, <3>3, <3>4, <3>5 DEF UseForHolder, HoldsClient, HoldsPromo
    <3>10. OneBookingPerKey'
      BY <1>0, <2>3, <3>2, <3>4 DEF OneBookingPerKey, KeyIsFree
    <3>11. ReplayedBookingStands'
      BY <1>0, <1>a, <2>1, <3>4 DEF ReplayedBookingStands
    <3>12. QED
      BY <3>6, <3>7, <3>8, <3>9, <3>10, <3>11 DEF PortalInv
  <2>4. QED
    BY <2>2, <2>3
<1>8. ASSUME NEW r \in PortalRequests, RevertFailedBooking(r) PROVE PortalInv'
  <2> DEFINE row == [booking[r] EXCEPT !.state = "reverted", !.redeemed = FALSE]
  <2>1. /\ bookReq[r].at = "linking" /\ Goes(r, "failing") /\ r \notin answered
        /\ booking' = [booking EXCEPT ![r] = row]
        /\ UNCHANGED <<mark, clientKnown, panelBookings, promo, quotaSpent, answered>>
        /\ booking[r] \in BookingRows
    BY <1>0, <1>8, <1>a DEF RevertFailedBooking, At, PortalTypeOK
  <2>2. row \in BookingRows /\ row.state = "reverted"
    BY <2>1 DEF BookingRows
  <2> HIDE DEF row
  <2>3. PICK q \in BookingCalls : bookReq' = [bookReq EXCEPT ![r] = q] /\ q.at = "failing"
    BY <1>g, <2>1
  <2>4. /\ \A p \in PortalRequests : bookReq'[p] = IF p = r THEN q ELSE bookReq[p]
        /\ \A p \in PortalRequests : booking'[p] = IF p = r THEN row ELSE booking[p]
    BY <1>0, <2>1, <2>3 DEF PortalTypeOK
  <2>5. PortalTypeOK' /\ RowsOfRequests'
    BY <1>0, <2>1, <2>2, <2>3, <2>4 DEF PortalTypeOK, RowsOfRequests
  <2>6. RoomForHolder'
    <3>1. ActiveBookings' \subseteq ActiveBookings
      BY <2>2, <2>4 DEF ActiveBookings
    <3>2. QED
      BY <1>h, <2>1, <2>3, <2>4, <3>1, NoMoreActive
  <2>7. UseForHolder' /\ OneBookingPerKey'
    BY <1>0, <1>h, <2>1, <2>2, <2>3, <2>4 DEF UseForHolder, OneBookingPerKey
  <2>8. ReplayedBookingStands'
    BY <1>0, <1>a, <2>1, <2>4 DEF ReplayedBookingStands
  <2>9. QED
    BY <2>5, <2>6, <2>7, <2>8 DEF PortalInv
<1>9. ASSUME NEW r \in PortalRequests, ConsumeDailyQuota(r) PROVE PortalInv'
  <2>1. /\ bookReq[r].at = "firm" /\ r \notin answered /\ Goes(r, "replying")
        /\ quotaSpent' \in Nat
        /\ UNCHANGED <<mark, booking, clientKnown, panelBookings, promo, answered>>
    BY <1>0, <1>9, <1>a DEF ConsumeDailyQuota, At, PortalTypeOK
  <2>2. PICK q \in BookingCalls : /\ bookReq' = [bookReq EXCEPT ![r] = q] /\ q.at = "replying"
                                  /\ q.key = bookReq[r].key
    BY <1>g, <2>1
  <2>3. \A p \in PortalRequests : bookReq'[p] = IF p = r THEN q ELSE bookReq[p]
    BY <1>0, <2>2 DEF PortalTypeOK
  <2>4. PortalTypeOK' /\ RowsOfRequests'
    BY <1>0, <2>1, <2>2, <2>3 DEF PortalTypeOK, RowsOfRequests
  <2>5. RoomForHolder'
    <3>1. ActiveBookings' \subseteq ActiveBookings
      BY <2>1 DEF ActiveBookings
    <3>2. QED
      BY <1>h, <2>1, <2>2, <2>3, <3>1, NoMoreActive
  <2>6. UseForHolder' /\ OneBookingPerKey' /\ ReplayedBookingStands'
    BY <1>0, <1>h, <2>1, <2>2, <2>3 DEF UseForHolder, OneBookingPerKey, ReplayedBookingStands
  <2>7. QED
    BY <2>4, <2>5, <2>6 DEF PortalInv
<1>10. ASSUME NEW r \in PortalRequests, IdempotencySave(r) PROVE PortalInv'
  <2>1. /\ bookReq[r].at = "replying" /\ Goes(r, "ended")
        /\ mark' = [mark EXCEPT ![bookReq[r].key] = "result"] \/ mark' = mark
        /\ answered' = answered \cup {r}
        /\ UNCHANGED <<booking, clientKnown, panelBookings, promo, quotaSpent>>
        /\ booking[r].key = bookReq[r].key /\ booking[r].state \in {"active", "over"}
    BY <1>0, <1>10 DEF IdempotencySave, At, RowsOfRequests
  <2>2. PICK q \in BookingCalls : bookReq' = [bookReq EXCEPT ![r] = q] /\ q.at = "ended"
    BY <1>g, <2>1
  <2>3. \A p \in PortalRequests : bookReq'[p] = IF p = r THEN q ELSE bookReq[p]
    BY <1>0, <2>2 DEF PortalTypeOK
  <2>4. PortalTypeOK' /\ RowsOfRequests'
    BY <1>0, <2>1, <2>2, <2>3 DEF PortalTypeOK, RowsOfRequests
  <2>5. RoomForHolder'
    <3>1. ActiveBookings' \subseteq ActiveBookings
      BY <2>1 DEF ActiveBookings
    <3>2. QED
      BY <1>h, <2>1, <2>2, <2>3, <3>1, NoMoreActive
  <2>6. UseForHolder' /\ OneBookingPerKey'
    BY <1>0, <1>h, <2>1, <2>2, <2>3 DEF UseForHolder, OneBookingPerKey
  <2>7. ReplayedBookingStands'
    BY <1>0, <2>1 DEF ReplayedBookingStands, PortalTypeOK
  <2>8. QED
    BY <2>4, <2>5, <2>6, <2>7 DEF PortalInv
<1>11. ASSUME NEW r \in PortalRequests, BookingOver(r) PROVE PortalInv'
  <2> DEFINE row == [booking[r] EXCEPT !.state = "over"]
  <2>1. /\ booking[r].state = "active" /\ booking[r] \in BookingRows
        /\ booking' = [booking EXCEPT ![r] = row]
        /\ UNCHANGED <<mark, bookReq, clientKnown, panelBookings, promo, quotaSpent, answered>>
    BY <1>0, <1>11 DEF BookingOver, PortalTypeOK
  <2>2. row \in BookingRows /\ row.state = "over" /\ row.key = booking[r].key
    BY <2>1 DEF BookingRows
  <2> HIDE DEF row
  <2>3. \A p \in PortalRequests : booking'[p] = IF p = r THEN row ELSE booking[p]
    BY <1>0, <2>1 DEF PortalTypeOK
  <2>4. PortalTypeOK' /\ RowsOfRequests'
    BY <1>0, <2>1, <2>2, <2>3 DEF PortalTypeOK, RowsOfRequests
  <2>5. RoomForHolder'
    <3>1. ActiveBookings' \subseteq ActiveBookings
      BY <2>2, <2>3 DEF ActiveBookings
    <3>2. QED
      BY <2>1, <3>1, NoMoreActive
  <2>6. UseForHolder' /\ OneBookingPerKey'
    BY <1>0, <2>1, <2>2, <2>3 DEF UseForHolder, OneBookingPerKey
  <2>7. ReplayedBookingStands'
    BY <1>0, <2>1, <2>2, <2>3 DEF ReplayedBookingStands
  <2>8. QED
    BY <2>4, <2>5, <2>6, <2>7 DEF PortalInv
<1>12. ASSUME NEW k \in BookingKeys, MarkExpires(k) PROVE PortalInv'
  <2>1. /\ mark' = [mark EXCEPT ![k] = "none"] /\ bookReq' = bookReq /\ UntouchedRows
    BY <1>12 DEF MarkExpires
  <2>2. PortalTypeOK' /\ RowsOfRequests' /\ UseForHolder' /\ OneBookingPerKey' /\ ReplayedBookingStands'
    BY <1>0, <2>1 DEF UntouchedRows, PortalTypeOK, RowsOfRequests, UseForHolder, OneBookingPerKey,
                      ReplayedBookingStands
  <2>3. RoomForHolder'
    BY <2>1, NoMoreActive DEF UntouchedRows, ActiveBookings
  <2>4. QED
    BY <2>2, <2>3 DEF PortalInv
<1>13. ASSUME PanelBooks PROVE PortalInv'
  <2>1. /\ panelBookings' = panelBookings + 1 /\ panelBookings < MaxPanelBookings /\ clientKnown' = TRUE
        /\ UNCHANGED <<mark, bookReq, booking, promo, quotaSpent, answered>>
    BY <1>13 DEF PanelBooks
  <2>2. PortalTypeOK'
    BY <1>0, <2>1, PortalAssumption DEF PortalTypeOK
  <2>3. RowsOfRequests' /\ UseForHolder' /\ OneBookingPerKey' /\ ReplayedBookingStands'
    BY <1>0, <2>1 DEF RowsOfRequests, UseForHolder, OneBookingPerKey, ReplayedBookingStands
  <2>4. RoomForHolder'
    BY <2>1, NoMoreActive DEF ActiveBookings
  <2>5. QED
    BY <2>2, <2>3, <2>4 DEF PortalInv
<1>14. ASSUME NEW active \in BOOLEAN, NEW max \in 0..MaxPromoUses, UpdatePromotion(active, max)
       PROVE  PortalInv'
  <2>1. /\ \A q \in PortalRequests : bookReq[q].promo => bookReq[q].at \notin HoldsPromo
        /\ promo' = [promo EXCEPT !.active = active, !.max = max]
        /\ UNCHANGED <<mark, bookReq, booking, clientKnown, panelBookings, quotaSpent, answered>>
        /\ promo \in [active : BOOLEAN, max : 0..MaxPromoUses, uses : Nat]
    BY <1>0, <1>14 DEF UpdatePromotion, PortalTypeOK
  <2>2. promo' \in [active : BOOLEAN, max : 0..MaxPromoUses, uses : Nat] /\ promo'.uses = promo.uses
    BY <2>1
  <2>3. PortalTypeOK'
    BY <1>0, <2>1, <2>2 DEF PortalTypeOK
  <2>4. UseForHolder'
    BY <1>0, <2>1, <2>2 DEF UseForHolder
  <2>5. RowsOfRequests' /\ OneBookingPerKey' /\ ReplayedBookingStands'
    BY <1>0, <2>1 DEF RowsOfRequests, OneBookingPerKey, ReplayedBookingStands
  <2>6. RoomForHolder'
    BY <2>1, NoMoreActive DEF ActiveBookings
  <2>7. QED
    BY <2>3, <2>4, <2>5, <2>6 DEF PortalInv
<1>15. ASSUME QuotaDayEnds PROVE PortalInv'
  <2>1. /\ quotaSpent' = 0
        /\ UNCHANGED <<mark, bookReq, booking, clientKnown, panelBookings, promo, answered>>
    BY <1>15 DEF QuotaDayEnds
  <2>2. PortalTypeOK' /\ RowsOfRequests' /\ UseForHolder' /\ OneBookingPerKey' /\ ReplayedBookingStands'
    BY <1>0, <2>1 DEF PortalTypeOK, RowsOfRequests, UseForHolder, OneBookingPerKey, ReplayedBookingStands
  <2>3. RoomForHolder'
    BY <2>1, NoMoreActive DEF ActiveBookings
  <2>4. QED
    BY <2>2, <2>3 DEF PortalInv
<1>16. CASE UNCHANGED portalVars
  <2>1. PortalTypeOK' /\ RowsOfRequests' /\ UseForHolder' /\ OneBookingPerKey' /\ ReplayedBookingStands'
    BY <1>0, <1>16 DEF portalVars, PortalTypeOK, RowsOfRequests, UseForHolder, OneBookingPerKey,
                       ReplayedBookingStands
  <2>2. RoomForHolder'
    BY <1>16, NoMoreActive DEF portalVars, ActiveBookings
  <2>3. QED
    BY <2>1, <2>2 DEF PortalInv
<1>17. QED
  BY <1>1, <1>3, <1>4, <1>5, <1>6, <1>7, <1>8, <1>9, <1>10, <1>11, <1>12, <1>13, <1>14, <1>15, <1>16
  DEF PortalNext

(* A key of the portal books once and replays a booking that stands; ... *)
THEOREM PortalHonoursKeys == PortalSpec => []KeyIsHonoured
<1>1. PortalInv => KeyIsHonoured
  BY DEF PortalInv, KeyIsHonoured
<1>2. QED
  BY <1>1, InitPortalInv, NextPortalInv, PTL DEF PortalSpec

(* ... and the cap of the phone and the uses of the promotion are never passed, for any *)
(* number of requests, keys and limits.                                                *)
THEOREM PortalWithinLimits == PortalSpec => []LimitsHold
<1>1. PortalInv => LimitsHold
  BY DEF PortalInv, LimitsHold, PortalCap, PromotionWithinLimit, RoomForHolder, UseForHolder
<1>2. QED
  BY <1>1, InitPortalInv, NextPortalInv, PTL DEF PortalSpec
==============================================================================
