------------------------------ MODULE Sessions ------------------------------
(* Panel sessions (modules/auth): login, rotation of the refresh token,     *)
(* logout, and everything that has to end the sessions of an account.       *)
(*                                                                          *)
(* A session is one row of auth_sessions and stands for its refresh token.  *)
(* Requests are interleaved at their statements: what a request read may be *)
(* old when it writes, a rotation keeps its row locked until it commits, and *)
(* the UPDATE that revokes sees the rows committed when it began and waits   *)
(* for the ones that are locked.                                            *)
EXTENDS Naturals, FiniteSets

CONSTANTS Users,            \* accounts that may log in
          GlobalAdmins,     \* the ones a store's panic button does not reach
          SessionIds,
          AuthRequests,     \* requests in flight at once
          NoSession,
          MaxLoginFailures, \* LOGIN_LOCKOUT_MAX_ATTEMPTS
          MaxCuts           \* bound: revocations per account

ASSUME SessionsAssumption == NoSession \notin Users \cup SessionIds

VARIABLES account,   \* per user: active, failures, reset (a link is pending)
          session,   \* per id: user, state, parent (the one it was rotated from)
          authReq,   \* per request: where it is and what it has read
          cuts,      \* history: revocations of all the sessions of a user
          born,      \* history: cuts when the credential of a session was read
          raced      \* history: sessions whose request overlapped a revocation

sessionVars == <<account, session, authReq, cuts, born, raced>>

(* "rotated" is revoked by rotation: recently, or outside the grace window.  *)
SessionStates == {"none", "live", "expired", "rotatedNow", "rotated", "revoked",
                  "purged"}

Quiet == [at |-> "idle", user |-> NoSession, on |-> NoSession, rows |-> {},
          keep |-> NoSession, why |-> "none", saw |-> 0, overlap |-> FALSE]

Unrevoked(s) == session[s].state \in {"live", "expired"}

SessionRows == [user : Users \cup {NoSession}, state : SessionStates,
                parent : SessionIds \cup {NoSession}]
AuthCalls == [at : {"idle", "login", "refresh", "claimed", "close", "reset", "revoking"},
              user : Users \cup {NoSession}, on : SessionIds \cup {NoSession},
              rows : SUBSET SessionIds, keep : SessionIds \cup {NoSession},
              why : {"none", "active", "inactive", "reuse", "reset", "change", "baja",
                     "user", "store", "all"},
              saw : Nat, overlap : BOOLEAN]

SessionsTypeOK ==
    /\ account \in [Users -> [active : BOOLEAN, failures : Nat, reset : BOOLEAN]]
    /\ session \in [SessionIds -> SessionRows]
    /\ authReq \in [AuthRequests -> AuthCalls]
    /\ cuts \in [Users -> Nat]
    /\ born \in [SessionIds -> Nat]
    /\ raced \subseteq SessionIds

SessionsInit ==
    /\ account = [u \in Users |-> [active |-> TRUE, failures |-> 0, reset |-> FALSE]]
    /\ session = [s \in SessionIds |->
                    [user |-> NoSession, state |-> "none", parent |-> NoSession]]
    /\ authReq = [r \in AuthRequests |-> Quiet]
    /\ cuts = [u \in Users |-> 0]
    /\ born = [s \in SessionIds |-> 0]
    /\ raced = {}

-----------------------------------------------------------------------------
(* The row a rotation has claimed and not committed. *)
RowLocked(s) == \E r \in AuthRequests : authReq[r].at = "claimed" /\ authReq[r].on = s

(* get_current_user: the session of the token is unrevoked, not expired, and *)
(* the account is active now.                                                *)
Authenticated(u) ==
    /\ account[u].active
    /\ \E s \in SessionIds : session[s].user = u /\ session[s].state = "live"

(* _new_auth_session, committed *)
NewSession(s, u, from) ==
    /\ session[s].state = "none"
    /\ session' = [session EXCEPT ![s] = [user |-> u, state |-> "live", parent |-> from]]

(* The accounts a revocation in flight is about. *)
Reached(r) ==
    CASE authReq[r].why = "store" -> Users \ GlobalAdmins
      [] authReq[r].why = "all" -> Users
      [] OTHER -> {authReq[r].user}

(* History: a session that r commits now began before a revocation ended. *)
Overlapped(r) ==
    \/ authReq[r].overlap
    \/ \E q \in AuthRequests :
         authReq[q].at = "revoking" /\ authReq[r].user \in Reached(q)

Finish(r) == authReq' = [authReq EXCEPT ![r] = Quiet]

-----------------------------------------------------------------------------
(* login_user: the lockout and the row with its password hash are read, then *)
(* bcrypt runs in a thread. *)
LoginRead(r, u) ==
    /\ authReq[r].at = "idle"
    /\ account[u].failures < MaxLoginFailures
    /\ authReq' = [authReq EXCEPT ![r] = [Quiet EXCEPT !.at = "login", !.user = u,
                     !.saw = cuts[u],
                     !.why = IF account[u].active THEN "active" ELSE "inactive"]]
    /\ UNCHANGED <<account, session, cuts, born, raced>>

(* A wrong password, or an account that was not active when it was read. *)
LoginFail(r) ==
    /\ authReq[r].at = "login"
    /\ account' = [account EXCEPT ![authReq[r].user].failures = @ + 1]
    /\ Finish(r)
    /\ UNCHANGED <<session, cuts, born, raced>>

(* The password is the one that was read: the session is committed and the   *)
(* counter cleared. *)
LoginOk(r, s) ==
    LET u == authReq[r].user
    IN  /\ authReq[r].at = "login"
        /\ authReq[r].why = "active"
        /\ NewSession(s, u, NoSession)
        /\ account' = [account EXCEPT ![u].failures = 0]
        /\ born' = [born EXCEPT ![s] = authReq[r].saw]
        /\ raced' = IF Overlapped(r) THEN raced \cup {s} ELSE raced
        /\ Finish(r)
        /\ UNCHANGED cuts

(* LOGIN_LOCKOUT_WINDOW_SECONDS pass. *)
LockoutLapses(u) ==
    /\ account[u].failures > 0
    /\ account' = [account EXCEPT ![u].failures = 0]
    /\ UNCHANGED <<session, authReq, cuts, born, raced>>

-----------------------------------------------------------------------------
(* _revoke_sessions: one UPDATE over the unrevoked rows it sees as it begins. *)
(* Until it commits it is in flight (at = "revoking"); why says in which      *)
(* transaction. *)
BeginRevoke(r, u, rows, keep, why) ==
    /\ cuts[u] < MaxCuts
    /\ authReq' = [authReq EXCEPT ![r] =
         [Quiet EXCEPT !.at = "revoking", !.user = u, !.rows = rows, !.keep = keep,
                       !.why = why]]

RowsOf(us) == {s \in SessionIds : session[s].user \in us /\ Unrevoked(s)}

(* _rotated_moments_ago, read from the table *)
WithinGrace(s) == session[s].state = "rotatedNow"

(* _handle_refresh_reuse: a 401; outside the grace window the family ends. *)
HandleReuse(r, s) ==
    /\ IF WithinGrace(s)
       THEN Finish(r)
       ELSE BeginRevoke(r, session[s].user, RowsOf({session[s].user}), NoSession,
                        "reuse")
    /\ UNCHANGED <<account, session, cuts, born, raced>>

(* refresh_session up to its UPDATE: the row and the account are read. *)
RefreshRead(r, s) ==
    /\ authReq[r].at = "idle"
    /\ session[s].state = "live"
    /\ account[session[s].user].active
    /\ authReq' = [authReq EXCEPT ![r] =
         [Quiet EXCEPT !.at = "refresh", !.user = session[s].user, !.on = s]]
    /\ UNCHANGED <<account, session, cuts, born, raced>>

(* ... or the token comes already revoked. *)
RefreshReused(r, s) ==
    /\ authReq[r].at = "idle"
    /\ session[s].state \in {"rotatedNow", "rotated", "revoked"}
    /\ HandleReuse(r, s)

(* Mutant: the rotation does not look at how many rows its UPDATE changed. *)
RefreshClaimAnyway(r) ==
    /\ authReq[r].at = "refresh"
    /\ ~RowLocked(authReq[r].on)
    /\ authReq' = [authReq EXCEPT ![r].at = "claimed"]
    /\ UNCHANGED <<account, session, cuts, born, raced>>

(* The UPDATE of the rotation, conditional on the row being unrevoked; it     *)
(* waits for whoever has it. *)
RefreshClaim(r) ==
    /\ authReq[r].at = "refresh"
    /\ Unrevoked(authReq[r].on)
    /\ ~RowLocked(authReq[r].on)
    /\ authReq' = [authReq EXCEPT ![r].at = "claimed"]
    /\ UNCHANGED <<account, session, cuts, born, raced>>

(* ... changed no row: somebody was first. *)
RefreshLost(r) ==
    /\ authReq[r].at = "refresh"
    /\ ~Unrevoked(authReq[r].on)
    /\ session[authReq[r].on].state # "purged"
    /\ HandleReuse(r, authReq[r].on)

(* The rotation and the new session commit together. *)
RefreshCommit(r, s) ==
    LET old == authReq[r].on
    IN  /\ authReq[r].at = "claimed"
        /\ session[s].state = "none"
        /\ session' = [session EXCEPT ![old].state = "rotatedNow",
                          ![s] = [user |-> authReq[r].user, state |-> "live",
                                  parent |-> old]]
        /\ born' = [born EXCEPT ![s] = born[old]]
        /\ raced' = IF Overlapped(r) \/ old \in raced
                    THEN raced \cup {s} ELSE raced
        /\ Finish(r)
        /\ UNCHANGED <<account, cuts>>

-----------------------------------------------------------------------------
(* logout_session and revoke_own_session: the row is read unrevoked ... *)
CloseRead(r, s) ==
    /\ authReq[r].at = "idle"
    /\ Unrevoked(s)
    /\ authReq' = [authReq EXCEPT ![r] =
         [Quiet EXCEPT !.at = "close", !.user = session[s].user, !.on = s]]
    /\ UNCHANGED <<account, session, cuts, born, raced>>

Logout(r, s) == CloseRead(r, s)

RevokeOwnSession(r, s) ==
    /\ CloseRead(r, s)
    /\ Authenticated(session[s].user)

(* ... and written by its id.  The ORM leaves revoked_reason alone, so a row   *)
(* that was rotated meanwhile counts as rotated just now. *)
CloseWrite(r) ==
    LET s == authReq[r].on
    IN  /\ authReq[r].at = "close"
        /\ ~RowLocked(s)
        /\ session' = [session EXCEPT ![s].state =
             CASE Unrevoked(s) -> "revoked"
               [] @ = "rotated" -> "rotatedNow"
               [] OTHER -> @]
        /\ Finish(r)
        /\ UNCHANGED <<account, cuts, born, raced>>

-----------------------------------------------------------------------------
(* Transactions that end all the sessions of an account.                    *)

(* The row of the account is being written by somebody. *)
AccountLocked(u) ==
    \E r \in AuthRequests : authReq[r].at = "revoking" /\ authReq[r].user = u
                            /\ authReq[r].why \in {"reset", "change", "baja"}

(* request_password_reset; the last link is the only one that works. *)
RequestReset(u) ==
    /\ account[u].active
    /\ ~AccountLocked(u)
    /\ account' = [account EXCEPT ![u].reset = TRUE]
    /\ UNCHANGED <<session, authReq, cuts, born, raced>>

(* reset_password finds the link; the new password is hashed in a thread. *)
ResetRead(r, u) ==
    /\ authReq[r].at = "idle"
    /\ account[u].active /\ account[u].reset
    /\ authReq' = [authReq EXCEPT ![r] = [Quiet EXCEPT !.at = "reset", !.user = u]]
    /\ UNCHANGED <<account, session, cuts, born, raced>>


ResetRevoke(r) ==
    /\ authReq[r].at = "reset"
    /\ ~AccountLocked(authReq[r].user)
    /\ BeginRevoke(r, authReq[r].user, RowsOf({authReq[r].user}), NoSession, "reset")
    /\ UNCHANGED <<account, session, cuts, born, raced>>

(* change_password keeps the session of the cookie, if there is one. *)
ChangePassword(r, u, keep) ==
    /\ authReq[r].at = "idle"
    /\ Authenticated(u) /\ ~AccountLocked(u)
    /\ keep # NoSession => session[keep].user = u
    /\ BeginRevoke(r, u, RowsOf({u}) \ {keep}, keep, "change")
    /\ UNCHANGED <<account, session, cuts, born, raced>>

(* UserRepository.soft_delete: the account ends with its sessions, so that    *)
(* they do not come back with it. *)
Deactivate(r, u) ==
    /\ authReq[r].at = "idle"
    /\ account[u].active /\ ~AccountLocked(u)
    /\ BeginRevoke(r, u, RowsOf({u}), NoSession, "baja")
    /\ UNCHANGED <<account, session, cuts, born, raced>>

(* UserRepository.update with is_active *)
Reactivate(u) ==
    /\ ~account[u].active /\ ~AccountLocked(u)
    /\ account' = [account EXCEPT ![u].active = TRUE]
    /\ UNCHANGED <<session, authReq, cuts, born, raced>>

(* revoke_user_sessions *)
RevokeUserSessions(r, u) ==
    /\ authReq[r].at = "idle"
    /\ BeginRevoke(r, u, RowsOf({u}), NoSession, "user")
    /\ UNCHANGED <<account, session, cuts, born, raced>>

(* revoke_store_sessions by a manager who is not a global admin. *)
RevokeStoreSessions(r) ==
    LET reached == Users \ GlobalAdmins
    IN  /\ authReq[r].at = "idle"
        /\ \E u \in reached : BeginRevoke(r, u, RowsOf(reached), NoSession, "store")
        /\ UNCHANGED <<account, session, cuts, born, raced>>

(* revoke_all_sessions *)
RevokeAllSessions(r) ==
    /\ authReq[r].at = "idle"
    /\ \E u \in Users : BeginRevoke(r, u, RowsOf(Users), NoSession, "all")
    /\ UNCHANGED <<account, session, cuts, born, raced>>

(* The UPDATE has every row it waits for, and the transaction commits.  The    *)
(* rows somebody else revoked meanwhile are skipped. *)
RevokeCommit(r) ==
    LET u == authReq[r].user
        why == authReq[r].why
        rows == authReq[r].rows
    IN  /\ authReq[r].at = "revoking"
        /\ \A s \in rows : ~RowLocked(s)
        /\ session' = [s \in SessionIds |->
             IF s \in rows /\ Unrevoked(s)
             THEN [session[s] EXCEPT !.state = "revoked"] ELSE session[s]]
        /\ account' = [account EXCEPT
             ![u].reset = IF why \in {"reset", "change", "baja"} THEN FALSE ELSE @,
             ![u].active = IF why = "baja" THEN FALSE ELSE @]
        /\ cuts' = [v \in Users |-> IF v \in Reached(r) THEN cuts[v] + 1 ELSE cuts[v]]
        /\ born' = [s \in SessionIds |->
             IF s = authReq[r].keep THEN cuts[u] + 1 ELSE born[s]]
        /\ authReq' = [q \in AuthRequests |->
             IF q = r THEN Quiet
             ELSE [authReq[q] EXCEPT !.overlap =
                     @ \/ authReq[q].user \in Reached(r)]]
        /\ UNCHANGED raced

-----------------------------------------------------------------------------
(* REFRESH_REUSE_GRACE_SECONDS pass. *)
GraceLapses(s) ==
    /\ session[s].state = "rotatedNow"
    /\ session' = [session EXCEPT ![s].state = "rotated"]
    /\ UNCHANGED <<account, authReq, cuts, born, raced>>

(* REFRESH_TOKEN_EXPIRE_DAYS pass. *)
Expires(s) ==
    /\ session[s].state = "live"
    /\ session' = [session EXCEPT ![s].state = "expired"]
    /\ UNCHANGED <<account, authReq, cuts, born, raced>>

(* purge_expired_auth_sessions, some weeks later: no request is that old. *)
Purge(s) ==
    /\ session[s].state \in {"expired", "rotated", "revoked"}
    /\ \A r \in AuthRequests : authReq[r].at = "idle"
    /\ session' = [session EXCEPT ![s].state = "purged"]
    /\ UNCHANGED <<account, authReq, cuts, born, raced>>

SessionsNext ==
    \/ \E r \in AuthRequests :
         \/ \E u \in Users : LoginRead(r, u) \/ ResetRead(r, u) \/ Deactivate(r, u)
                             \/ RevokeUserSessions(r, u)
         \/ \E u \in Users, k \in SessionIds \cup {NoSession} : ChangePassword(r, u, k)
         \/ LoginFail(r) \/ RefreshClaim(r) \/ RefreshLost(r) \/ CloseWrite(r)
         \/ ResetRevoke(r) \/ RevokeCommit(r)
         \/ RevokeStoreSessions(r) \/ RevokeAllSessions(r)
         \/ \E s \in SessionIds :
              \/ LoginOk(r, s) \/ RefreshCommit(r, s)
              \/ RefreshRead(r, s) \/ RefreshReused(r, s)
              \/ Logout(r, s) \/ RevokeOwnSession(r, s)
    \/ \E u \in Users : RequestReset(u) \/ Reactivate(u) \/ LockoutLapses(u)
    \/ \E s \in SessionIds : GraceLapses(s) \/ Expires(s) \/ Purge(s)

SessionsSpec == SessionsInit /\ [][SessionsNext]_sessionVars

-----------------------------------------------------------------------------
(* One refresh token gives at most one new session: refresh_session against  *)
(* itself, two tabs with the same cookie. *)
RefreshIsSingleUse ==
    \A s, t \in SessionIds :
        s # t /\ session[s].parent # NoSession => session[s].parent # session[t].parent

(* Whatever ends the sessions of an account (a new password, a removal, the   *)
(* panic buttons, a reused refresh) ends every session whose credential is    *)
(* older, except the one it keeps and those of a request that was under way.  *)
RevocationReaches ==
    \A s \in SessionIds :
        session[s].state = "live" =>
            s \in raced \/ born[s] = cuts[session[s].user]

(* A session is continued once, and ended whenever the account ends its sessions,   *)
(* whichever requests race over its rows.                                           *)
SessionsHold == RefreshIsSingleUse /\ RevocationReaches

(* What the code says of a removal: the old refresh tokens of the account     *)
(* must not come back to life with it. *)
NoSessionOutlivesRevocation ==
    \A s \in SessionIds :
        session[s].state = "live" => born[s] = cuts[session[s].user]
=============================================================================
