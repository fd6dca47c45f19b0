------------------------------- MODULE Admins -------------------------------
(* Accounts of the panel (modules/users, modules/superadmin, modules/staff,  *)
(* core/roles): who may log in, who is a global admin (SuperAdmin), and who   *)
(* takes bookings as a professional.                                        *)
(*                                                                          *)
(* A request authenticates, loads its target once and decides on that copy;  *)
(* the guard of rule 14 (users/guards.py) locks the active global admins and  *)
(* counts them; the write comes last, and only changes the columns that       *)
(* differ from the copy.                                                     *)
EXTENDS Naturals, FiniteSets

CONSTANTS Accounts, FirstAdmins,   \* FirstAdmins: global admins to begin with
          AdminRequests, NoAccount

(* The platform begins with a global admin. *)
ASSUME AdminsAssumption ==
    IsFiniteSet(Accounts) /\ FirstAdmins \subseteq Accounts /\ FirstAdmins # {}

VARIABLES acct,       \* per account: active, global, role, card on the agenda
          adminReq,   \* per request: where it is and what it has read
          unguarded   \* history: a global admin lost power past the guard

adminVars == <<acct, adminReq, unguarded>>

AccountRoles == {"absent", "admin", "staff", "client"}
Absent == [active |-> FALSE, global |-> FALSE, role |-> "absent", card |-> "none"]
NothingSeen == [active |-> FALSE, global |-> FALSE, role |-> "absent"]
NoAdminRequest == [at |-> "idle", kind |-> "none", self |-> FALSE, on |-> NoAccount,
                   saw |-> NothingSeen, guarded |-> FALSE, locks |-> {}]

AccountRows == [active : BOOLEAN, global : BOOLEAN, role : AccountRoles,
                card : {"none", "on", "off"}]
AdminKinds == {"deactivate", "reactivate", "toClient", "promote", "revoke",
               "deleteStaff", "restoreStaff", "addSelf"}
AdminRequestStates ==
    [at : {"idle", "guarding", "writing"}, kind : AdminKinds \cup {"none"}, self : BOOLEAN,
     on : Accounts \cup {NoAccount},
     saw : [active : BOOLEAN, global : BOOLEAN, role : AccountRoles],
     guarded : BOOLEAN, locks : SUBSET Accounts]

AdminsTypeOK ==
    /\ acct \in [Accounts -> AccountRows]
    /\ adminReq \in [AdminRequests -> AdminRequestStates]
    /\ unguarded \in BOOLEAN

AdminsInit ==
    /\ acct = [u \in Accounts |->
                 IF u \in FirstAdmins
                 THEN [active |-> TRUE, global |-> TRUE, role |-> "admin", card |-> "none"]
                 ELSE Absent]
    /\ adminReq = [r \in AdminRequests |-> NoAdminRequest]
    /\ unguarded = FALSE

-----------------------------------------------------------------------------
ActiveGlobalAdmins == {u \in Accounts : acct[u].active /\ acct[u].global}
LockedByOthers(r) == UNION {adminReq[q].locks : q \in AdminRequests \ {r}}

(* canonical_role, has_any_role(STORE_MANAGERS) *)
IsManager(a) == a.role = "admin" \/ a.global

(* get_current_admin *)
MayAct(u) == acct[u].active /\ IsManager(acct[u])

(* grantable_roles *)
GrantableRoles(u) ==
    IF acct[u].global THEN {"admin", "staff", "client"}
    ELSE IF IsManager(acct[u]) THEN {"staff", "client"} ELSE {}

(* assert_can_change_access; for the panel of a store a global account does  *)
(* not exist (UserRepository.get_by_public_id, _guardar_cuenta_vinculada).    *)
MayChangeAccess(actor, target) ==
    acct[actor].global \/ actor = target \/ ~IsManager(acct[target])

EndAdmin(r) == adminReq' = [adminReq EXCEPT ![r] = NoAdminRequest]

-----------------------------------------------------------------------------
(* assert_deactivation_allowed and assert_global_admin_revocation_allowed:   *)
(* the copy says whether there is anything to guard.                          *)
NeedsGuard(kind, saw) ==
    \/ kind = "deactivate" /\ saw.active /\ saw.global
    \/ kind = "revoke" /\ saw.global

(* The copy of the target a request decides on. *)
LoadTarget(r, kind, actor, target) ==
    LET saw == [active |-> acct[target].active, global |-> acct[target].global,
                role |-> acct[target].role]
    IN
    /\ adminReq[r].at = "idle"
    /\ MayAct(actor)
    /\ acct[target].role # "absent"
    /\ adminReq' = [adminReq EXCEPT ![r] =
          [at |-> IF NeedsGuard(kind, saw) THEN "guarding" ELSE "writing",
           kind |-> kind, self |-> actor = target, on |-> target, saw |-> saw,
           guarded |-> FALSE, locks |-> {}]]
    /\ UNCHANGED <<acct, unguarded>>

(* create_user and create_store_admin; a staff member gets a login and a card *)
(* (StaffRepository.create).                                                  *)
CreateUser(actor, u, role) ==
    /\ MayAct(actor)
    /\ acct[u].role = "absent"
    /\ role \in GrantableRoles(actor)
    /\ \E card \in IF role = "staff" THEN {"none", "on"} ELSE {"none"} :
          acct' = [acct EXCEPT ![u] = [active |-> TRUE, global |-> FALSE,
                                       role |-> role, card |-> card]]
    /\ UNCHANGED <<adminReq, unguarded>>

(* PATCH and DELETE /users/{id}, PATCH /superadmin/users/{id} *)
UpdateUser(r, actor, target) ==
    /\ MayChangeAccess(actor, target)
    /\ LoadTarget(r, "deactivate", actor, target)
ReactivateUser(r, actor, target) ==
    /\ MayChangeAccess(actor, target)
    /\ LoadTarget(r, "reactivate", actor, target)
(* A change of role to client; assert_global_admin_keeps_login_role. *)
UpdateRole(r, actor, target) ==
    /\ MayChangeAccess(actor, target)
    /\ ~acct[target].global
    /\ "client" \in GrantableRoles(actor)
    /\ LoadTarget(r, "toClient", actor, target)

(* PATCH /superadmin/users/{id}/global-admin *)
SetGlobalAdmin(r, actor, target, enabled) ==
    /\ acct[actor].global
    /\ enabled => acct[target].role # "client"   \* assert_client_not_global_admin
    /\ LoadTarget(r, IF enabled THEN "promote" ELSE "revoke", actor, target)

(* DELETE /staff/{id}: _guardar_cuenta_vinculada, and nothing of rule 14. *)
DeleteStaff(r, actor, target) ==
    /\ acct[target].card # "none"
    /\ MayChangeAccess(actor, target)
    /\ LoadTarget(r, "deleteStaff", actor, target)
(* PATCH /staff/{id} with is_active *)
UpdateStaff(r, actor, target) ==
    /\ acct[target].card # "none"
    /\ MayChangeAccess(actor, target)
    /\ LoadTarget(r, "restoreStaff", actor, target)
(* POST /staff/me: add_self denies the global account it authenticated. *)
AddSelf(r, actor) ==
    /\ ~acct[actor].global
    /\ LoadTarget(r, "addSelf", actor, actor)

-----------------------------------------------------------------------------
(* active_global_admins_locked: FOR UPDATE in the order of the id, so guards   *)
(* queue up; then the count. Oneself, and the last one, are refused.           *)
(* Plausible bug: a SELECT count without the lock.                            *)
GuardCounting(r, locks) ==
    /\ adminReq[r].at = "guarding"
    /\ locks \cap LockedByOthers(r) = {}
    /\ IF adminReq[r].self \/ Cardinality(ActiveGlobalAdmins) <= 1
       THEN EndAdmin(r)
       ELSE adminReq' = [adminReq EXCEPT ![r].at = "writing", ![r].guarded = TRUE,
                                           ![r].locks = locks]
    /\ UNCHANGED <<acct, unguarded>>
GuardWithoutLock(r) == GuardCounting(r, {})
GuardLastAdmin(r) == GuardCounting(r, ActiveGlobalAdmins)

-----------------------------------------------------------------------------
(* What the request leaves in the row: a column is written only when it        *)
(* differs from the copy.                                                      *)
Patched(q, now) ==
    CASE q.kind = "deactivate" ->
           [now EXCEPT !.active = IF q.saw.active THEN FALSE ELSE @]
      [] q.kind = "reactivate" ->
           [now EXCEPT !.active = IF q.saw.active THEN @ ELSE TRUE]
      [] q.kind = "toClient" -> [now EXCEPT !.role = "client"]
      [] q.kind = "revoke" ->
           [now EXCEPT !.global = IF q.saw.global THEN FALSE ELSE @]
      [] q.kind = "promote" ->   \* and _sacar_de_la_agenda
           [active |-> IF q.saw.active THEN now.active ELSE TRUE,
            global |-> IF q.saw.global THEN now.global ELSE TRUE,
            role |-> IF q.saw.role = "admin" THEN now.role ELSE "admin",
            card |-> IF now.card = "on" THEN "off" ELSE now.card]
      [] q.kind = "deleteStaff" ->  \* soft_delete, keep_login for oneself
           [now EXCEPT !.card = "off",
                       !.active = IF q.self THEN @ ELSE FALSE]
      [] q.kind = "restoreStaff" -> \* update_profile(is_active = True)
           [now EXCEPT !.card = "on",
                       !.active = IF q.self THEN @ ELSE TRUE]
      [] q.kind = "addSelf" -> [now EXCEPT !.card = "on"]

IsActiveGlobal(a) == a.active /\ a.global

Write(r) ==
    LET q == adminReq[r]
        after == Patched(q, acct[q.on])
    IN
    /\ q.at = "writing"
    /\ q.on \notin LockedByOthers(r)
    /\ acct' = [acct EXCEPT ![q.on] = after]
    /\ unguarded' = (unguarded \/ /\ IsActiveGlobal(acct[q.on])
                                  /\ ~IsActiveGlobal(after)
                                  /\ ~q.guarded)
    /\ EndAdmin(r)

AdminRequestDies(r) ==
    /\ adminReq[r].at # "idle"
    /\ EndAdmin(r)
    /\ UNCHANGED <<acct, unguarded>>

-----------------------------------------------------------------------------
AdminsNext ==
    \/ \E a \in Accounts, u \in Accounts, role \in {"admin", "staff", "client"} :
          CreateUser(a, u, role)
    \/ \E r \in AdminRequests :
          \/ \E a \in Accounts, u \in Accounts :
                \/ UpdateUser(r, a, u)
                \/ ReactivateUser(r, a, u)
                \/ UpdateRole(r, a, u)
                \/ \E on \in BOOLEAN : SetGlobalAdmin(r, a, u, on)
                \/ DeleteStaff(r, a, u)
                \/ UpdateStaff(r, a, u)
          \/ \E a \in Accounts : AddSelf(r, a)
          \/ GuardLastAdmin(r)
          \/ Write(r)
          \/ AdminRequestDies(r)

AdminsSpec == AdminsInit /\ [][AdminsNext]_adminVars

-----------------------------------------------------------------------------
(* Rule 14: the platform keeps an active global admin, whatever the             *)
(* requests that cross, as long as every change that takes that power away     *)
(* went through the guard (users/guards.py).                                   *)
GuardKeepsAGlobalAdmin == unguarded \/ ActiveGlobalAdmins # {}

(* The same without the condition, as the guard's docstring puts it ("no se    *)
(* desactiva al ultimo SuperAdmin activo"): /staff/{id} deactivates the linked  *)
(* account without the guard, and a promotion can cross a request whose copy    *)
(* is older.                                                                    *)
GlobalAdminRemains == ActiveGlobalAdmins # {}

(* "La cuenta global no atiende en ninguna tienda" (_sacar_de_la_agenda,        *)
(* add_self).                                                                   *)
GlobalAdminNotBookable ==
    \A u \in Accounts : acct[u].global => acct[u].card # "on"
=============================================================================
