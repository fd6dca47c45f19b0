------------------------------ MODULE Billing ------------------------------
(* The subscription of each store to the platform (modules/billing and the        *)
(* superadmin's repository): the daily job that warns, marks as past due and        *)
(* suspends, the superadmin who renews or cancels, and the coupons he redeems.      *)
(* Days are whole local days. The job is one transaction over every row; a           *)
(* superadmin request reads its rows first and writes later. An UPDATE of the ORM     *)
(* writes only the columns whose value differs from the one the request loaded.       *)
EXTENDS Naturals, Sequences

CONSTANTS BillStores, BillRequests, NoStore,
          WarnDays,        \* SUBSCRIPTION_WARN_DAYS
          GraceDays,       \* SUBSCRIPTION_GRACE_DAYS
          PlanPrices,      \* what a plan may cost
          CouponValue,     \* what the coupon takes off
          CouponMaxUses,   \* max_uses of the coupon
          OneTimePerStore, \* one_time_per_store of the coupon
          MaxDay,          \* bound: the last day
          MaxRenewals,     \* bound: reassignments of a plan
          MaxJobDeaths     \* bound: daily runs that die

ASSUME BillingAssumption ==
    /\ {WarnDays, GraceDays, CouponValue, CouponMaxUses, MaxDay, MaxRenewals, MaxJobDeaths}
         \subseteq Nat
    /\ MaxDay # 0
    /\ PlanPrices \subseteq Nat /\ PlanPrices # {} /\ OneTimePerStore \in BOOLEAN

VARIABLES day,
          subscription,  \* per store, its row
          coupon,        \* [active, uses]
          redemptions,   \* the stores of the coupon_redemptions rows, in order
          dailyRun,      \* the job: the rows it has inspected, with their new values
          billReq,       \* per superadmin request: where it is and what it loaded
          renewals, jobDeaths

billingVars == <<day, subscription, coupon, redemptions, dailyRun, billReq, renewals, jobDeaths>>

Days == 0..MaxDay
SubscriptionStatuses == {"active", "past_due", "suspended", "cancelled"}
SubscriptionRow == [status : SubscriptionStatuses, end : Days, warned : BOOLEAN,
                    base : Nat, discount : Nat, total : Nat, coupon : BOOLEAN]

(* The rows the job has inspected wait in its transaction with their new values. *)
IdleJob == [at |-> "idle", row |-> <<>>]
Staged == DOMAIN dailyRun.row
IsDailyRun(j) ==
    \E S \in SUBSET BillStores : j \in [at : {"idle", "running"}, row : [S -> SubscriptionRow]]
IdleBill == [at |-> "idle", store |-> NoStore, sawUses |-> 0]
BillStates == {IdleBill} \cup [at : {"renew", "redeem"}, store : BillStores,
                              saw : SubscriptionRow, sawUses : Nat]

BillingTypeOK ==
    /\ day \in Days
    /\ subscription \in [BillStores -> SubscriptionRow]
    /\ coupon \in [active : BOOLEAN, uses : Nat]
    /\ redemptions \in Seq(BillStores)
    /\ IsDailyRun(dailyRun)
    /\ billReq \in [BillRequests -> BillStates]
    /\ renewals \in 0..MaxRenewals /\ jobDeaths \in 0..MaxJobDeaths

BillingInit ==
    /\ day = 0
    /\ \E price \in PlanPrices :
          subscription = [s \in BillStores |->
             [status |-> "active", end |-> 1, warned |-> FALSE, base |-> price,
              discount |-> 0, total |-> price, coupon |-> FALSE]]
    /\ coupon = [active |-> TRUE, uses |-> 0]
    /\ redemptions = <<>>
    /\ dailyRun = IdleJob
    /\ billReq = [r \in BillRequests |-> IdleBill]
    /\ renewals = 0 /\ jobDeaths = 0

-----------------------------------------------------------------------------
(* The life of a subscription *)

(* ALLOWED_SUBSCRIPTION_TRANSITIONS, apply_subscription_transition *)
AllowedSubscriptionTransitions(status) ==
    CASE status = "active"    -> {"active", "past_due", "cancelled"}
      [] status = "past_due"  -> {"past_due", "active", "suspended", "cancelled"}
      [] status = "suspended" -> {"suspended", "active", "cancelled"}
      [] status = "cancelled" -> {"cancelled", "active"}

(* daily_action: a row takes one step a day. *)
PastGrace(row) == row.status = "past_due" /\ day > row.end + GraceDays
Lapsed(row) == row.status = "active" /\ day > row.end
NearItsEnd(row) == row.status = "active" /\ day <= row.end /\ ~row.warned
                   /\ row.end - day <= WarnDays

(* Plausible bug: a row already past due is taken for handled. *)
DailyActionOnce(row) ==
    CASE Lapsed(row)     -> [row EXCEPT !.status = "past_due"]
      [] NearItsEnd(row) -> [row EXCEPT !.warned = TRUE]
      [] OTHER           -> row
DailyAction(row) ==
    CASE Lapsed(row)     -> [row EXCEPT !.status = "past_due"]
      [] PastGrace(row)  -> [row EXCEPT !.status = "suspended"]
      [] NearItsEnd(row) -> [row EXCEPT !.warned = TRUE]
      [] OTHER           -> row

(* outlook, store_is_suspended: what the panel and the portal read *)
BlocksWrites(s) == subscription[s].status = "suspended"

-----------------------------------------------------------------------------
(* run_subscription_lifecycle, advance_subscriptions: one run at a time, by           *)
(* pg_try_advisory_xact_lock.                                                         *)
StartDailyRun ==
    /\ dailyRun.at = "idle"
    /\ dailyRun' = [at |-> "running", row |-> <<>>]
    /\ UNCHANGED <<day, subscription, coupon, redemptions, billReq, renewals, jobDeaths>>

(* _pagina, _aplicar_accion_diaria: the row FOR UPDATE SKIP LOCKED, read as it is       *)
(* committed at that moment. A row that is being redeemed or renewed may be skipped:     *)
(* CommitDailyRun then leaves it for the next run.                                       *)
InspectRow(s) ==
    /\ dailyRun.at = "running" /\ s \notin Staged
    /\ dailyRun' = [dailyRun EXCEPT !.row =
          [t \in Staged \cup {s} |-> IF t = s THEN DailyAction(subscription[s]) ELSE @[t]]]
    /\ UNCHANGED <<day, subscription, coupon, redemptions, billReq, renewals, jobDeaths>>

(* A row some request has locked is skipped. *)
CouldBeLocked(s) == \E r \in BillRequests : billReq[r].at # "idle" /\ billReq[r].store = s

(* The commit, with the OutboxMessage of each warning *)
CommitDailyRun ==
    /\ dailyRun.at = "running"
    /\ \A s \in BillStores \ Staged : CouldBeLocked(s)
    /\ subscription' = [s \in BillStores |->
          IF s \in Staged THEN dailyRun.row[s] ELSE subscription[s]]
    /\ dailyRun' = IdleJob
    /\ UNCHANGED <<day, coupon, redemptions, billReq, renewals, jobDeaths>>

(* process_subscription_lifecycle: a run that fails is retried; nothing of it stays. *)
DailyRunDies ==
    /\ dailyRun.at = "running" /\ jobDeaths < MaxJobDeaths
    /\ jobDeaths' = jobDeaths + 1
    /\ dailyRun' = IdleJob
    /\ UNCHANGED <<day, subscription, coupon, redemptions, billReq, renewals>>

DayPasses ==
    /\ day < MaxDay
    /\ day' = day + 1
    /\ UNCHANGED <<subscription, coupon, redemptions, dailyRun, billReq, renewals, jobDeaths>>

-----------------------------------------------------------------------------
(* The superadmin *)

Unlocked(s) == s \notin Staged   \* the row locks of the job

(* set_store_subscription up to its flush: the row as it is, without a lock. *)
LoadForRenewal(r, s) ==
    /\ billReq[r].at = "idle" /\ renewals < MaxRenewals
    /\ billReq' = [billReq EXCEPT ![r] =
          [at |-> "renew", store |-> s, saw |-> subscription[s], sawUses |-> 0]]
    /\ renewals' = renewals + 1
    /\ UNCHANGED <<day, subscription, coupon, redemptions, dailyRun, jobDeaths>>

(* The value an UPDATE leaves in a column: the one assigned when it differs from the   *)
(* one loaded, else what the column holds by then.                                     *)
Column(assigned, loaded, stored) == IF assigned # loaded THEN assigned ELSE stored

(* The rest of set_store_subscription. status is absent from the payload, or one the    *)
(* graph allows from the one loaded; the end of the period may be absent too.            *)
SetStoreSubscription(r, price, status, end, newPeriod) ==
    LET q == billReq[r]
        row == subscription[q.store]
    IN
    /\ q.at = "renew" /\ Unlocked(q.store)
    /\ status \in AllowedSubscriptionTransitions(q.saw.status)
    /\ end >= day /\ (newPeriod \/ end = q.saw.end)
    /\ subscription' = [subscription EXCEPT ![q.store] =
          [status   |-> Column(status, q.saw.status, row.status),
           end      |-> Column(end, q.saw.end, row.end),
           warned   |-> IF newPeriod THEN Column(FALSE, q.saw.warned, row.warned) ELSE row.warned,
           base     |-> Column(price, q.saw.base, row.base),
           discount |-> Column(0, q.saw.discount, row.discount),
           total    |-> Column(price, q.saw.total, row.total),
           coupon   |-> Column(FALSE, q.saw.coupon, row.coupon)]]
    /\ billReq' = [billReq EXCEPT ![r] = IdleBill]
    /\ UNCHANGED <<day, coupon, redemptions, dailyRun, renewals, jobDeaths>>

(* redeem_store_coupon: the subscription and the coupon are loaded to validate. *)
LoadForRedemption(r, s) ==
    /\ billReq[r].at = "idle"
    /\ billReq' = [billReq EXCEPT ![r] =
          [at |-> "redeem", store |-> s, saw |-> subscription[s], sawUses |-> coupon.uses]]
    /\ UNCHANGED <<day, subscription, coupon, redemptions, dailyRun, renewals, jobDeaths>>

(* _lock_coupon: the row is read again under the lock (populate_existing). Plausible   *)
(* bug: the copy loaded before the lock.                                               *)
CouponFromMap(r) == billReq[r].sawUses
LockCoupon(r) == coupon.uses

(* _assert_coupon_redeemable, _previous_redemption: a coupon of one_time_per_store only once in it *)
CouponRedeemable(s, uses) ==
    /\ subscription[s].status = "active" /\ day <= subscription[s].end
    /\ coupon.active /\ uses < CouponMaxUses
    /\ OneTimePerStore => \A i \in DOMAIN redemptions : redemptions[i] # s

(* _compute_discount: a fixed amount, never more than the base *)
Discount(base) == IF CouponValue < base THEN CouponValue ELSE base

(* redeem_coupon: both rows locked, checked, written and committed *)
RedeemCoupon(r) ==
    LET s == billReq[r].store
        uses == LockCoupon(r)
        base == subscription[s].base
    IN
    /\ billReq[r].at = "redeem" /\ Unlocked(s)
    /\ billReq' = [billReq EXCEPT ![r] = IdleBill]
    /\ IF CouponRedeemable(s, uses)
       THEN /\ coupon' = [coupon EXCEPT !.uses = uses + 1]
            /\ redemptions' = Append(redemptions, s)
            /\ subscription' = [subscription EXCEPT
                  ![s].coupon = TRUE, ![s].discount = Discount(base),
                  ![s].total = base - Discount(base)]
       ELSE UNCHANGED <<coupon, redemptions, subscription>>
    /\ UNCHANGED <<day, dailyRun, renewals, jobDeaths>>

(* update_coupon: switched off or on again *)
UpdateCoupon ==
    /\ coupon' = [coupon EXCEPT !.active = ~@]
    /\ UNCHANGED <<day, subscription, redemptions, dailyRun, billReq, renewals, jobDeaths>>

BillingNext ==
    \/ StartDailyRun \/ CommitDailyRun \/ DailyRunDies \/ DayPasses \/ UpdateCoupon
    \/ \E s \in BillStores : InspectRow(s)
    \/ \E r \in BillRequests :
          \/ \E s \in BillStores : LoadForRenewal(r, s) \/ LoadForRedemption(r, s)
          \/ \E price \in PlanPrices, status \in SubscriptionStatuses, end \in Days,
                newPeriod \in BOOLEAN : SetStoreSubscription(r, price, status, end, newPeriod)
          \/ RedeemCoupon(r)

(* The beat runs the job every day and days pass. Strong fairness for a row: the locks   *)
(* that make a run skip it last one short transaction, so no row is skipped forever.       *)
BillingFairness ==
    /\ WF_billingVars(StartDailyRun) /\ WF_billingVars(CommitDailyRun)
    /\ \A s \in BillStores : SF_billingVars(InspectRow(s))

BillingSpec == BillingInit /\ [][BillingNext]_billingVars /\ BillingFairness

-----------------------------------------------------------------------------
(* A coupon is redeemed no more than max_uses times and counts what was redeemed,       *)
(* whatever requests cross: "dos canjes concurrentes pasaban el tope max_uses"           *)
(* (redeem_coupon, _lock_coupon).                                                        *)
CouponWithinLimit == coupon.uses = Len(redemptions) /\ coupon.uses <= CouponMaxUses

(* A store that does not pay is suspended: a past-due row whose grace is over does not     *)
(* stay so, however many runs die or skip it (process_subscription_lifecycle).             *)
Overdue(s) == subscription[s].status \in {"active", "past_due"}
              /\ day > subscription[s].end + GraceDays
UnpaidIsSuspended ==
    \A s \in BillStores : Overdue(s) ~> ~Overdue(s)

(* "Reasignar un plan desde el superadmin vuelve a active": a renewal that asks for       *)
(* active leaves the subscription active. False: the row is loaded without a lock and a     *)
(* status equal to the one loaded is not written, so the past_due of the run it crosses      *)
(* stays, with the new period, and the next run past it suspends a store that paid.          *)
RenewalStands ==
    [][\A r \in BillRequests :
          (\E price \in PlanPrices, end \in Days, newPeriod \in BOOLEAN :
              SetStoreSubscription(r, price, "active", end, newPeriod))
          => subscription'[billReq[r].store].status = "active"]_billingVars

(* The total is the base less the discount. False when a renewal crosses a redemption. *)
TotalIsNet == \A s \in BillStores :
    subscription[s].total = subscription[s].base - subscription[s].discount
=============================================================================
