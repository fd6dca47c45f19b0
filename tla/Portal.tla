------------------------------- MODULE Portal -------------------------------
(* A booking from the public portal (public_api/router.py, service.py,        *)
(* repository.py, core/idempotency.py, modules/promotions): one store and one  *)
(* phone. A request passes the idempotency mark in Redis, decides without       *)
(* locks, then writes under the row locks of the client and of the promotion,   *)
(* commits, asks for the payment link and saves its answer under the mark.      *)
(*                                                                            *)
(* Requests with the same key are retries of one another; each request stands  *)
(* for the booking it makes. The lock of the professional is in Slots.         *)
EXTENDS Naturals, FiniteSets

CONSTANTS PortalRequests,
          BookingKeys,           \* idempotency keys the portal sends
          MaxFutureBookings,     \* MAX_FUTURE_BOOKINGS_PER_PHONE
          MaxPromoUses,          \* largest max_uses a promotion is given
          DailyQuota,            \* PUBLIC_BOOKINGS_PER_IP_PER_STORE_PER_DAY
          MaxPanelBookings       \* bound: bookings the panel makes for the client

ASSUME PortalAssumption ==
    /\ MaxFutureBookings \in Nat \ {0}
    /\ MaxPromoUses \in Nat /\ DailyQuota \in Nat /\ MaxPanelBookings \in Nat

VARIABLES mark,          \* per key, in Redis: none, PROCESSING, or the answer
          bookReq,       \* per request: where it is, its key and its promotion
          booking,       \* per request, the row it wrote
          clientKnown,   \* the phone has a client record in the store
          panelBookings, \* active future bookings of the client made elsewhere
          promo,         \* the promotion: active, max_uses, current_uses
          quotaSpent,    \* successful bookings of the IP today
          answered       \* history: bookings whose request answered 201

portalVars == <<mark, bookReq, booking, clientKnown, panelBookings, promo,
                quotaSpent, answered>>

IdleRequest == [at |-> "idle", key |-> "none", promo |-> FALSE, charge |-> FALSE]
NoRow == [state |-> "none", key |-> "none", redeemed |-> FALSE]

BookingCalls == [at : {"idle", "admitted", "resolved", "counted", "redeemed", "linking", "firm",
                       "replying", "failing", "releasing", "ended"},
                 key : BookingKeys \cup {"none"}, promo : BOOLEAN, charge : BOOLEAN]
BookingRows == [state : {"none", "active", "reverted", "over"},
                key : BookingKeys \cup {"none"}, redeemed : BOOLEAN]

PortalTypeOK ==
    /\ mark \in [BookingKeys -> {"none", "processing", "result"}]
    /\ bookReq \in [PortalRequests -> BookingCalls]
    /\ booking \in [PortalRequests -> BookingRows]
    /\ clientKnown \in BOOLEAN
    /\ panelBookings \in 0..MaxPanelBookings
    /\ promo \in [active : BOOLEAN, max : 0..MaxPromoUses, uses : Nat]
    /\ quotaSpent \in Nat
    /\ answered \subseteq PortalRequests

PortalInit ==
    /\ mark = [k \in BookingKeys |-> "none"]
    /\ bookReq = [r \in PortalRequests |-> IdleRequest]
    /\ booking = [r \in PortalRequests |-> NoRow]
    /\ clientKnown \in BOOLEAN
    /\ panelBookings = 0
    /\ promo = [active |-> TRUE, max |-> MaxPromoUses, uses |-> 0]
    /\ quotaSpent = 0
    /\ answered = {}

-----------------------------------------------------------------------------
At(r, place) == bookReq[r].at = place
Goes(r, place) ==
    bookReq' = [bookReq EXCEPT ![r] = IF place = "ended" THEN [IdleRequest EXCEPT !.at = "ended"]
                                      ELSE [bookReq[r] EXCEPT !.at = place]]
UntouchedRows == UNCHANGED <<booking, clientKnown, panelBookings, promo, quotaSpent, answered>>

(* Where a transaction holds the row lock of the client, and of the promotion. *)
HoldsClient == {"counted", "redeemed"}
HoldsPromo == {"redeemed"}
ActiveBookings == {r \in PortalRequests : booking[r].state = "active"}
Redemptions == {r \in PortalRequests : booking[r].redeemed}

(* create_public_booking and idempotency_guard: a retry waits while the mark     *)
(* says PROCESSING, and leaves empty-handed after MAX_WAIT_SECONDS; one that      *)
(* finds an answer repeats it; the others go on, with the mark or, when Redis      *)
(* does not answer, without it. The rate limit before it is in RateLimit.          *)
IdempotencyGuard(r, k) ==
    /\ mark[k] = "none"
    /\ mark' = [mark EXCEPT ![k] = "processing"]
GuardWithoutRedis(r, k) == UNCHANGED mark

CreatePublicBooking(r, k, withPromo, withCharge) ==
    /\ At(r, "idle")
    /\ IdempotencyGuard(r, k) \/ GuardWithoutRedis(r, k)
    /\ bookReq' = [bookReq EXCEPT ![r] = [at |-> "admitted", key |-> k,
                                          promo |-> withPromo, charge |-> withCharge]]
    /\ UntouchedRows

(* PROCESSING_TTL_MS or RESULT_TTL_SECONDS run out. *)
MarkExpires(k) ==
    /\ mark[k] # "none"
    /\ mark' = [mark EXCEPT ![k] = "none"]
    /\ UNCHANGED bookReq
    /\ UntouchedRows

-----------------------------------------------------------------------------
(* _validate_promotion_window; the amounts are in Pricing. *)
PromotionApplies == promo.active /\ promo.uses < promo.max

(* require_daily_booking_quota: it only reads. *)
QuotaLeft == quotaSpent < DailyQuota

(* book up to _persist: the store takes bookings, the quota of the IP, the       *)
(* request itself, and the promotion quoted without a lock (_discounted_total).  *)
ResolveRequest(r) ==
    /\ At(r, "admitted")
    /\ Goes(r, IF QuotaLeft /\ (bookReq[r].promo => PromotionApplies)
               THEN "resolved" ELSE "failing")
    /\ UNCHANGED mark
    /\ UntouchedRows

(* Any refusal of the request, or an error, before the commit: the transaction   *)
(* rolls back and its locks go.                                                  *)
PortalRefuses(r) ==
    /\ bookReq[r].at \in {"admitted", "resolved", "counted", "redeemed"}
    /\ Goes(r, "failing")
    /\ UNCHANGED mark
    /\ UntouchedRows

(* get_or_create_client_locked and count_future_bookings: FOR NO KEY UPDATE of    *)
(* the record, or the unique phone of a record being created, so whoever comes    *)
(* second waits; a new record is not counted. Plausible bug: no lock.             *)
CountFutureBookings(r) ==
    Goes(r, IF clientKnown /\ Cardinality(ActiveBookings) + panelBookings >= MaxFutureBookings
            THEN "failing" ELSE "counted")
CountWithoutLock(r) ==
    /\ At(r, "resolved")
    /\ CountFutureBookings(r)
    /\ UNCHANGED mark
    /\ UntouchedRows
LockClientAndCount(r) ==
    /\ \A q \in PortalRequests \ {r} : bookReq[q].at \notin HoldsClient
    /\ CountWithoutLock(r)

(* _redeem_promotion_code, redeem_promotion: the promotion is read again FOR       *)
(* UPDATE and held until the commit.                                               *)
RedeemPromotion(r) ==
    /\ At(r, "counted")
    /\ bookReq[r].promo =>
          \A q \in PortalRequests \ {r} : bookReq[q].at \in HoldsPromo => ~bookReq[q].promo
    /\ Goes(r, IF bookReq[r].promo => PromotionApplies THEN "redeemed" ELSE "failing")
    /\ UNCHANGED mark
    /\ UntouchedRows

(* The INSERT carries the key, and appointments.idempotency_key is unique.          *)
(* Plausible bug: a key that is not stored.                                        *)
AnyKey(k) == TRUE
KeyIsFree(k) == \A q \in PortalRequests : booking[q].state \in {"active", "over"} => booking[q].key # k

(* create_appointment, _create_pending_payment and the commit, and after it the     *)
(* cache of availability (Availability). A booking that charges nothing is firm.    *)
CommitBooking(r) ==
    LET q == bookReq[r] IN
    /\ At(r, "redeemed")
    /\ IF KeyIsFree(q.key)
       THEN /\ booking' = [booking EXCEPT ![r] = [state |-> "active", key |-> q.key,
                                                  redeemed |-> q.promo]]
            /\ clientKnown' = TRUE
            /\ promo' = IF q.promo THEN [promo EXCEPT !.uses = @ + 1] ELSE promo
            /\ Goes(r, IF q.charge THEN "linking" ELSE "firm")
       ELSE /\ Goes(r, "failing")
            /\ UNCHANGED <<booking, clientKnown, promo>>
    /\ UNCHANGED <<mark, panelBookings, quotaSpent, answered>>

-----------------------------------------------------------------------------
(* _attach_payment_link *)
LinkAttached(r) ==
    /\ At(r, "linking")
    /\ Goes(r, "firm")
    /\ UNCHANGED mark
    /\ UntouchedRows

(* revert_failed_booking: redemption, payment and appointment are deleted; the     *)
(* counter of the promotion stays.                                                *)
RevertFailedBooking(r) ==
    /\ At(r, "linking")
    /\ booking' = [booking EXCEPT ![r].state = "reverted", ![r].redeemed = FALSE]
    /\ Goes(r, "failing")
    /\ UNCHANGED <<mark, clientKnown, panelBookings, promo, quotaSpent, answered>>

(* consume_daily_booking_quota; then the mail is queued and the entry of the        *)
(* waiting list closed, best effort (Waitlist). With Redis down nothing is spent.   *)
ConsumeDailyQuota(r) ==
    /\ At(r, "firm")
    /\ quotaSpent' \in {quotaSpent, quotaSpent + 1}
    /\ Goes(r, "replying")
    /\ UNCHANGED <<mark, booking, clientKnown, panelBookings, promo, answered>>

(* idempotency_save, best effort, and the 201.                                      *)
IdempotencySave(r) ==
    /\ At(r, "replying")
    /\ \/ mark' = [mark EXCEPT ![bookReq[r].key] = "result"]
       \/ UNCHANGED mark
    /\ Goes(r, "ended")
    /\ answered' = answered \cup {r}
    /\ UNCHANGED <<booking, clientKnown, panelBookings, promo, quotaSpent>>

(* idempotency_release: GET, and DELETE if it read PROCESSING. The mark may by        *)
(* then be another request's.                                                        *)
ReleaseReads(r) ==
    /\ At(r, "failing")
    /\ Goes(r, IF mark[bookReq[r].key] = "processing" THEN "releasing" ELSE "ended")
    /\ UNCHANGED mark
    /\ UntouchedRows
ReleaseDeletes(r) ==
    /\ At(r, "releasing")
    /\ mark' = [mark EXCEPT ![bookReq[r].key] = "none"]
    /\ Goes(r, "ended")
    /\ UntouchedRows

(* The process dies, or Redis does during the release. *)
PortalRequestDies(r) ==
    /\ bookReq[r].at \notin {"idle", "ended"}
    /\ Goes(r, "ended")
    /\ UNCHANGED mark
    /\ UntouchedRows

-----------------------------------------------------------------------------
(* The appointment takes place, is cancelled or its hold expires (Charge). *)
BookingOver(r) ==
    /\ booking[r].state = "active"
    /\ bookReq[r].at \notin {"linking", "firm"}
    /\ booking' = [booking EXCEPT ![r].state = "over"]
    /\ UNCHANGED <<mark, bookReq, clientKnown, panelBookings, promo, quotaSpent, answered>>

(* The panel and the waiting list book for the client without the cap. *)
PanelBooks ==
    /\ panelBookings < MaxPanelBookings
    /\ panelBookings' = panelBookings + 1
    /\ clientKnown' = TRUE
    /\ UNCHANGED <<mark, bookReq, booking, promo, quotaSpent, answered>>

(* update_store_promotion and deactivate_store_promotion write their columns on       *)
(* whatever the counter is; they wait for a redemption that holds the row.            *)
UpdatePromotion(active, max) ==
    /\ \A q \in PortalRequests : bookReq[q].promo => bookReq[q].at \notin HoldsPromo
    /\ promo' = [promo EXCEPT !.active = active, !.max = max]
    /\ UNCHANGED <<mark, bookReq, booking, clientKnown, panelBookings, quotaSpent, answered>>

(* The bucket of the day ends. *)
QuotaDayEnds ==
    /\ quotaSpent > 0
    /\ quotaSpent' = 0
    /\ UNCHANGED <<mark, bookReq, booking, clientKnown, panelBookings, promo, answered>>

-----------------------------------------------------------------------------
PortalNext ==
    \/ \E r \in PortalRequests :
          \/ \E k \in BookingKeys, withPromo \in BOOLEAN, withCharge \in BOOLEAN :
                CreatePublicBooking(r, k, withPromo, withCharge)
          \/ ResolveRequest(r)
          \/ PortalRefuses(r)
          \/ LockClientAndCount(r)
          \/ RedeemPromotion(r)
          \/ CommitBooking(r)
          \/ LinkAttached(r)
          \/ RevertFailedBooking(r)
          \/ ConsumeDailyQuota(r)
          \/ IdempotencySave(r)
          \/ ReleaseReads(r)
          \/ ReleaseDeletes(r)
          \/ PortalRequestDies(r)
          \/ BookingOver(r)
    \/ \E k \in BookingKeys : MarkExpires(k)
    \/ PanelBooks
    \/ \E active \in BOOLEAN, max \in 0..MaxPromoUses : UpdatePromotion(active, max)
    \/ QuotaDayEnds

PortalSpec == PortalInit /\ [][PortalNext]_portalVars

-----------------------------------------------------------------------------
(* A retry never books twice: one row per key, although the mark expires, Redis    *)
(* goes away, or a request releases the mark of another (create_public_booking).    *)
OneBookingPerKey ==
    \A r, q \in {p \in PortalRequests : booking[p].state \in {"active", "over"}} :
        booking[r].key = booking[q].key => r = q

(* A phone never holds more than MAX_FUTURE_BOOKINGS_PER_PHONE bookings of the      *)
(* portal, however many requests run at once (get_or_create_client_locked).         *)
PortalCap == Cardinality(ActiveBookings) <= MaxFutureBookings

(* A promotion is not redeemed more times than its max_uses ever allowed             *)
(* (redeem_promotion).                                                              *)
PromotionWithinLimit == promo.uses <= MaxPromoUses

(* An answer kept under a key is that of a booking that was made under it and was    *)
(* not taken back when its payment link failed.                                     *)
ReplayedBookingStands ==
    \A k \in BookingKeys : mark[k] = "result" =>
        \E r \in answered : booking[r].key = k /\ booking[r].state # "reverted"

(* An idempotency key is honoured: it books once, and what a retry is answered is a *)
(* booking that stands.                                                             *)
KeyIsHonoured == OneBookingPerKey /\ ReplayedBookingStands

(* The two counters a booking reads before it writes are never passed, whatever     *)
(* number of bookings race: the bookings of a phone and the uses of a promotion.    *)
LimitsHold == PortalCap /\ PromotionWithinLimit

(* "para que un reintento pueda crear el turno limpio" (revert_failed_booking): the  *)
(* counter of the promotion is the number of its redemptions.                        *)
PromotionUsesAreRedemptions == promo.uses = Cardinality(Redemptions)
=============================================================================
