------------------------------ MODULE Deposits ------------------------------
(* The deposit of a booking (payments/deposit_rules.py, payments/deposit_channels.py, *)
(* public_api/service.py, services/service.py): how much it is, through which channel  *)
(* it is paid, what the portal shows of it before the client books, and the panel        *)
(* that edits the channels, the services and the promotions meanwhile.                     *)
(*                                                                                         *)
(* Amounts are in cents, times in half hours from the moment the client books.              *)
EXTENDS Integers, Sequences, FiniteSetsExt

CONSTANTS Selections,      \* sequences of services a client may choose
          StoreRules,      \* the surcharges a store may configure
          Promotions,      \* the states of the promotion of the store
          ClientAsks,      \* what a client asks for
          Editors,         \* requests of the panel
          FarBookingDays,  \* FAR_BOOKING_DAYS
          AddonPrices,     \* prices of the add-on the owner may set
          MaxAddonIds,     \* bound: ids the add-on goes through
          MaxEdits         \* bound: edits of the owner

HalfHoursOfDay == 48
WhatsappHoldLead == 4
WhatsappMinHold == 1
PaymentHold == 1

Modes == {"none", "optional", "required"}
ServiceRow == [mode : Modes, type : {"full", "fixed", "percent"}, amount : Nat, price : Nat,
               active : BOOLEAN]

(* What the schemas and the CHECKs of the tables admit: prices and amounts from 0, a     *)
(* percentage of at most 100 (ck_services_deposit_percent_max), surcharges from 0, a       *)
(* promotion with a positive value.                                                         *)
ASSUME DepositInputs ==
    /\ FarBookingDays \in Nat
    /\ \A a \in ClientAsks : a.wait \in Nat \ {0} /\ {a.promo, a.verified} \subseteq BOOLEAN
    /\ \A q \in Selections :
          /\ q \in Seq(ServiceRow) /\ Len(q) > 0
          /\ \A i \in 1..Len(q) : q[i].type = "percent" => q[i].amount <= 100
    /\ \A r \in StoreRules : {r.farDays, r.farExtra, r.newExtra, r.absentExtra} \subseteq Nat
    /\ \A p \in Promotions : {p.percent, p.minimum} \subseteq Nat
    /\ AddonPrices \subseteq Nat /\ AddonPrices # {}
    /\ MaxAddonIds \in Nat

VARIABLES store,     \* flags, WhatsApp and connection of the store
          services,  \* the services of the client's choice, in order, as they are now
          rules,     \* the surcharges of the store
          promo,     \* the promotion of the store
          addon,     \* the add-on of the principal service
          told,      \* the owner knows that required deposits cannot be paid
          editor,    \* per request of the panel: where it is
          edits,     \* edits so far
          overlap,   \* two edits of the panel have overlapped
          visit      \* the client: what the portal showed and what the booking did

depositVars == <<store, services, rules, promo, addon, told, editor, edits, overlap, visit>>

NoStore == [whatsapp |-> FALSE, payments |-> FALSE, manual |-> FALSE, usable |-> FALSE]
NoEdit == [at |-> "idle", kind |-> "none", copy |-> NoStore, before |-> FALSE, warn |-> FALSE]
NoVisit == [at |-> "none"]

DepositsTypeOK ==
    /\ store \in [whatsapp : BOOLEAN, payments : BOOLEAN, manual : BOOLEAN, usable : BOOLEAN]
    /\ \A i \in DOMAIN services : services[i].mode \in Modes
    /\ addon.id \in 0..MaxAddonIds
    /\ \A e \in Editors : editor[e].at \in {"idle", "read", "checked"}
    /\ visit.at \in {"none", "shown", "resolved", "written", "booked", "rejected"}

-----------------------------------------------------------------------------
(* deposit_rules.py. _money: to the cent, half up. *)
PercentOf(amount, percent) == (amount * percent + 50) \div 100
AtMost(a, b) == IF a < b THEN a ELSE b

(* base_deposit. *)
BaseDeposit(s, price) ==
    IF s.mode = "none" \/ price <= 0 THEN 0
    ELSE CASE s.type = "full" -> price
           [] s.type = "fixed" -> AtMost(s.amount, price)
           [] s.type = "percent" -> AtMost(price, PercentOf(price, s.amount))

(* ClientHistory: only of a client whose contact is verified (UNKNOWN_HISTORY).    *)
(* The surcharges of decide_deposit.                                                *)
FarNotice(wait) == rules.farDays > 0 /\ wait >= rules.farDays * HalfHoursOfDay
ExtraPercent(wait, history) ==
      (IF FarNotice(wait) THEN rules.farExtra ELSE 0)
    + (IF history = "new" THEN rules.newExtra ELSE 0)
    + (IF history = "absent" THEN rules.absentExtra ELSE 0)

DecideDeposit(s, price, wait, history) ==
    LET base == BaseDeposit(s, price)
        extra == ExtraPercent(wait, history)
    IN  CASE base <= 0 -> 0
          [] base > 0 /\ extra <= 0 -> base
          [] OTHER -> AtMost(price, base + PercentOf(price, extra))

(* selection_deposit_mode, decide_selection_deposit: the highest rule of the         *)
(* services, over the total.                                                          *)
ModeRank(m) == CASE m = "none" -> 0 [] m = "optional" -> 1 [] m = "required" -> 2
SelectionMode(q) ==
    CHOOSE m \in Modes : ModeRank(m) = Max({ModeRank(q[i].mode) : i \in DOMAIN q})
DecideSelection(q, price, wait, history) ==
    Max({0} \union {DecideDeposit(q[i], price, wait, history) :
                        i \in {k \in DOMAIN q : q[k].mode # "none"}})

-----------------------------------------------------------------------------
(* deposit_channels.py. *)
IsFarBooking(wait) == wait \div HalfHoursOfDay > FarBookingDays
FarRuleApplies(far, mode, amount) == far /\ mode = "required" /\ amount > 0

DepositChannelsOf(s) ==
    [mercadopago |-> s.payments /\ s.usable, whatsapp |-> s.whatsapp, payments |-> s.payments]
AnyChannel(s) == DepositChannelsOf(s).mercadopago \/ s.whatsapp

(* deposit_channels_for: without a required deposit nobody reads the connection. *)
DepositChannelsFor(mode) ==
    IF mode = "required" THEN DepositChannelsOf(store)
    ELSE [mercadopago |-> FALSE, whatsapp |-> FALSE, payments |-> store.payments]

WhatsappUsable(ch) == ch.whatsapp /\ (store.manual \/ ~ ch.mercadopago)

(* _required_deposit_channel: a channel, or the error the booking ends in. *)
RequiredChannel(method, ch) ==
    CASE method = "manual" /\ WhatsappUsable(ch) -> "whatsapp"
      [] method = "manual" /\ ~ WhatsappUsable(ch) /\ ch.mercadopago -> "invalid method"
      [] method # "manual" /\ ch.mercadopago -> "mercadopago"
      [] method # "manual" /\ ~ ch.mercadopago /\ WhatsappUsable(ch) -> "whatsapp"
      [] OTHER -> "DEPOSIT_CHANNEL_UNAVAILABLE"

(* _explicit_mercadopago. *)
ExplicitMercadopago(ch, amount) ==
    IF amount > 0 /\ ch.payments THEN "mercadopago" ELSE "invalid method"

(* resolve_deposit_channel. *)
ResolveChannel(method, ch, amount, mode, far) ==
    LET distant == FarRuleApplies(far, mode, amount)
    IN  CASE distant /\ ~ ch.mercadopago -> "FAR_BOOKING_UNAVAILABLE"
          [] method = "mercadopago" /\ ~ (distant /\ ~ ch.mercadopago) -> ExplicitMercadopago(ch, amount)
          [] method # "mercadopago" /\ amount <= 0 -> "none"
          [] method # "mercadopago" /\ amount > 0 /\ mode # "required"
                -> IF method = "auto" /\ ch.payments THEN "mercadopago" ELSE "none"
          [] method # "mercadopago" /\ distant /\ ch.mercadopago
                -> IF method = "manual" THEN "FAR_BOOKING_REQUIRES_MERCADOPAGO" ELSE "mercadopago"
          [] OTHER -> RequiredChannel(method, ch)
Channels == {"mercadopago", "whatsapp", "none"}
BlockedCodes == {"DEPOSIT_CHANNEL_UNAVAILABLE", "FAR_BOOKING_UNAVAILABLE"}

(* booking_blocked_code: what the booking would answer to any method.                *)
(* Plausible bug: the preview forgets that the day is far.                             *)
BlockedCodeNear(ch, amount, mode, far) ==
    LET got == ResolveChannel("auto", ch, amount, mode, FALSE)
    IN  IF got \in BlockedCodes THEN got ELSE "bookable"
BlockedCode(ch, amount, mode, far) ==
    LET got == ResolveChannel("auto", ch, amount, mode, far)
    IN  IF got \in BlockedCodes THEN got ELSE "bookable"

(* online_payment_mandatory. *)
OnlineMandatory(ch, amount, mode, far) ==
    /\ mode = "required" /\ amount > 0 /\ ch.mercadopago
    /\ far \/ ~ WhatsappUsable(ch)

(* far_booking_blocked: the grid knows neither the add-ons nor the client, and       *)
(* estimates with the list price (far_day_closed_by_deposit, the waitlist).           *)
ListPrice(q) == SumFunction([i \in DOMAIN q |-> q[i].price])
GridClosed(q, wait) ==
    /\ SelectionMode(q) = "required"
    /\ IsFarBooking(wait)
    /\ BlockedCode(DepositChannelsOf(store),
                   DecideSelection(q, ListPrice(q), wait, "unknown"),
                   "required", TRUE) = "FAR_BOOKING_UNAVAILABLE"

(* payment_hold_deadline, whatsapp_hold_deadline: until when the slot waits, for a   *)
(* booking that starts in wait.                                                        *)
HoldDeadline(channel, wait) ==
    CASE channel = "mercadopago" -> AtMost(PaymentHold, wait)
      [] channel = "whatsapp" /\ wait - WhatsappHoldLead >= WhatsappMinHold -> wait - WhatsappHoldLead
      [] OTHER -> AtMost(WhatsappMinHold, wait)

-----------------------------------------------------------------------------
(* The price. quote_promotion: the final amount, or -1 when the code does not apply. *)
Discounted(p, total) ==
    IF p.active /\ total >= p.minimum
    THEN total - AtMost(PercentOf(total, p.percent), total)
    ELSE -1

(* quote_addons, price_selection: the add-on the client saw, by its id, at its price    *)
(* of now; 0 is no add-on. -1 is ADDON_UNAVAILABLE.                                       *)
AddonsTotal(chosen) ==
    CASE chosen = 0 -> 0
      [] chosen # 0 /\ chosen = addon.id -> addon.price
      [] OTHER -> -1
GrossTotal(chosen) == ListPrice(services) + AddonsTotal(chosen)

HistoryOf(ask, verified) == IF verified THEN ask.history ELSE "unknown"

DepositsInit ==
    /\ store \in [whatsapp : BOOLEAN, payments : BOOLEAN, manual : BOOLEAN, usable : BOOLEAN]
    /\ services \in Selections
    /\ rules \in StoreRules
    /\ promo \in Promotions
    /\ addon = [id |-> 1, price |-> Min(AddonPrices)]
    /\ told = ~ AnyChannel(store)
    /\ editor = [e \in Editors |-> NoEdit]
    /\ edits = 0
    /\ overlap = FALSE
    /\ visit = NoVisit

-----------------------------------------------------------------------------
(* preview_public_deposit, with the grid the client came from: what the portal        *)
(* shows. A promotion that does not apply leaves the price as it is. The contact may    *)
(* not be verified yet.                                                                  *)
Shown(ask, chosen, verified) ==
    LET gross == GrossTotal(chosen)
        final == IF ask.promo /\ Discounted(promo, gross) >= 0 THEN Discounted(promo, gross) ELSE gross
        mode == SelectionMode(services)
        amount == DecideSelection(services, final, ask.wait, HistoryOf(ask, verified))
        far == IsFarBooking(ask.wait)
        ch == DepositChannelsFor(mode)
    IN  [amount |-> amount, verified |-> verified,
         blocked |-> BlockedCode(ch, amount, mode, far),
         mandatory |-> OnlineMandatory(ch, amount, mode, far),
         closed |-> GridClosed(services, ask.wait)]
Preview(ask, withAddon, verified) ==
    /\ visit.at = "none"
    /\ verified => ask.verified
    /\ LET chosen == IF withAddon THEN addon.id ELSE 0
       IN  visit' = [at |-> "shown", ask |-> ask, chosen |-> chosen, seen |-> IF withAddon THEN addon.price ELSE 0,
                     shown |-> Shown(ask, chosen, verified), steady |-> TRUE,
                     price |-> 0, deposit |-> 0, outcome |-> "none", charged |-> 0, hold |-> 0, link |-> 0,
                     raced |-> FALSE]
    /\ UNCHANGED <<store, services, rules, promo, addon, told, editor, edits, overlap>>

(* _resolve_request: the add-ons, the promotion, the history and the deposit, before    *)
(* anything is written.                                                                   *)
Rejected(v, why) == [v EXCEPT !.at = "rejected", !.outcome = why]
ResolveRequest ==
    /\ visit.at = "shown"
    /\ LET ask == visit.ask
           gross == GrossTotal(visit.chosen)
           final == IF ask.promo THEN Discounted(promo, gross) ELSE gross
           mode == SelectionMode(services)
           amount == DecideSelection(services, final, ask.wait, HistoryOf(ask, ask.verified))
           got == ResolveChannel(ask.method, DepositChannelsFor(mode), amount, mode, IsFarBooking(ask.wait))
       IN  visit' = CASE AddonsTotal(visit.chosen) < 0 -> Rejected(visit, "ADDON_UNAVAILABLE")
                      [] AddonsTotal(visit.chosen) >= 0 /\ final < 0 -> Rejected(visit, "promotion")
                      [] AddonsTotal(visit.chosen) >= 0 /\ final >= 0 /\ got \notin Channels
                            -> Rejected(visit, got)
                      [] OTHER -> [visit EXCEPT !.at = "resolved", !.price = final, !.deposit = amount,
                                                !.outcome = got]
    /\ UNCHANGED <<store, services, rules, promo, addon, told, editor, edits, overlap>>

(* _write_booking: the promotion is quoted again under its lock (_redeem_promotion_code) *)
(* and the deposit with it (_create_pending_payment); the price of the appointment is the  *)
(* one of before. The services and the add-ons are the ones already read.                   *)
WriteBooking ==
    /\ visit.at = "resolved"
    /\ LET ask == visit.ask
           gross == ListPrice(services) + visit.seen
           quoted == IF ask.promo THEN Discounted(promo, gross) ELSE visit.price
           amount == IF ask.promo
                     THEN DecideSelection(services, quoted, ask.wait, HistoryOf(ask, ask.verified))
                     ELSE visit.deposit
       IN  visit' = IF quoted < 0 THEN Rejected(visit, "promotion")
                    ELSE [visit EXCEPT !.at = "written",
                             !.charged = IF visit.outcome = "none" THEN 0 ELSE amount,
                             !.hold = IF visit.outcome = "none" THEN 0
                                      ELSE HoldDeadline(visit.outcome, ask.wait)]
    /\ UNCHANGED <<store, services, rules, promo, addon, told, editor, edits, overlap>>

(* _attach_payment_link, after the commit: without a usable token the booking is undone  *)
(* (PAYMENT_GATEWAY_NOT_CONNECTED, revert_failed_booking).                                 *)
AttachPaymentLink ==
    /\ visit.at = "written"
    /\ visit' = IF visit.outcome = "mercadopago" /\ ~ store.usable
                THEN Rejected(visit, "PAYMENT_GATEWAY_NOT_CONNECTED")
                ELSE [visit EXCEPT !.at = "booked"]
    /\ UNCHANGED <<store, services, rules, promo, addon, told, editor, edits, overlap>>

(* create_payment_preference of the panel: _payment_amount_for_appointment,            *)
(* calculate_service_payment_amount: without surcharges, and never over the frozen       *)
(* price of a booking with a promotion.                                                    *)
LinkDeposit(s, price) ==
    CASE s.mode = "none" -> 0
      [] s.mode # "none" /\ s.type = "full" -> price
      [] s.mode # "none" /\ s.type = "fixed" -> AtMost(s.amount, price)
      [] s.mode # "none" /\ s.type = "percent" -> PercentOf(price, s.amount)
LinkAmount(v) ==
    LET listed == ListPrice(services) + v.seen
        price == IF v.ask.promo THEN AtMost(listed, v.price) ELSE listed
        asked == Max({LinkDeposit(services[i], price) : i \in DOMAIN services})
    IN  IF asked = 0 THEN price ELSE asked
PanelLink ==
    /\ visit.at = "booked" /\ visit.link = 0
    /\ visit' = [visit EXCEPT !.link = LinkAmount(visit)]
    /\ UNCHANGED <<store, services, rules, promo, addon, told, editor, edits, overlap>>

-----------------------------------------------------------------------------
(* The panel. Whatever it changes while a client is in the portal leaves the visit      *)
(* unsteady.                                                                              *)
Disturbed(v) == IF v.at \in {"shown", "resolved", "written"} THEN [v EXCEPT !.steady = FALSE] ELSE v
Idle(e) == editor[e].at = "idle"
Overlapping(e) == overlap \/ \E o \in Editors \ {e} : ~ Idle(o)

Changed(s, kind) ==
    CASE kind = "whatsapp" -> [s EXCEPT !.whatsapp = FALSE]
      [] kind = "payments" -> [s EXCEPT !.payments = FALSE]
      [] kind = "disconnect" -> [s EXCEPT !.usable = FALSE]
      [] OTHER -> s

(* update_my_store, update_my_store_feature_flags, disconnect_mercadopago_oauth and the *)
(* PATCH of a service: the store is read, with its channels.                              *)
MayEdit(kind) ==
    CASE kind = "whatsapp" -> TRUE
      [] kind = "payments" -> TRUE
      [] kind = "disconnect" -> store.payments /\ store.usable
      [] kind = "require" -> AnyChannel(store)     \* _require_channel_for
EditRead(e, kind) ==
    /\ Idle(e) /\ edits < MaxEdits
    /\ MayEdit(kind)
    /\ editor' = [editor EXCEPT ![e] = [at |-> "read", kind |-> kind, copy |-> store,
                                        before |-> AnyChannel(store), warn |-> FALSE]]
    /\ edits' = edits + 1
    /\ overlap' = Overlapping(e)
    /\ UNCHANGED <<store, services, rules, promo, addon, told, visit>>

(* _has_required_deposit_services: of the active ones. *)
HasRequired == \E i \in DOMAIN services : services[i].mode = "required" /\ services[i].active

(* warn_if_deposit_channel_lost: the row as this session read it, with its change; the    *)
(* connection is asked again. Plausible bug: the channels are read before the change.       *)
LostUnchanged(e) == editor[e].before /\ ~ AnyChannel(editor[e].copy) /\ HasRequired
ChannelLost(e) ==
    LET mine == Changed(editor[e].copy, editor[e].kind)
        after == [mine EXCEPT !.usable = store.usable /\ mine.usable]
    IN  editor[e].before /\ ~ AnyChannel(after) /\ HasRequired
EditCheck(e) ==
    /\ editor[e].at = "read"
    /\ editor' = [editor EXCEPT ![e].at = "checked", ![e].warn = ChannelLost(e)]
    /\ UNCHANGED <<store, services, rules, promo, addon, told, edits, overlap, visit>>
EditCommit(e) ==
    /\ editor[e].at = "checked"
    /\ store' = Changed(store, editor[e].kind)
    /\ services' = IF editor[e].kind = "require" THEN [services EXCEPT ![1].mode = "required"] ELSE services
    /\ told' = (told \/ editor[e].warn)
    /\ editor' = [editor EXCEPT ![e] = NoEdit]
    /\ visit' = Disturbed(visit)
    /\ UNCHANGED <<rules, promo, addon, edits, overlap>>

(* A channel comes back: the WhatsApp, the payments or the connection. *)
RestoreChannel(column) ==
    /\ edits < MaxEdits /\ ~ store[column]
    /\ store' = [store EXCEPT ![column] = TRUE]
    /\ told' = (told /\ ~ AnyChannel(store'))
    /\ edits' = edits + 1
    /\ overlap' = (overlap \/ \E e \in Editors : ~ Idle(e))
    /\ visit' = Disturbed(visit)
    /\ UNCHANGED <<services, rules, promo, addon, editor>>

(* _mark_connection_broken, which tells the owner with a message of its own. *)
ConnectionBreaks ==
    /\ edits < MaxEdits /\ store.usable
    /\ store' = [store EXCEPT !.usable = FALSE]
    /\ told' = (told \/ ~ AnyChannel(store'))
    /\ edits' = edits + 1
    /\ overlap' = (overlap \/ \E e \in Editors : ~ Idle(e))
    /\ visit' = Disturbed(visit)
    /\ UNCHANGED <<services, rules, promo, addon, editor>>

(* ServiceCatalogService.soft_delete, and update with is_active: no field of the          *)
(* deposit is touched, no channel is asked for. The client's choice was made before.        *)
SetActive(i, to) ==
    /\ edits < MaxEdits /\ i \in DOMAIN services /\ services[i].active # to
    /\ services' = [services EXCEPT ![i].active = to]
    /\ edits' = edits + 1
    /\ overlap' = (overlap \/ \E e \in Editors : ~ Idle(e))
    /\ visit' = Disturbed(visit)
    /\ UNCHANGED <<store, rules, promo, addon, told, editor>>

(* replace_addons, under the lock of the service: the same price keeps its id, another    *)
(* one rotates it.                                                                        *)
ReplacedAddon(price) == IF price = addon.price THEN addon ELSE [id |-> addon.id + 1, price |-> price]
ReplaceAddons(price) ==
    /\ edits < MaxEdits /\ addon.id < MaxAddonIds
    /\ addon' = ReplacedAddon(price)
    /\ edits' = edits + 1
    /\ visit' = Disturbed(visit)
    /\ UNCHANGED <<store, services, rules, promo, told, editor, overlap>>

(* update_store_promotion, deactivate_store_promotion. *)
EditPromotion(p) ==
    /\ edits < MaxEdits /\ p # promo
    /\ promo' = p
    /\ edits' = edits + 1
    /\ visit' = IF visit.at = "resolved" THEN [Disturbed(visit) EXCEPT !.raced = TRUE] ELSE Disturbed(visit)
    /\ UNCHANGED <<store, services, rules, addon, told, editor, overlap>>

-----------------------------------------------------------------------------
DepositsNext ==
    \/ \E ask \in ClientAsks, withAddon, verified \in BOOLEAN : Preview(ask, withAddon, verified)
    \/ ResolveRequest \/ WriteBooking \/ AttachPaymentLink \/ PanelLink
    \/ \E e \in Editors :
          \/ \E k \in {"whatsapp", "payments", "disconnect", "require"} : EditRead(e, k)
          \/ EditCheck(e) \/ EditCommit(e)
    \/ \E c \in {"whatsapp", "payments", "usable"} : RestoreChannel(c)
    \/ ConnectionBreaks
    \/ \E i \in 1..2, to \in BOOLEAN : SetActive(i, to)
    \/ \E p \in AddonPrices : ReplaceAddons(p)
    \/ \E p \in Promotions : EditPromotion(p)

DepositsSpec == DepositsInit /\ [][DepositsNext]_depositVars

-----------------------------------------------------------------------------
(* The preview is what the booking does. While the owner changes nothing, a client whom   *)
(* the portal did not stop is not stopped, except for a code that does not apply; he is     *)
(* charged what he was shown, or more if his contact was verified after it; a deposit that   *)
(* had to be paid online is not taken by WhatsApp; and a day the grid closed is a day the     *)
(* booking rejects, unless a promotion left no deposit (booking_blocked_code,                  *)
(* online_payment_mandatory, far_booking_blocked).                                              *)
ShownIsCharged ==
    visit.at \in {"booked", "rejected"} /\ visit.steady =>
        LET sh == visit.shown IN
        /\ visit.outcome \in BlockedCodes => sh.blocked = visit.outcome
        /\ sh.blocked # "bookable" => visit.at = "rejected"
        /\ visit.at = "booked" /\ visit.outcome # "none"
              => /\ sh.verified = visit.ask.verified => visit.charged = sh.amount
                 /\ visit.charged >= sh.amount
                 /\ sh.mandatory => visit.outcome = "mercadopago"
        /\ visit.ask.method = "manual" /\ ~ sh.mandatory => visit.outcome # "invalid method"
        /\ sh.closed => visit.at = "rejected" \/ visit.deposit = 0

(* An add-on costs what the client saw, or is no longer there (replace_addons, "un        *)
(* catalogo cacheado nunca cotiza otro precio bajo el mismo id"), the deposit and the        *)
(* link of the panel stay within the price of the appointment, and the slot waits for         *)
(* the payment, never past its start. Only a promotion edited between the quote and the        *)
(* redemption leaves them apart.                                                                 *)
DepositIsPayable ==
    /\ visit.at = "resolved" /\ ~ visit.ask.promo => visit.price = ListPrice(services) + visit.seen
    /\ visit.at = "booked" /\ ~ visit.raced => visit.charged <= visit.price
    /\ visit.at = "booked" /\ ~ visit.raced => visit.link <= visit.price
    /\ visit.at = "booked" /\ visit.outcome # "none" => visit.hold \in 1..visit.ask.wait

(* The deposit of a booking is the one that was shown and one that can be paid, whatever    *)
(* the panel edits between the two.                                                          *)
DepositHolds == ShownIsCharged /\ DepositIsPayable

(* As long as the edits of the panel do not overlap, a store that loses its last channel  *)
(* while a service requires a deposit has told its owner (warn_if_deposit_channel_lost).    *)
LossIsTold ==
    [][~ overlap' /\ AnyChannel(store) /\ ~ AnyChannel(store') /\ HasRequired => told']_depositVars

(* "la tienda se entera dos veces: al perder el ultimo canal": with a required deposit      *)
(* that nobody can pay, the owner was told.                                                   *)
NoSilentStore == ~ AnyChannel(store) /\ HasRequired /\ ~ overlap => told
=============================================================================
