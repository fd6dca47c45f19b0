------------------------------- MODULE Charge -------------------------------
(***************************************************************************)
(* One appointment (Appointment) and the charge that collects its deposit  *)
(* or its price (Payment), with everybody who writes them:                 *)
(*                                                                         *)
(*  - the public booking and the panel's "payment link", which commit,     *)
(*    call Mercado Pago with no transaction open, and seal the link when   *)
(*    it answers (payments/service.py, public_api/service.py);             *)
(*  - the panel and the client: confirm, cancel, release, reschedule,      *)
(*    register a payment by hand, register a refund;                       *)
(*  - Mercado Pago's events, which arrive late, twice and out of order     *)
(*    through the webhook, the inbox and the reconciliation job, and all   *)
(*    run apply_mercadopago_webhook_payload (payments/processing.py);      *)
(*  - the job that ends overdue holds: it asks Mercado Pago without a lock *)
(*    and decides later, under the lock (payments/jobs.py).                *)
(*                                                                         *)
(* A transaction locks the appointment, then the charge, and is one step;  *)
(* what interleaves is the HTTP call between two transactions.  The        *)
(* optimistic `version` column of the charge is abstracted to what it      *)
(* decides: a caller is "fresh" until somebody else writes the row.        *)
(*                                                                         *)
(* An amount is not modelled: what counts is whether an operation changes  *)
(* it, which retires the link, and whether a remote payment passes the     *)
(* integrity validation (Suspect payments do not).                         *)
(***************************************************************************)
EXTENDS Naturals, FiniteSets

CONSTANTS
    Links,      \* the preferences Mercado Pago can create for this charge
    Pays,       \* the payments clients can make on those links
    Panels,     \* concurrent "payment link" requests from the panel
    Suspect,    \* payments that fail the integrity validation
    Bookings,   \* how the appointment may be booked, a subset of BookingKinds
    Statuses,   \* the remote statuses a payment may go through
    None        \* a placeholder link, no payment id

BookingKinds == {"mercadopago", "whatsapp", "confirmed", "pending"}
RemoteStatuses == {"in_process", "rejected", "approved", "in_mediation",
                   "charged_back", "refunded"}

ASSUME ConstantsAssumption ==
    /\ None \notin Links \cup Pays
    /\ Suspect \subseteq Pays
    /\ Bookings \subseteq BookingKinds
    /\ Statuses \subseteq RemoteStatuses

VARIABLES
    appt,       \* Appointment.status; "none" before, "deleted" when reverted
    clock,      \* "held", then "lapsed" (expires_at), then "started" (starts_at)
    charge,     \* Payment.status, "none" when there is no row
    provider,   \* Payment.provider
    rule,       \* "deposit" when the row carries a deposit_rule snapshot
    link,       \* Payment.preference_id / link_ref; None is the placeholder
    ext,        \* Payment.external_payment_id
    retired,    \* PaymentLinkHistory: links the charge stopped using
    expireReq,  \* links with a payment.preference.expire event in the outbox
    issued,     \* links Mercado Pago has created
    paidOn,     \* the link each remote payment pays, None before it exists
    remote,     \* the status of each payment in Mercado Pago
    told,       \* what the owner has been told about each payment
    booking,    \* the booking request waiting for Mercado Pago
    op,         \* each panel request waiting for Mercado Pago
    born,       \* "own" when that request inserted the charge
    job,        \* "consulted" between phase A and phase B of the job
    jobPay,     \* the remote payment phase A brought, None if it brought none
    jobSt,      \* its status when it was read
    handled,    \* history: payments whose approved event was processed
    settledBy   \* history: the payment that took the charge to approved

rowVars == <<charge, provider, rule, link, ext, retired>>
remoteVars == <<paidOn, remote>>
callVars == <<booking, op, born>>
jobVars == <<job, jobPay, jobSt>>
noteVars == <<told, handled, settledBy>>
vars == <<appt, clock, rowVars, expireReq, issued, remoteVars, noteVars,
          callVars, jobVars>>

ApptStates == {"none", "pending", "pending_payment", "confirmed", "cancelled",
               "expired", "completed", "absent", "deleted"}
ChargeStates == {"none", "pending", "rejected", "approved", "expired",
                 "manual_confirmed", "refunded"}
CallStates == {"idle", "fresh", "stale"}
Notices == {"credited", "late", "replaced", "reversed", "disputed",
            "other_reversed"}

TypeOK ==
    /\ appt \in ApptStates
    /\ clock \in {"held", "lapsed", "started"}
    /\ charge \in ChargeStates
    /\ provider \in {"manual", "mercadopago"}
    /\ rule \in {"deposit", "free"}
    /\ link \in Links \cup {None}
    /\ ext \in Pays \cup {None}
    /\ retired \subseteq Links
    /\ expireReq \subseteq Links
    /\ issued \subseteq Links
    /\ paidOn \in [Pays -> Links \cup {None}]
    /\ remote \in [Pays -> RemoteStatuses \cup {"none"}]
    /\ told \in [Pays -> SUBSET Notices]
    /\ booking \in CallStates
    /\ op \in [Panels -> CallStates]
    /\ born \in [Panels -> {"own", "found"}]
    /\ job \in {"idle", "consulted"}
    /\ jobPay \in Pays \cup {None}
    /\ jobSt \in RemoteStatuses \cup {"none"}
    /\ handled \subseteq Pays
    /\ settledBy \in Pays \cup {None}

Init ==
    /\ appt = "none"
    /\ clock = "held"
    /\ charge = "none"
    /\ provider = "mercadopago"
    /\ rule = "free"
    /\ link = None
    /\ ext = None
    /\ retired = {}
    /\ expireReq = {}
    /\ issued = {}
    /\ paidOn = [m \in Pays |-> None]
    /\ remote = [m \in Pays |-> "none"]
    /\ told = [m \in Pays |-> {}]
    /\ booking = "idle"
    /\ op = [p \in Panels |-> "idle"]
    /\ born = [p \in Panels |-> "found"]
    /\ job = "idle"
    /\ jobPay = None
    /\ jobSt = "none"
    /\ handled = {}
    /\ settledBy = None

-----------------------------------------------------------------------------
(* The two state graphs.                                                   *)

(* RELEASED_APPOINTMENT_STATUSES *)
Released == {"cancelled", "expired"}

(* is_active: the states from which the graph reaches cancelled *)
Active == {"pending", "pending_payment", "confirmed"}

(* The row exists and is not released (lock_payable_appointment). *)
Payable == appt \notin Released \cup {"none", "deleted"}

(* ACCREDITED_PAYMENT_STATUSES and LIVE_CHARGE_PAYMENT_STATUSES *)
Accredited == {"approved", "manual_confirmed"}
Live == {"pending", "rejected"}

(* _asentado *)
Settled == Accredited \cup {"refunded"}

(* ALLOWED_PAYMENT_TRANSITIONS and can_apply_payment_status *)
PaymentGraph ==
    {<<"pending", "approved">>, <<"pending", "rejected">>,
     <<"pending", "expired">>, <<"pending", "manual_confirmed">>,
     <<"rejected", "approved">>, <<"rejected", "manual_confirmed">>,
     <<"rejected", "expired">>,
     <<"expired", "approved">>, <<"expired", "manual_confirmed">>,
     <<"approved", "refunded">>, <<"manual_confirmed", "refunded">>}
CanApply(current, attempted) ==
    current = attempted \/ <<current, attempted>> \in PaymentGraph
ApplyStatus(current, attempted) ==
    IF CanApply(current, attempted) THEN attempted ELSE current

(* Mutant: an accredited charge confirms whatever it finds.                *)
SyncApptRevives(a, c) == IF c \in Accredited THEN "confirmed" ELSE a

(* sync_appointment_with_payment: the status the appointment takes. *)
SyncAppt(a, c) ==
    CASE c \in Accredited /\ a \in {"pending", "pending_payment"} -> "confirmed"
      [] c = "refunded" /\ a = "pending_payment" -> "cancelled"
      [] c \in {"rejected", "expired"} /\ a = "pending_payment" -> "expired"
      [] OTHER -> a


(* is_placeholder_preference_id: a placeholder does not exist in Mercado   *)
(* Pago, so there is nothing to record or to expire.                       *)
Real(l) == IF l = None THEN {} ELSE {l}

(* A write of the charge row bumps its version: whoever is waiting for     *)
(* Mercado Pago with the old one will not be able to seal.                 *)
Stale(s) == IF s = "fresh" THEN "stale" ELSE s
RowWritten ==
    /\ booking' = Stale(booking)
    /\ op' = [p \in Panels |-> Stale(op[p])]
    /\ born' = born
RowWrittenIf(b) ==
    IF b THEN RowWritten ELSE UNCHANGED callVars

-----------------------------------------------------------------------------
(* Booking.                                                                *)

(* public_api book with a deposit: the appointment is held, the charge is  *)
(* committed with a placeholder, and only a Mercado Pago deposit goes on   *)
(* to ask for a link.                                                      *)
BookWithDeposit(channel) ==
    /\ appt = "none"
    /\ channel \in Bookings \cap {"mercadopago", "whatsapp"}
    /\ appt' = "pending_payment"
    /\ charge' = "pending"
    /\ rule' = "deposit"
    /\ IF channel = "mercadopago"
       THEN provider' = "mercadopago" /\ booking' = "fresh"
       ELSE provider' = "manual" /\ booking' = "idle"
    /\ UNCHANGED <<clock, link, ext, retired, expireReq, issued, remoteVars,
                   noteVars, op, born, jobVars>>

(* Without a deposit: the public booking and book_for_client are born      *)
(* confirmed, the panel's own booking (book) pending.                      *)
BookWithoutDeposit(status) ==
    /\ appt = "none"
    /\ status \in Bookings \cap {"confirmed", "pending"}
    /\ appt' = status
    /\ UNCHANGED <<clock, rowVars, expireReq, issued, remoteVars, noteVars,
                   callVars, jobVars>>

(* _attach_payment_link: Mercado Pago answered and nobody wrote the charge *)
(* meanwhile.  The appointment is not locked nor read again.               *)
BookingSeal(l) ==
    /\ booking = "fresh"
    /\ l \in Links \ issued
    /\ link' = l
    /\ provider' = "mercadopago"
    /\ issued' = issued \cup {l}
    /\ booking' = "idle"
    /\ op' = [p \in Panels |-> Stale(op[p])]
    /\ UNCHANGED <<appt, clock, charge, rule, ext, retired, expireReq,
                   remoteVars, noteVars, born, jobVars>>

(* Somebody did: StaleDataError, a 409, and the link is left behind in     *)
(* Mercado Pago.                                                           *)
BookingStale(l) ==
    /\ booking = "stale"
    /\ l \in Links \ issued
    /\ issued' = issued \cup {l}
    /\ booking' = "idle"
    /\ UNCHANGED <<appt, clock, rowVars, expireReq, remoteVars, noteVars, op,
                   born, jobVars>>

(* The charge and the appointment are deleted, whatever happened to them   *)
(* while Mercado Pago was thinking.  The foreign key of the link history   *)
(* makes the DELETE fail when the charge has retired a link.               *)
RevertFailedBooking ==
    IF retired = {}
    THEN /\ appt' = "deleted"
         /\ charge' = "none"
         /\ link' = None
         /\ ext' = None
         /\ op' = [p \in Panels |-> Stale(op[p])]
         /\ UNCHANGED <<provider, rule, retired>>
    ELSE UNCHANGED <<appt, rowVars, op>>

(* Mercado Pago failed: revert_failed_booking.  lost is the preference it  *)
(* created without a checkout link, if any: it is sent to expire, unless   *)
(* the revert itself raised.                                               *)
BookingFail(lost) ==
    /\ booking # "idle"
    /\ lost \in (Links \ issued) \cup {None}
    /\ RevertFailedBooking
    /\ issued' = issued \cup Real(lost)
    /\ expireReq' = IF retired = {} THEN expireReq \cup Real(lost) ELSE expireReq
    /\ booking' = "idle"
    /\ UNCHANGED <<clock, remoteVars, noteVars, born, jobVars>>

(* The process dies while it waits. *)
BookingCrash ==
    /\ booking # "idle"
    /\ booking' = "idle"
    /\ UNCHANGED <<appt, clock, rowVars, expireReq, issued, remoteVars,
                   noteVars, op, born, jobVars>>

-----------------------------------------------------------------------------
(* The panel's payment link.                                               *)

(* _panel_link_phase_one on an appointment without a charge: it inserts    *)
(* one.                                                                    *)
PanelLinkInsert(p) ==
    /\ op[p] = "idle"
    /\ Payable
    /\ charge = "none"
    /\ charge' = "pending"
    /\ provider' = "mercadopago"
    /\ rule' = "free"
    /\ op' = [op EXCEPT ![p] = "fresh"]
    /\ born' = [born EXCEPT ![p] = "own"]
    /\ UNCHANGED <<appt, clock, link, ext, retired, expireReq, issued,
                   remoteVars, noteVars, booking, jobVars>>

(* Mutant: the replaced link is recorded but never sent to expire. *)
RetireLinkForgetsExpire ==
    /\ retired' = retired \cup Real(link)
    /\ link' = None
    /\ ext' = None
    /\ UNCHANGED expireReq

(* _retire_link: the link goes to the history and to the outbox, and the   *)
(* charge forgets the payment it had noted.                                *)
RetireLink ==
    /\ retired' = retired \cup Real(link)
    /\ expireReq' = expireReq \cup Real(link)
    /\ link' = None
    /\ ext' = None

(* _panel_link_phase_one on a charge that exists and is not accredited:    *)
(* an expired charge, or one whose amount changes (never one with a        *)
(* deposit rule), retires its link.  A real link that stays is returned    *)
(* as it is and nothing is asked.                                          *)
PanelLinkAsk(p, repriced) ==
    /\ op[p] = "idle"
    /\ Payable
    /\ charge \notin Accredited \cup {"none"}
    /\ repriced => rule = "free"
    /\ IF repriced \/ charge = "expired"
       THEN /\ RetireLink
            /\ booking' = Stale(booking)
            /\ op' = [[q \in Panels |-> Stale(op[q])] EXCEPT ![p] = "fresh"]
       ELSE /\ link = None
            /\ op' = [op EXCEPT ![p] = "fresh"]
            /\ UNCHANGED <<retired, expireReq, link, ext, booking>>
    /\ born' = [born EXCEPT ![p] = "found"]
    /\ UNCHANGED <<appt, clock, charge, provider, rule, issued, remoteVars,
                   noteVars, jobVars>>

(* _panel_link_phase_two: the version matches and the appointment, locked  *)
(* again, is still payable.  An expired charge is reopened                 *)
(* (reopen_for_panel_link).                                                *)
PanelLinkSeal(p, l) ==
    /\ op[p] = "fresh"
    /\ Payable
    /\ l \in Links \ issued
    /\ link' = l
    /\ provider' = "mercadopago"
    /\ charge' = IF charge = "expired" THEN "pending" ELSE charge
    /\ issued' = issued \cup {l}
    /\ booking' = Stale(booking)
    /\ op' = [[q \in Panels |-> Stale(op[q])] EXCEPT ![p] = "idle"]
    /\ UNCHANGED <<appt, clock, rule, ext, retired, expireReq, remoteVars,
                   noteVars, born, jobVars>>


(* A version conflict, or the appointment was released meanwhile: the new  *)
(* link is not sealed and is sent to expire (_drop_unsealed_link).         *)
PanelLinkDrop(p, l) ==
    /\ op[p] = "stale" \/ (op[p] = "fresh" /\ ~Payable)
    /\ l \in Links \ issued
    /\ issued' = issued \cup {l}
    /\ expireReq' = expireReq \cup {l}
    /\ op' = [op EXCEPT ![p] = "idle"]
    /\ UNCHANGED <<appt, clock, rowVars, remoteVars, noteVars, booking, born,
                   jobVars>>

(* Mercado Pago failed.  The charge this call inserted is deleted if it    *)
(* still has its placeholder (_discard_orphan_payment); its status is not  *)
(* looked at.  The link history's foreign key can make the DELETE fail.    *)
PanelLinkFail(p, lost) ==
    /\ op[p] # "idle"
    /\ lost \in (Links \ issued) \cup {None}
    /\ issued' = issued \cup Real(lost)
    /\ expireReq' = expireReq \cup Real(lost)
    /\ IF born[p] = "own" /\ link = None /\ retired = {}
       THEN /\ charge' = "none"
            /\ ext' = None
            /\ booking' = Stale(booking)
            /\ op' = [[q \in Panels |-> Stale(op[q])] EXCEPT ![p] = "idle"]
       ELSE /\ op' = [op EXCEPT ![p] = "idle"]
            /\ UNCHANGED <<charge, ext, booking>>
    /\ UNCHANGED <<appt, clock, provider, rule, link, retired, remoteVars,
                   noteVars, born, jobVars>>

PanelLinkCrash(p) ==
    /\ op[p] # "idle"
    /\ op' = [op EXCEPT ![p] = "idle"]
    /\ UNCHANGED <<appt, clock, rowVars, expireReq, issued, remoteVars,
                   noteVars, booking, born, jobVars>>

-----------------------------------------------------------------------------
(* The panel and the client move the appointment.                          *)

(* expire_live_charge, with the appointment locked by the caller. *)
ExpireLive(c) == IF c \in Live THEN "expired" ELSE c

(* Mutant: the charge expires and its link stays payable. *)
ExpireLinkOfNothing(c, l) == {}

ExpireLinkOf(c, l) == IF c \in Live THEN Real(l) ELSE {}

(* Mutant: the appointment is released and its charge stays live. *)
DropKeepsCharge(status) ==
    /\ appt' = status
    /\ UNCHANGED <<clock, rowVars, expireReq, issued, remoteVars, noteVars,
                   callVars, jobVars>>

Drop(status) ==
    /\ appt' = status
    /\ charge' = ExpireLive(charge)
    /\ expireReq' = expireReq \cup ExpireLinkOf(charge, link)
    /\ RowWrittenIf(charge' # charge)
    /\ UNCHANGED <<clock, provider, rule, link, ext, retired, issued,
                   remoteVars, noteVars, jobVars>>

(* _cancel_locked, from cancel and bulk_cancel *)
Cancel ==
    /\ appt \in Active
    /\ clock # "started"
    /\ Drop("cancelled")

(* reschedule: the original is cancelled; the copy is another appointment. *)
Reschedule ==
    /\ appt \in Active \ {"pending_payment"}
    /\ Drop("cancelled")

(* _cancel_for_block, of what _classify found cancellable *)
CancelForBlock ==
    /\ appt \in Active \ {"pending_payment"}
    /\ charge \notin Accredited
    /\ Drop("cancelled")

(* cancel_by_client and reschedule_by_client: a charge that waits for      *)
(* Mercado Pago stops the client, a WhatsApp deposit does not              *)
(* (client_cancel_denial); rescheduling also needs that nothing was paid.  *)
ClientMayDrop ==
    /\ appt \in Active
    /\ clock # "started"
    /\ \/ charge \in Live /\ provider = "manual"
       \/ charge \notin Live /\ appt # "pending_payment"
CancelByClient == ClientMayDrop /\ Drop("cancelled")
RescheduleByClient ==
    ClientMayDrop /\ charge \notin Accredited /\ Drop("cancelled")

(* release_pending *)
ReleasePending ==
    /\ appt \in {"pending", "pending_payment"}
    /\ charge \notin Settled
    /\ Drop("expired")

(* confirm: not while the deposit is live *)
Confirm ==
    /\ appt \in {"pending", "pending_payment"}
    /\ ~(appt = "pending_payment" /\ charge \in Live)
    /\ appt' = "confirmed"
    /\ UNCHANGED <<clock, rowVars, expireReq, issued, remoteVars, noteVars,
                   callVars, jobVars>>

(* complete and mark_absent *)
Close(status) ==
    /\ appt = "confirmed"
    /\ appt' = status
    /\ UNCHANGED <<clock, rowVars, expireReq, issued, remoteVars, noteVars,
                   callVars, jobVars>>

-----------------------------------------------------------------------------
(* Money registered by hand.                                               *)

(* manual_confirm on an appointment without a charge *)
ManualInsert ==
    /\ Payable
    /\ charge = "none"
    /\ charge' = "manual_confirmed"
    /\ provider' = "manual"
    /\ rule' = "free"
    /\ appt' = SyncAppt(appt, "manual_confirmed")
    /\ UNCHANGED <<clock, link, ext, retired, expireReq, issued, remoteVars,
                   noteVars, callVars, jobVars>>

(* manual_confirm on a charge that is not accredited; an explicit amount   *)
(* that differs retires the link, and the link that is kept is sent to     *)
(* expire (_expire_live_checkout).  A refunded charge stays refunded.      *)
ManualConfirm(repriced) ==
    /\ Payable
    /\ charge \notin Accredited \cup {"none"}
    /\ repriced \/ CanApply(charge, "manual_confirmed")
    /\ charge' = ApplyStatus(charge, "manual_confirmed")
    /\ appt' = SyncAppt(appt, charge')
    /\ IF repriced
       THEN RetireLink
       ELSE /\ expireReq' = expireReq \cup Real(link)
            /\ UNCHANGED <<link, ext, retired>>
    /\ RowWritten
    /\ UNCHANGED <<clock, provider, rule, issued, remoteVars, noteVars, jobVars>>

(* refund: registers a refund made outside *)
Refund ==
    /\ charge \in Accredited
    /\ charge' = "refunded"
    /\ appt' = SyncAppt(appt, "refunded")
    /\ RowWritten
    /\ UNCHANGED <<clock, provider, rule, link, ext, retired, expireReq, issued,
                   remoteVars, noteVars, jobVars>>

-----------------------------------------------------------------------------
(* Events of Mercado Pago.                                                 *)

(* resolve_payment_status *)
Resolve(st) ==
    CASE st \in {"in_process", "in_mediation"} -> "pending"
      [] st = "charged_back" -> "refunded"
      [] OTHER -> st

(* The statuses a payment may have had before reaching st: any of them can *)
(* still be delivered, late or again.                                      *)
Past(st) ==
    CASE st = "none" -> {}
      [] st = "in_process" -> {"in_process"}
      [] st = "rejected" -> {"in_process", "rejected"}
      [] st = "approved" -> {"in_process", "approved"}
      [] st = "in_mediation" -> {"in_process", "approved", "in_mediation"}
      [] OTHER -> {"in_process", "approved", "in_mediation", st}

(* find_payment_for_webhook and the integrity validation let it through. *)
Delivered(m, st) ==
    /\ charge # "none"
    /\ m \in Pays \ Suspect
    /\ st \in Past(remote[m]) \cap Statuses

(* classify_payment_link *)
IsCurrent(m) == paidOn[m] = link
IsRetired(m) == paidOn[m] # link /\ paidOn[m] \in retired

(* abierto: not accredited, and approved can be applied *)
Open == charge \in {"pending", "rejected", "expired"}

(* Mutant: only a different id counts as another payment. *)
OfOtherPaymentById(m, st) == charge \in Settled /\ ext # None /\ m # ext

(* _es_de_otro_pago and _es_evento_de_otro_pago *)
OfOtherPayment(m, st) ==
    \/ charge = "manual_confirmed"
    \/ /\ charge \in Settled
       /\ IF ext = None
          THEN charge = "refunded" /\ Resolve(st) = "approved"
          ELSE m # ext
    \/ charge \in Settled /\ m # ext /\ "replaced" \in told[m]

(* An approved payment that is not applied: on a link that is neither the  *)
(* current one nor one an open charge can adopt (_resolver_link), or of    *)
(* another payment on a settled charge (_evento_de_otro_pago).  The owner  *)
(* is told once per payment (_pago_en_link_reemplazado).                   *)
ReplacedPayment(m) ==
    /\ Delivered(m, "approved")
    /\ IF IsCurrent(m) THEN OfOtherPayment(m, "approved")
                       ELSE ~(Open /\ IsRetired(m))
    /\ told' = [told EXCEPT ![m] = @ \cup {"replaced"}]
    /\ handled' = handled \cup {m}
    /\ UNCHANGED <<appt, clock, rowVars, expireReq, issued, remoteVars,
                   settledBy, callVars, jobVars>>

(* A dispute, chargeback or refund of another payment: the charge is not   *)
(* touched (_avisar_reverso_de_otro_pago).                                 *)
ReversalOfOther(m, st) ==
    /\ Delivered(m, st)
    /\ st \in {"charged_back", "in_mediation", "refunded"}
    /\ OfOtherPayment(m, st)
    /\ ~(st = "refunded" /\ "replaced" \in told[m])
    /\ told' = [told EXCEPT ![m] = @ \cup {"other_reversed"}]
    /\ UNCHANGED <<appt, clock, rowVars, expireReq, issued, remoteVars, handled,
                   settledBy, callVars, jobVars>>

(* Mutant: the id of the first attempt sticks. *)
StampExtFirst(m, st) == IF ext = None THEN m ELSE ext

(* _stamp_payment: the id is noted if the transition was applied, or if    *)
(* the charge has none and is not settled.                                 *)
StampExt(m, st) ==
    IF CanApply(charge, Resolve(st)) \/ (ext = None /\ charge \notin Settled)
    THEN m ELSE ext

(* _sync_appointment: the appointment after the charge became c *)
SyncFromEvent(st, c) ==
    IF st = "approved" /\ appt = "pending_payment" /\ clock = "started"
    THEN "expired" ELSE SyncAppt(appt, c)

(* Mutant: a payment that arrives after the release goes unnoticed. *)
NoticesOfOnTimeOnly(st, c, a) ==
    IF charge \notin Accredited /\ c = "approved" /\ a \notin Released
    THEN {"credited"} ELSE {}

(* _avisar_al_dueno *)
NoticesOf(st, c, a) ==
    (IF charge \notin Accredited /\ c = "approved"
        THEN {IF a \in Released THEN "late" ELSE "credited"} ELSE {})
    \cup (IF charge \in Accredited /\ c = "refunded" THEN {"reversed"} ELSE {})
    \cup (IF charge \in Accredited /\ st = "in_mediation" THEN {"disputed"} ELSE {})

(* The event is applied: on the current link, or, approved, on a retired   *)
(* link that an open charge adopts (adopt_retired_link).                   *)
Applicable(m, st) ==
    /\ Delivered(m, st)
    /\ ~OfOtherPayment(m, st)
    /\ IsCurrent(m) \/ (st = "approved" /\ Open /\ IsRetired(m))

ApplyEvent(m, st) ==
    LET c == ApplyStatus(charge, Resolve(st))
        a == SyncFromEvent(st, c)
        adopted == IF IsCurrent(m) THEN {} ELSE Real(link)
    IN  /\ Applicable(m, st)
        /\ appt' = a
        /\ charge' = IF a \in Released THEN ExpireLive(c) ELSE c
        /\ ext' = StampExt(m, st)
        /\ link' = paidOn[m]
        /\ retired' = retired \cup adopted
        /\ expireReq' = expireReq \cup adopted \cup
               (IF a \in Released THEN ExpireLinkOf(c, paidOn[m]) ELSE {})
        /\ told' = [told EXCEPT ![m] = @ \cup NoticesOf(st, c, a)]
        /\ handled' = IF st = "approved" THEN handled \cup {m} ELSE handled
        /\ settledBy' = IF charge \notin Accredited /\ c = "approved"
                        THEN m ELSE settledBy
        /\ RowWrittenIf(CanApply(charge, Resolve(st)) \/ ext' # ext)
        /\ UNCHANGED <<clock, provider, rule, issued, remoteVars>>

WebhookEvent(m, st) == ApplyEvent(m, st) /\ UNCHANGED jobVars

-----------------------------------------------------------------------------
(* The job that ends overdue holds.                                        *)

(* Mutant: the query leaves out an appointment that already started. *)
OverdueHoldNotStarted ==
    /\ appt = "pending_payment"
    /\ clock = "lapsed"
    /\ charge \in Live \cup {"none"}

(* _expired_holds_query *)
OverdueHold ==
    /\ appt = "pending_payment"
    /\ clock # "held"
    /\ charge \in Live \cup {"none"}

(* Phase A, no lock: _fetch_remote_payment prefers an approved payment of  *)
(* the current or of a retired link; a failed query brings nothing and the *)
(* hold still counts as consulted.                                         *)
JobConsult(m) ==
    /\ job = "idle"
    /\ OverdueHold
    /\ provider = "mercadopago"
    /\ m \in Pays \cup {None}
    /\ m # None =>
         /\ paidOn[m] \in retired \cup Real(link)
         /\ \/ remote[m] = "approved"
            \/ \A n \in Pays : paidOn[n] \in retired \cup Real(link)
                                  => remote[n] # "approved"
    /\ job' = "consulted"
    /\ jobPay' = m
    /\ jobSt' = IF m = None THEN "none" ELSE remote[m]
    /\ UNCHANGED <<appt, clock, rowVars, expireReq, issued, remoteVars,
                   noteVars, callVars>>

JobDone ==
    /\ job' = "idle"
    /\ jobPay' = None
    /\ jobSt' = "none"

(* Phase B, under the lock.  The hold was paid: the payment is applied,    *)
(* and the appointment is rescued.                                         *)
JobRescue ==
    /\ job = "consulted"
    /\ OverdueHold
    /\ jobPay # None
    /\ jobSt = "approved"
    /\ ApplyEvent(jobPay, "approved")
    /\ JobDone

(* Phase B: an approved payment that fails the validation is held for a    *)
(* person; a hold that somebody else settled or released is left alone.    *)
JobSkip ==
    /\ job = "consulted"
    /\ ~OverdueHold \/ (jobPay \in Suspect /\ jobSt = "approved")
    /\ JobDone
    /\ UNCHANGED <<appt, clock, rowVars, expireReq, issued, remoteVars,
                   noteVars, callVars>>

(* Phase B: nothing approved came, so the remote status (if any) is        *)
(* applied, which may note the payment's id and, for a rejection, publish  *)
(* the expiry of the link; then appointment and charge expire.  The job    *)
(* publishes no expiry itself: the link expired with the hold.             *)
JobExpire ==
    /\ job = "consulted"
    /\ OverdueHold
    /\ jobSt # "approved"
    /\ LET seen == jobPay # None /\ jobPay \notin Suspect /\ IsCurrent(jobPay)
       IN  /\ ext' = IF seen THEN StampExt(jobPay, jobSt) ELSE ext
           /\ expireReq' = expireReq \cup
                (IF seen /\ jobSt = "rejected" THEN Real(link) ELSE {})
    /\ appt' = "expired"
    /\ charge' = ExpireLive(charge)
    /\ RowWritten
    /\ JobDone
    /\ UNCHANGED <<clock, provider, rule, link, retired, issued, remoteVars,
                   noteVars>>

(* A WhatsApp deposit is never asked about: it expires in phase B. *)
JobExpireManual ==
    /\ OverdueHold
    /\ provider = "manual"
    /\ appt' = "expired"
    /\ charge' = ExpireLive(charge)
    /\ RowWritten
    /\ UNCHANGED <<clock, provider, rule, link, ext, retired, expireReq, issued,
                   remoteVars, noteVars, jobVars>>

-----------------------------------------------------------------------------
(* The world: time, and what clients, banks and Mercado Pago do to a       *)
(* payment.  A link stays payable for ever, which only adds behaviours:    *)
(* nobody knows when an expiry published in the outbox reaches it.         *)

Tick ==
    /\ clock # "started"
    /\ clock' = IF clock = "held" THEN "lapsed" ELSE "started"
    /\ UNCHANGED <<appt, rowVars, expireReq, issued, remoteVars, noteVars,
                   callVars, jobVars>>

(* A client pays a link that was handed out. *)
Pay(m, l, st) ==
    /\ remote[m] = "none"
    /\ l \in retired \cup Real(link)
    /\ st \in Statuses \cap {"in_process", "approved", "rejected"}
    /\ paidOn' = [paidOn EXCEPT ![m] = l]
    /\ remote' = [remote EXCEPT ![m] = st]
    /\ UNCHANGED <<appt, clock, rowVars, expireReq, issued, noteVars, callVars,
                   jobVars>>

RemoteGraph ==
    {<<"in_process", "approved">>, <<"in_process", "rejected">>,
     <<"approved", "in_mediation">>, <<"approved", "refunded">>,
     <<"approved", "charged_back">>, <<"in_mediation", "refunded">>,
     <<"in_mediation", "charged_back">>}

RemoteMove(m, st) ==
    /\ <<remote[m], st>> \in RemoteGraph
    /\ st \in Statuses
    /\ remote' = [remote EXCEPT ![m] = st]
    /\ UNCHANGED <<appt, clock, rowVars, expireReq, issued, paidOn, noteVars,
                   callVars, jobVars>>

-----------------------------------------------------------------------------
BookingStep ==
    \/ \E k \in BookingKinds : BookWithDeposit(k) \/ BookWithoutDeposit(k)
    \/ \E l \in Links : BookingSeal(l) \/ BookingStale(l)
    \/ \E l \in Links \cup {None} : BookingFail(l)
    \/ BookingCrash

PanelLinkStep(p) ==
    \/ PanelLinkInsert(p)
    \/ \E repriced \in BOOLEAN : PanelLinkAsk(p, repriced)
    \/ \E l \in Links : PanelLinkSeal(p, l) \/ PanelLinkDrop(p, l)
    \/ \E l \in Links \cup {None} : PanelLinkFail(p, l)
    \/ PanelLinkCrash(p)

AgendaStep ==
    \/ Cancel \/ Reschedule \/ CancelForBlock
    \/ CancelByClient \/ RescheduleByClient
    \/ ReleasePending \/ Confirm
    \/ \E status \in {"completed", "absent"} : Close(status)

HandStep ==
    \/ ManualInsert
    \/ \E repriced \in BOOLEAN : ManualConfirm(repriced)
    \/ Refund

EventStep(m) ==
    \/ ReplacedPayment(m)
    \/ \E st \in Statuses : ReversalOfOther(m, st) \/ WebhookEvent(m, st)

JobStep ==
    \/ \E m \in Pays \cup {None} : JobConsult(m)
    \/ JobRescue \/ JobSkip \/ JobExpire \/ JobExpireManual

WorldStep ==
    \/ Tick
    \/ \E m \in Pays :
         \/ \E l \in Links, st \in Statuses : Pay(m, l, st)
         \/ \E st \in Statuses : RemoteMove(m, st)

Next ==
    \/ BookingStep
    \/ \E p \in Panels : PanelLinkStep(p)
    \/ AgendaStep
    \/ HandStep
    \/ \E m \in Pays : EventStep(m)
    \/ JobStep
    \/ WorldStep

Spec == Init /\ [][Next]_vars

(* Celery beat runs the job for ever, so every phase of it that can run    *)
(* eventually does.                                                        *)
JobFairness == WF_vars(JobStep)
FairSpec == Spec /\ JobFairness

-----------------------------------------------------------------------------
(* A released appointment has no charge that is still collectible          *)
(* (payments/service.py, RELEASED_APPOINTMENT_STATUSES): whoever released  *)
(* it, and whatever event, manual registration or link request raced it.   *)
NoLiveChargeOnReleased == appt \in Released => charge \notin Live

(* A held appointment always has a pending charge: the job's query takes   *)
(* only live charges, so a hold with any other would never end.            *)
HoldIsCollectible == appt = "pending_payment" => charge = "pending"

(* Every link the charge stopped using was sent to expire, so at most one  *)
(* link of a charge is meant to be payable.                                *)
ReplacedLinksExpire == retired \ Real(link) \subseteq expireReq

(* A charge that expired or was collected by hand leaves no link payable:  *)
(* it was sent to expire, or it expired with the hold.                     *)
ClosedChargeLinkExpires ==
    charge \in {"expired", "manual_confirmed"} /\ link # None
        => link \in expireReq \/ clock # "held"

(* The owner is told "your money was reversed" only about the payment that *)
(* settled the charge: the refund of a duplicate never takes the deposit   *)
(* the store kept (_es_de_otro_pago).                                      *)
OnlySettlerReverses ==
    \A m \in Pays : "reversed" \in told[m] => settledBy = m

(* While the charge is approved, the owner is never asked to give back the *)
(* payment that settled it.                                                *)
KeptMoneyNotFlagged ==
    charge = "approved" => "replaced" \notin told[settledBy]

(* An approved payment that was processed left a notice.                   *)
MoneyIsTold ==
    \A m \in handled : told[m] \cap {"credited", "late", "replaced"} # {}

(* ... and as long as the charge is there and not refunded, none is        *)
(* silent.                                                                 *)
MoneyIsToldWhileOpen == charge \notin {"refunded", "none"} => MoneyIsTold

(* The central invariant of the payment graph (payments/model.py): settled *)
(* money never goes back to an unsettled status.                           *)
SettledNeverLost ==
    [][(charge \in Settled) => (charge' \in Settled)]_vars

(* The owner is never asked to give back a payment that was the one that   *)
(* settled the charge, even when its event is delivered again              *)
(* (_es_de_otro_pago).                                                     *)
SettlerNeverDuplicate ==
    \A m \in Pays : "replaced" \in told[m] => settledBy # m

(* Every preference Mercado Pago created is the charge's link, was one, or *)
(* was sent to expire.  The panel keeps it (_panel_link_phase_two); a      *)
(* booking whose charge changed meanwhile does not: BookingStale.          *)
UnsealedLinksExpire ==
    issued \subseteq Real(link) \cup retired \cup expireReq

(* The promise of the two state graphs and of their coupling is kept by    *)
(* every interleaving of the operations above.                             *)
Promise == INSTANCE Lifecycle WITH appt <- appt, charge <- charge
ImplementsLifecycle == Promise!LifeSpec

(* An overdue hold ends: it is paid, expired or released, unless an        *)
(* approved payment that fails the validation holds it for a person        *)
(* (_rescatar_o_retener).                                                  *)
OverdueHoldEnds ==
    (appt = "pending_payment" /\ clock # "held")
        ~> (appt # "pending_payment" \/ \E m \in Suspect : remote[m] = "approved")
=============================================================================
