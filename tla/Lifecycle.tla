----------------------------- MODULE Lifecycle ------------------------------
(***************************************************************************)
(* What an appointment and its charge promise to everybody who reads them, *)
(* whoever writes them and in whatever order: each follows its own graph   *)
(* (ALLOWED_STATUS_TRANSITIONS, ALLOWED_PAYMENT_TRANSITIONS and the        *)
(* panel's reopening), and the step that releases the appointment is the   *)
(* step that closes its live charge.  Rows disappear only when a request   *)
(* to Mercado Pago fails and what it had written is compensated.           *)
(***************************************************************************)
VARIABLES appt, charge

lifeVars == <<appt, charge>>

AppointmentGraph ==
    {<<"pending", "confirmed">>, <<"pending", "cancelled">>,
     <<"pending", "pending_payment">>, <<"pending", "expired">>,
     <<"pending_payment", "confirmed">>, <<"pending_payment", "cancelled">>,
     <<"pending_payment", "expired">>,
     <<"confirmed", "completed">>, <<"confirmed", "cancelled">>,
     <<"confirmed", "absent">>}

ChargeGraph ==
    {<<"none", "pending">>, <<"none", "manual_confirmed">>,
     <<"pending", "approved">>, <<"pending", "rejected">>,
     <<"pending", "expired">>, <<"pending", "manual_confirmed">>,
     <<"rejected", "approved">>, <<"rejected", "manual_confirmed">>,
     <<"rejected", "expired">>,
     <<"expired", "approved">>, <<"expired", "manual_confirmed">>,
     <<"approved", "refunded">>, <<"manual_confirmed", "refunded">>}

LifeInit == appt = "none" /\ charge = "none"

(* A booking: held with a pending deposit, or without a charge. *)
Book ==
    /\ appt = "none"
    /\ \/ appt' = "pending_payment" /\ charge' = "pending"
       \/ appt' \in {"pending", "confirmed"} /\ charge' = charge

(* The appointment moves, the charge moves, or both do, along their        *)
(* graphs, and no live charge is left behind a released appointment.       *)
Move ==
    /\ appt' = appt \/ <<appt, appt'>> \in AppointmentGraph
    /\ charge' = charge \/ <<charge, charge'>> \in ChargeGraph
    /\ charge # "none" \/ appt \notin {"none", "deleted", "cancelled", "expired"}
    /\ appt' \in {"cancelled", "expired"} => charge' \notin {"pending", "rejected"}

(* reopen_for_panel_link: only behind an appointment that is not released. *)
Reopen ==
    /\ charge = "expired" /\ charge' = "pending"
    /\ appt \notin {"none", "deleted", "cancelled", "expired"}
    /\ appt' = appt

(* Compensations: revert_failed_booking deletes both rows,                 *)
(* _discard_orphan_payment only the charge.                                *)
Discard ==
    /\ charge # "none"
    /\ charge' = "none"
    /\ appt' \in {appt, "deleted"}

LifeNext == Book \/ Move \/ Reopen \/ Discard

LifeSpec == LifeInit /\ [][LifeNext]_lifeVars
=============================================================================
