---------------------------- MODULE ChargeProofs -----------------------------
(* Charge for any number of links, payments and panel requests. First the     *)
(* agenda: the types, the coupling between a released or held appointment and *)
(* its charge, and the implementation of Lifecycle. Then the money: which links *)
(* are still payable, which payment a charge belongs to, what the owner is told. *)
EXTENDS Charge, TLAPS

(* Before the booking there is nothing, and nobody waits.                  *)
NothingBeforeBooking ==
    appt = "none" => /\ charge = "none"
                     /\ booking = "idle"
                     /\ \A p \in Panels : op[p] = "idle"

(* The charge of a hold carries the deposit's rule, as does the one a      *)
(* booking request waits for; a charge the panel inserted does not.  So a  *)
(* panel request that fails deletes a charge of its own, never the         *)
(* deposit of a hold.                                                      *)
DepositHasRule ==
    /\ appt = "pending_payment" => rule = "deposit"
    /\ booking # "idle" => rule = "deposit" /\ charge # "none"
    /\ \A p \in Panels : op[p] # "idle" /\ born[p] = "own" => rule = "free"

AgendaInv ==
    /\ TypeOK
    /\ NothingBeforeBooking
    /\ DepositHasRule
    /\ NoLiveChargeOnReleased
    /\ HoldIsCollectible

-----------------------------------------------------------------------------
(* What an event leaves behind, given that no live charge is behind a      *)
(* released appointment and that a held one has a pending charge: the      *)
(* status pair the new charge and appointment form.                        *)
LEMMA EventOutcome ==
    ASSUME AgendaInv, NEW m \in Pays, NEW st \in RemoteStatuses,
           ApplyEvent(m, st)
    PROVE  /\ charge # "none"
           /\ charge' \in ChargeStates \ {"none"}
           /\ charge' # charge => <<charge, charge'>> \in PaymentGraph
           /\ appt' # appt => /\ appt \in {"pending", "pending_payment"}
                              /\ appt' \in {"confirmed", "cancelled", "expired"}
                              /\ appt = "pending" => appt' = "confirmed"
           /\ appt' = "pending_payment" => charge' = "pending"
           /\ appt' \in Released => charge' \notin Live
<1> USE DEF AgendaInv, TypeOK, NoLiveChargeOnReleased, HoldIsCollectible,
        ApptStates, ChargeStates, RemoteStatuses, Released, Accredited, Live,
        Settled
<1> DEFINE r == Resolve(st)
           c == ApplyStatus(charge, r)
           a == SyncFromEvent(st, c)
<1>1. charge # "none" /\ charge \in ChargeStates
  BY DEF ApplyEvent, Applicable, Delivered
<1>2. r \in {"pending", "rejected", "approved", "refunded"}
      /\ (r = "approved" <=> st = "approved")
  BY DEF Resolve
<1>3. /\ c \in ChargeStates \ {"none"}
      /\ c # charge => <<charge, c>> \in PaymentGraph
      /\ c = charge \/ c = r
  BY <1>1, <1>2 DEF ApplyStatus, CanApply, PaymentGraph
<1>4. /\ st = "approved" /\ appt = "pending_payment" => c = "approved"
      /\ charge = "pending" => c \in {"pending", "approved", "rejected"}
  BY <1>1, <1>2 DEF ApplyStatus, CanApply, PaymentGraph
<1>5. /\ appt' = a
      /\ charge' = IF a \in Released THEN ExpireLive(c) ELSE c
  BY DEF ApplyEvent
<1> HIDE DEF r, c
<1>6. /\ a # appt => /\ appt \in {"pending", "pending_payment"}
                     /\ a \in {"confirmed", "cancelled", "expired"}
                     /\ appt = "pending" => a = "confirmed"
      /\ a = "pending_payment" => c = "pending"
  BY <1>3, <1>4 DEF SyncFromEvent, SyncAppt
<1> HIDE DEF a
<1>7. a \in Released => charge' \notin Live /\ charge' \in {c, "expired"}
  BY <1>5 DEF ExpireLive
<1>8. charge' # charge => <<charge, charge'>> \in PaymentGraph
  <2>1. CASE a \in Released /\ c \in Live
    <3>1. charge' = "expired"
      BY <2>1, <1>5 DEF ExpireLive
    <3>2. charge \in {"pending", "rejected"}
      BY <2>1, <1>3, <1>1 DEF PaymentGraph
    <3>3. QED
      BY <3>1, <3>2 DEF PaymentGraph
  <2>2. CASE ~(a \in Released /\ c \in Live)
    BY <2>2, <1>3, <1>5 DEF ExpireLive
  <2>3. QED
    BY <2>1, <2>2
<1>9. charge' \in ChargeStates \ {"none"}
  BY <1>3, <1>5 DEF ExpireLive
<1>10. QED
  BY <1>1, <1>3, <1>5, <1>6, <1>7, <1>8, <1>9

-----------------------------------------------------------------------------
(* The empty agenda satisfies the invariant.                               *)
LEMMA InitAgendaInv == Init => AgendaInv
  BY ConstantsAssumption
  DEF Init, AgendaInv, TypeOK, NothingBeforeBooking, DepositHasRule,
      NoLiveChargeOnReleased, HoldIsCollectible, ApptStates, ChargeStates,
      RemoteStatuses, CallStates, Notices, Released, Live

(* Writing the row leaves every waiting caller waiting, no longer fresh.   *)
LEMMA RowWrittenType ==
    ASSUME TypeOK, RowWritten
    PROVE  /\ booking' \in CallStates
           /\ op' \in [Panels -> CallStates]
           /\ born' = born
           /\ booking' = "idle" <=> booking = "idle"
           /\ \A p \in Panels : op'[p] = "idle" <=> op[p] = "idle"
  BY DEF TypeOK, RowWritten, Stale, CallStates

(* Releasing the appointment, whoever does it, closes its live charge.     *)
LEMMA DropAgendaInv ==
    ASSUME AgendaInv, NEW status \in Released, appt \in Active, Drop(status)
    PROVE  AgendaInv'
<1> USE DEF AgendaInv, NothingBeforeBooking, DepositHasRule,
        NoLiveChargeOnReleased, HoldIsCollectible, Released, Active, Live
<1>1. /\ booking' \in CallStates
      /\ op' \in [Panels -> CallStates]
      /\ born' = born
      /\ booking' = "idle" <=> booking = "idle"
      /\ \A p \in Panels : op'[p] = "idle" <=> op[p] = "idle"
  BY RowWrittenType DEF Drop, RowWrittenIf, callVars, TypeOK
<1>2. /\ appt' = status
      /\ charge' = ExpireLive(charge)
      /\ expireReq' \subseteq Links
      /\ UNCHANGED <<clock, provider, rule, link, ext, retired, issued,
                     remoteVars, noteVars, jobVars>>
  BY DEF Drop, ExpireLinkOf, Real, TypeOK
<1>3. TypeOK'
  BY <1>1, <1>2 DEF TypeOK, ExpireLive, ApptStates, ChargeStates, remoteVars,
     noteVars, jobVars
<1>4. QED
  BY <1>1, <1>2, <1>3 DEF ExpireLive

(* Every operation, event and job phase preserves the invariant.           *)
LEMMA NextAgendaInv == AgendaInv /\ [Next]_vars => AgendaInv'
<1> SUFFICES ASSUME AgendaInv, [Next]_vars PROVE AgendaInv'
  OBVIOUS
<1> USE ConstantsAssumption
    DEF AgendaInv, TypeOK, NothingBeforeBooking, DepositHasRule,
        NoLiveChargeOnReleased, HoldIsCollectible, ApptStates, ChargeStates,
        RemoteStatuses, CallStates, Notices, Released, Live, Accredited,
        rowVars, remoteVars, callVars, jobVars, noteVars
<1>1. ASSUME NEW k \in BookingKinds, BookWithDeposit(k) PROVE AgendaInv'
  BY <1>1 DEF BookWithDeposit
<1>2. ASSUME NEW k \in BookingKinds, BookWithoutDeposit(k) PROVE AgendaInv'
  BY <1>2 DEF BookWithoutDeposit
<1>3. ASSUME NEW l \in Links, BookingSeal(l) PROVE AgendaInv'
  BY <1>3 DEF BookingSeal, Stale
<1>4. ASSUME NEW l \in Links, BookingStale(l) PROVE AgendaInv'
  BY <1>4 DEF BookingStale
<1>5. ASSUME NEW l \in Links \cup {None}, BookingFail(l) PROVE AgendaInv'
  BY <1>5 DEF BookingFail, RevertFailedBooking, Real, Stale
<1>6. CASE BookingCrash
  BY <1>6 DEF BookingCrash
<1>7. ASSUME NEW p \in Panels, PanelLinkInsert(p) PROVE AgendaInv'
  BY <1>7 DEF PanelLinkInsert, Payable
<1>8. ASSUME NEW p \in Panels, NEW repriced \in BOOLEAN,
             PanelLinkAsk(p, repriced)
      PROVE AgendaInv'
  <2>1. /\ booking' \in CallStates
        /\ booking' = "idle" <=> booking = "idle"
        /\ op' \in [Panels -> CallStates]
        /\ \A q \in Panels \ {p} : op'[q] = "idle" <=> op[q] = "idle"
    BY <1>8 DEF PanelLinkAsk, Stale
  <2>2. /\ retired' \subseteq Links
        /\ expireReq' \subseteq Links
        /\ link' \in Links \cup {None}
        /\ ext' \in Pays \cup {None}
    BY <1>8 DEF PanelLinkAsk, RetireLink, Real
  <2>3. /\ born' = [born EXCEPT ![p] = "found"]
        /\ appt # "none"
        /\ UNCHANGED <<appt, clock, charge, provider, rule, issued, remoteVars,
                       noteVars, jobVars>>
    BY <1>8 DEF PanelLinkAsk, Payable
  <2>4. QED
    BY <2>1, <2>2, <2>3
<1>9. ASSUME NEW p \in Panels, NEW l \in Links, PanelLinkSeal(p, l)
      PROVE AgendaInv'
  BY <1>9 DEF PanelLinkSeal, Stale, Payable
<1>10. ASSUME NEW p \in Panels, NEW l \in Links, PanelLinkDrop(p, l)
       PROVE AgendaInv'
  BY <1>10 DEF PanelLinkDrop
<1>11. ASSUME NEW p \in Panels, NEW l \in Links \cup {None}, PanelLinkFail(p, l)
       PROVE AgendaInv'
  <2>1. /\ booking' \in CallStates
        /\ booking' = "idle" <=> booking = "idle"
        /\ op' \in [Panels -> CallStates]
        /\ op'[p] = "idle"
        /\ \A q \in Panels \ {p} : op'[q] = "idle" <=> op[q] = "idle"
    BY <1>11 DEF PanelLinkFail, Stale
  <2>2. /\ issued' \subseteq Links
        /\ expireReq' \subseteq Links
        /\ ext' \in Pays \cup {None}
        /\ UNCHANGED <<appt, clock, provider, rule, link, retired, remoteVars,
                       noteVars, born, jobVars>>
    BY <1>11 DEF PanelLinkFail, Real
  <2>3. charge' = charge \/ (charge' = "none" /\ rule = "free")
    BY <1>11 DEF PanelLinkFail
  <2>4. QED
    BY <1>11, <2>1, <2>2, <2>3 DEF PanelLinkFail
<1>12. ASSUME NEW p \in Panels, PanelLinkCrash(p) PROVE AgendaInv'
  BY <1>12 DEF PanelLinkCrash
<1>13. CASE Cancel \/ Reschedule \/ CancelForBlock \/ CancelByClient
            \/ RescheduleByClient \/ ReleasePending
  BY <1>13, DropAgendaInv
  DEF Cancel, Reschedule, CancelForBlock, CancelByClient, RescheduleByClient,
      ReleasePending, ClientMayDrop, Active
<1>14. CASE Confirm
  BY <1>14 DEF Confirm
<1>15. ASSUME NEW status \in {"completed", "absent"}, Close(status)
       PROVE AgendaInv'
  BY <1>15 DEF Close
<1>16. CASE ManualInsert
  BY <1>16 DEF ManualInsert, Payable, SyncAppt
<1>17. ASSUME NEW repriced \in BOOLEAN, ManualConfirm(repriced)
       PROVE AgendaInv'
  <2>1. RowWritten
    BY <1>17 DEF ManualConfirm
  <2>2. /\ charge' \in {"manual_confirmed", "refunded"}
        /\ charge # "none"
        /\ appt' = SyncAppt(appt, charge')
        /\ Payable
    BY <1>17 DEF ManualConfirm, ApplyStatus, CanApply, PaymentGraph
  <2>3. /\ expireReq' \subseteq Links
        /\ retired' \subseteq Links
        /\ link' \in Links \cup {None}
        /\ ext' \in Pays \cup {None}
        /\ UNCHANGED <<clock, provider, rule, issued, remoteVars, noteVars,
                       jobVars>>
    BY <1>17 DEF ManualConfirm, RetireLink, Real
  <2>4. /\ appt' \in ApptStates
        /\ appt' \notin {"none", "pending_payment"}
        /\ appt' \in Released => charge' \notin Live
    BY <2>2 DEF Payable, SyncAppt, ApplyStatus, CanApply, PaymentGraph
  <2>5. QED
    BY <2>1, <2>2, <2>3, <2>4, RowWrittenType
<1>18. CASE Refund
  <2>1. /\ appt' \in ApptStates \ {"none", "pending_payment"}
        /\ charge' = "refunded"
    BY <1>18 DEF Refund, SyncAppt
  <2>2. QED
    BY <1>18, <2>1, RowWrittenType DEF Refund
<1>19. ASSUME NEW m \in Pays, ReplacedPayment(m) PROVE AgendaInv'
  BY <1>19 DEF ReplacedPayment
<1>20. ASSUME NEW m \in Pays, NEW st \in Statuses, ReversalOfOther(m, st)
       PROVE AgendaInv'
  BY <1>20 DEF ReversalOfOther
<1>21. ASSUME NEW m \in Pays, NEW st \in RemoteStatuses, ApplyEvent(m, st),
              job' \in {"idle", "consulted"}, jobPay' \in Pays \cup {None},
              jobSt' \in RemoteStatuses \cup {"none"}
       PROVE AgendaInv'
  <2>1. /\ charge # "none"
        /\ charge' \in ChargeStates \ {"none"}
        /\ appt' # appt => /\ appt \in {"pending", "pending_payment"}
                           /\ appt' \in {"confirmed", "cancelled", "expired"}
        /\ appt' = "pending_payment" => charge' = "pending"
        /\ appt' \in Released => charge' \notin Live
    BY <1>21, EventOutcome
  <2>2. /\ booking' \in CallStates
        /\ op' \in [Panels -> CallStates]
        /\ born' = born
        /\ booking' = "idle" <=> booking = "idle"
        /\ \A p \in Panels : op'[p] = "idle" <=> op[p] = "idle"
    BY <1>21, RowWrittenType DEF ApplyEvent, RowWrittenIf
  <2>3. /\ link' \in Links \cup {None}
        /\ ext' \in Pays \cup {None}
        /\ retired' \subseteq Links
        /\ expireReq' \subseteq Links
    BY <1>21 DEF ApplyEvent, StampExt, Real, ExpireLinkOf
  <2>4. told' \in [Pays -> SUBSET Notices]
    BY <1>21 DEF ApplyEvent, NoticesOf
  <2>5. /\ handled' \subseteq Pays
        /\ settledBy' \in Pays \cup {None}
        /\ UNCHANGED <<clock, provider, rule, issued, remoteVars>>
    BY <1>21 DEF ApplyEvent
  <2>6. QED
    BY <1>21, <2>1, <2>2, <2>3, <2>4, <2>5
<1>22. ASSUME NEW m \in Pays, NEW st \in Statuses, WebhookEvent(m, st)
       PROVE AgendaInv'
  BY <1>22, <1>21 DEF WebhookEvent
<1>23. ASSUME NEW m \in Pays \cup {None}, JobConsult(m) PROVE AgendaInv'
  BY <1>23 DEF JobConsult
<1>24. CASE JobRescue
  BY <1>24, <1>21 DEF JobRescue, JobDone
<1>25. CASE JobSkip
  BY <1>25 DEF JobSkip, JobDone
<1>26. CASE JobExpire
  <2>1. /\ ext' \in Pays \cup {None}
        /\ expireReq' \subseteq Links
    BY <1>26 DEF JobExpire, StampExt, Real
  <2>2. QED
    BY <1>26, <2>1, RowWrittenType DEF JobExpire, JobDone, OverdueHold, ExpireLive
<1>27. CASE JobExpireManual
  BY <1>27, RowWrittenType DEF JobExpireManual, OverdueHold, ExpireLive
<1>28. CASE Tick
  BY <1>28 DEF Tick
<1>29. ASSUME NEW m \in Pays, NEW l \in Links, NEW st \in Statuses, Pay(m, l, st)
       PROVE AgendaInv'
  BY <1>29 DEF Pay
<1>30. ASSUME NEW m \in Pays, NEW st \in Statuses, RemoteMove(m, st)
       PROVE AgendaInv'
  BY <1>30 DEF RemoteMove
<1>31. CASE UNCHANGED vars
  BY <1>31 DEF vars
<1>32. QED
  BY <1>1, <1>2, <1>3, <1>4, <1>5, <1>6, <1>7, <1>8, <1>9, <1>10, <1>11, <1>12,
     <1>13, <1>14, <1>15, <1>16, <1>17, <1>18, <1>19, <1>20, <1>22, <1>23,
     <1>24, <1>25, <1>26, <1>27, <1>28, <1>29, <1>30, <1>31
  DEF Next, BookingStep, PanelLinkStep, AgendaStep, HandStep, EventStep,
      JobStep, WorldStep

(* The types of every state are right, whatever the numbers of links,      *)
(* payments and panel requests.                                            *)
THEOREM ChargeTypeOK == Spec => []TypeOK
<1>1. AgendaInv => TypeOK
  BY DEF AgendaInv
<1>2. QED
  BY <1>1, InitAgendaInv, NextAgendaInv, PTL DEF Spec

(* A released appointment never has a collectible charge behind it, and a  *)
(* held one always has a pending charge for the job to find: no            *)
(* interleaving of bookings, panel requests, cancellations, events and job *)
(* phases breaks the coupling.                                             *)
THEOREM AgendaSafe == Spec => [](NoLiveChargeOnReleased /\ HoldIsCollectible)
<1>1. AgendaInv => NoLiveChargeOnReleased /\ HoldIsCollectible
  BY DEF AgendaInv
<1>2. QED
  BY <1>1, InitAgendaInv, NextAgendaInv, PTL DEF Spec

-----------------------------------------------------------------------------
(* A step that releases an active appointment is a move of both graphs.    *)
LEMMA DropIsMove ==
    ASSUME AgendaInv, NEW status \in Released, appt \in Active,
           appt = "confirmed" => status = "cancelled", Drop(status)
    PROVE  Promise!LifeNext
  BY DEF AgendaInv, TypeOK, Drop, ExpireLive, Released, Active, Live,
     ChargeStates, Promise!LifeNext, Promise!Move, Promise!AppointmentGraph,
     Promise!ChargeGraph

(* Every step of the detailed specification is a step of Lifecycle or      *)
(* leaves the appointment and the charge as they are.                      *)
LEMMA NextIsLifeNext ==
    AgendaInv /\ [Next]_vars => [Promise!LifeNext]_(Promise!lifeVars)
<1> DEFINE Goal == Promise!LifeNext \/ UNCHANGED <<appt, charge>>
<1> SUFFICES ASSUME AgendaInv, [Next]_vars PROVE Goal
  BY DEF Promise!lifeVars
<1> USE DEF AgendaInv, TypeOK, NothingBeforeBooking, DepositHasRule,
        NoLiveChargeOnReleased, HoldIsCollectible, ApptStates, ChargeStates,
        Released, Live, Accredited, Payable, rowVars,
        Promise!LifeNext, Promise!AppointmentGraph, Promise!ChargeGraph
<1>1. ASSUME NEW k \in BookingKinds,
             BookWithDeposit(k) \/ BookWithoutDeposit(k)
      PROVE Goal
  BY <1>1 DEF BookWithDeposit, BookWithoutDeposit, Promise!Book
<1>2. ASSUME NEW l \in Links, BookingSeal(l) \/ BookingStale(l) PROVE Goal
  BY <1>2 DEF BookingSeal, BookingStale
<1>3. ASSUME NEW l \in Links \cup {None}, BookingFail(l) PROVE Goal
  BY <1>3 DEF BookingFail, RevertFailedBooking, Promise!Discard
<1>4. CASE BookingCrash
  BY <1>4 DEF BookingCrash
<1>5. ASSUME NEW p \in Panels, PanelLinkInsert(p) PROVE Goal
  BY <1>5 DEF PanelLinkInsert, Promise!Move
<1>6. ASSUME NEW p \in Panels, NEW repriced \in BOOLEAN,
             PanelLinkAsk(p, repriced)
      PROVE Goal
  BY <1>6 DEF PanelLinkAsk
<1>7. ASSUME NEW p \in Panels, NEW l \in Links, PanelLinkSeal(p, l) PROVE Goal
  BY <1>7 DEF PanelLinkSeal, Promise!Reopen
<1>8. ASSUME NEW p \in Panels, NEW l \in Links, PanelLinkDrop(p, l) PROVE Goal
  BY <1>8 DEF PanelLinkDrop
<1>9. ASSUME NEW p \in Panels, NEW l \in Links \cup {None}, PanelLinkFail(p, l)
      PROVE Goal
  BY <1>9 DEF PanelLinkFail, Promise!Discard
<1>10. ASSUME NEW p \in Panels, PanelLinkCrash(p) PROVE Goal
  BY <1>10 DEF PanelLinkCrash
<1>11. CASE Cancel \/ Reschedule \/ CancelForBlock \/ CancelByClient
            \/ RescheduleByClient \/ ReleasePending
  BY <1>11, DropIsMove
  DEF Cancel, Reschedule, CancelForBlock, CancelByClient, RescheduleByClient,
      ReleasePending, ClientMayDrop, Active
<1>12. CASE Confirm
  BY <1>12 DEF Confirm, Promise!Move
<1>13. ASSUME NEW status \in {"completed", "absent"}, Close(status) PROVE Goal
  BY <1>13 DEF Close, Promise!Move
<1>14. CASE ManualInsert
  BY <1>14 DEF ManualInsert, SyncAppt, Promise!Move
<1>15. ASSUME NEW repriced \in BOOLEAN, ManualConfirm(repriced) PROVE Goal
  BY <1>15 DEF ManualConfirm, ApplyStatus, CanApply, PaymentGraph, SyncAppt,
     Promise!Move
<1>16. CASE Refund
  BY <1>16 DEF Refund, SyncAppt, Promise!Move
<1>17. ASSUME NEW m \in Pays, ReplacedPayment(m) PROVE Goal
  BY <1>17 DEF ReplacedPayment
<1>18. ASSUME NEW m \in Pays, NEW st \in Statuses, ReversalOfOther(m, st)
       PROVE Goal
  BY <1>18 DEF ReversalOfOther
<1>19. ASSUME NEW m \in Pays, NEW st \in RemoteStatuses, ApplyEvent(m, st)
       PROVE Goal
  BY <1>19, EventOutcome DEF PaymentGraph, Promise!Move
<1>20. ASSUME NEW m \in Pays, NEW st \in Statuses, WebhookEvent(m, st)
       PROVE Goal
  BY <1>20, <1>19, ConstantsAssumption DEF WebhookEvent
<1>21. ASSUME NEW m \in Pays \cup {None}, JobConsult(m) PROVE Goal
  BY <1>21 DEF JobConsult
<1>22. CASE JobRescue
  BY <1>22, <1>19 DEF JobRescue, RemoteStatuses
<1>23. CASE JobSkip
  BY <1>23 DEF JobSkip
<1>24. CASE JobExpire
  BY <1>24 DEF JobExpire, OverdueHold, ExpireLive, Promise!Move
<1>25. CASE JobExpireManual
  BY <1>25 DEF JobExpireManual, OverdueHold, ExpireLive, Promise!Move
<1>26. CASE Tick
  BY <1>26 DEF Tick
<1>27. ASSUME NEW m \in Pays, NEW l \in Links, NEW st \in Statuses, Pay(m, l, st)
       PROVE Goal
  BY <1>27 DEF Pay
<1>28. ASSUME NEW m \in Pays, NEW st \in Statuses, RemoteMove(m, st) PROVE Goal
  BY <1>28 DEF RemoteMove
<1>29. CASE UNCHANGED vars
  BY <1>29 DEF vars
<1> HIDE DEF Goal
<1>30. QED
  BY <1>1, <1>2, <1>3, <1>4, <1>5, <1>6, <1>7, <1>8, <1>9, <1>10, <1>11, <1>12,
     <1>13, <1>14, <1>15, <1>16, <1>17, <1>18, <1>20, <1>21, <1>22, <1>23,
     <1>24, <1>25, <1>26, <1>27, <1>28, <1>29
  DEF Next, BookingStep, PanelLinkStep, AgendaStep, HandStep, EventStep,
      JobStep, WorldStep

(* Booking, panel, client, events and job together implement Lifecycle:    *)
(* both state machines are respected and no step separates the release of  *)
(* an appointment from the closing of its charge.                          *)
THEOREM ChargeImplementsLifecycle == Spec => ImplementsLifecycle
<1>1. Init => Promise!LifeInit
  BY DEF Init, Promise!LifeInit
<1>2. QED
  BY <1>1, InitAgendaInv, NextAgendaInv, NextIsLifeNext, PTL
  DEF Spec, ImplementsLifecycle, Promise!LifeSpec

------------------------------------------------------------------------------
(* The money: links, settlers, and what the owner is told.                    *)

(* Whoever waits for a link with the version he read is about to replace a *)
(* placeholder, on a charge that is not accredited; a booking request, on  *)
(* the pending charge it wrote.                                            *)
FreshHasPlaceholder ==
    /\ booking = "fresh" => link = None /\ charge = "pending"
    /\ \A p \in Panels :
         op[p] = "fresh" => link = None /\ charge \notin Accredited \cup {"none"}

(* A charge that does not exist has no link and no history, and the        *)
(* appointment that was reverted has no charge.                            *)
NoRowNoLinks ==
    /\ charge = "none" => link = None
    /\ charge = "none" /\ appt # "deleted" => retired = {}
    /\ appt = "deleted" => charge = "none"

(* A payment was made on a link the charge has or had.                     *)
PaidLinksKnown ==
    \A m \in Pays : remote[m] # "none" =>
        /\ paidOn[m] # None
        /\ paidOn[m] \in retired \cup Real(link) \/ appt = "deleted"

(* The charge an event approved is the one of its payment, on its link,    *)
(* and the owner heard of the payment, never as a duplicate.               *)
ApprovedIsSettlers ==
    charge = "approved" =>
        /\ settledBy \in Pays
        /\ ext = settledBy
        /\ paidOn[settledBy] = link
        /\ remote[settledBy] # "none"
        /\ "replaced" \notin told[settledBy]
        /\ told[settledBy] \cap {"credited", "late"} # {}

(* What the owner was told holds the charge where it is.                   *)
NoticesBind ==
    \A m \in Pays :
        /\ "replaced" \in told[m] =>
             /\ remote[m] # "none"
             /\ charge \in Settled \/ appt = "deleted"
        /\ "reversed" \in told[m] =>
             /\ remote[m] # "none"
             /\ settledBy = m
             /\ charge = "refunded" \/ appt = "deleted"
        /\ m \in handled => remote[m] # "none"

MoneyInv ==
    /\ FreshHasPlaceholder
    /\ NoRowNoLinks
    /\ PaidLinksKnown
    /\ ApprovedIsSettlers
    /\ NoticesBind
    /\ ReplacedLinksExpire
    /\ ClosedChargeLinkExpires
    /\ MoneyIsToldWhileOpen

-----------------------------------------------------------------------------
(* With no charge there is no link, no wait and no notice.                 *)
LEMMA InitMoneyInv == Init => MoneyInv
  BY ConstantsAssumption
  DEF Init, MoneyInv, FreshHasPlaceholder, NoRowNoLinks, PaidLinksKnown,
      ApprovedIsSettlers, NoticesBind, ReplacedLinksExpire,
      ClosedChargeLinkExpires, MoneyIsToldWhileOpen, MoneyIsTold

(* Every operation, event and job phase preserves the invariant.           *)
LEMMA NextMoneyInv == AgendaInv /\ MoneyInv /\ [Next]_vars => MoneyInv'
<1> SUFFICES ASSUME AgendaInv, MoneyInv, [Next]_vars PROVE MoneyInv'
  OBVIOUS
<1> USE ConstantsAssumption
    DEF AgendaInv, TypeOK, NothingBeforeBooking, DepositHasRule,
        NoLiveChargeOnReleased, HoldIsCollectible,
        MoneyInv, FreshHasPlaceholder, NoRowNoLinks, PaidLinksKnown,
        ApprovedIsSettlers, NoticesBind, ReplacedLinksExpire,
        ClosedChargeLinkExpires, MoneyIsToldWhileOpen, MoneyIsTold,
        ChargeStates, CallStates, Released, Live, Accredited, Settled, Real,
        rowVars, remoteVars, callVars, jobVars, noteVars
<1>1. ASSUME NEW k \in BookingKinds, BookWithDeposit(k) PROVE MoneyInv'
  BY <1>1 DEF BookWithDeposit
<1>2. ASSUME NEW k \in BookingKinds, BookWithoutDeposit(k) PROVE MoneyInv'
  BY <1>2 DEF BookWithoutDeposit
<1>3. ASSUME NEW l \in Links, BookingSeal(l) PROVE MoneyInv'
  BY <1>3 DEF BookingSeal, Stale
<1>4. ASSUME NEW l \in Links, BookingStale(l) PROVE MoneyInv'
  BY <1>4 DEF BookingStale
<1>5. ASSUME NEW l \in Links \cup {None}, BookingFail(l) PROVE MoneyInv'
  BY <1>5 DEF BookingFail, RevertFailedBooking, Stale
<1>6. CASE BookingCrash
  BY <1>6 DEF BookingCrash
<1>7. ASSUME NEW p \in Panels, PanelLinkInsert(p) PROVE MoneyInv'
  BY <1>7 DEF PanelLinkInsert, Payable
<1>8. ASSUME NEW p \in Panels, NEW repriced \in BOOLEAN,
             PanelLinkAsk(p, repriced)
      PROVE MoneyInv'
  BY <1>8 DEF PanelLinkAsk, RetireLink, Stale, Payable
<1>9. ASSUME NEW p \in Panels, NEW l \in Links, PanelLinkSeal(p, l)
      PROVE MoneyInv'
  BY <1>9 DEF PanelLinkSeal, Stale, Payable
<1>10. ASSUME NEW p \in Panels, NEW l \in Links, PanelLinkDrop(p, l)
       PROVE MoneyInv'
  BY <1>10 DEF PanelLinkDrop
<1>11. ASSUME NEW p \in Panels, NEW l \in Links \cup {None}, PanelLinkFail(p, l)
       PROVE MoneyInv'
  BY <1>11, ZenonT(60) DEF PanelLinkFail, Stale
<1>12. ASSUME NEW p \in Panels, PanelLinkCrash(p) PROVE MoneyInv'
  BY <1>12 DEF PanelLinkCrash
<1>13. ASSUME NEW status \in Released, appt \in Active, Drop(status)
       PROVE MoneyInv'
  BY <1>13 DEF Drop, Active, ExpireLive, ExpireLinkOf, RowWrittenIf, RowWritten,
     Stale
<1>14. CASE Cancel \/ Reschedule \/ CancelForBlock \/ CancelByClient
            \/ RescheduleByClient \/ ReleasePending
  BY <1>14, <1>13
  DEF Cancel, Reschedule, CancelForBlock, CancelByClient, RescheduleByClient,
      ReleasePending, ClientMayDrop, Active
<1>15. CASE Confirm
  BY <1>15 DEF Confirm
<1>16. ASSUME NEW status \in {"completed", "absent"}, Close(status)
       PROVE MoneyInv'
  BY <1>16 DEF Close
<1>17. CASE ManualInsert
  BY <1>17 DEF ManualInsert, Payable, SyncAppt
<1>18. ASSUME NEW repriced \in BOOLEAN, ManualConfirm(repriced)
       PROVE MoneyInv'
  BY <1>18 DEF ManualConfirm, RetireLink, ApplyStatus, CanApply, PaymentGraph,
     SyncAppt, Payable, RowWritten, Stale
<1>19. CASE Refund
  BY <1>19 DEF Refund, SyncAppt, RowWritten, Stale
<1>20. ASSUME NEW m \in Pays, ReplacedPayment(m) PROVE MoneyInv'
  BY <1>20 DEF ReplacedPayment, Delivered, Past, IsCurrent, IsRetired, Open,
     OfOtherPayment, Resolve, Notices
<1>21. ASSUME NEW m \in Pays, NEW st \in Statuses, ReversalOfOther(m, st)
       PROVE MoneyInv'
  BY <1>21 DEF ReversalOfOther, Notices
<1>22. ASSUME NEW m \in Pays, NEW st \in RemoteStatuses, ApplyEvent(m, st)
       PROVE MoneyInv'
  <2> DEFINE c == ApplyStatus(charge, Resolve(st))
  <2>1. /\ charge # "none"
        /\ appt # "deleted"
        /\ remote[m] # "none"
        /\ paidOn[m] # None
        /\ paidOn[m] \in Links
    BY <1>22 DEF ApplyEvent, Applicable, Delivered, Past
  <2>2. /\ charge' # "none"
        /\ appt' # "deleted"
        /\ charge' # charge => <<charge, charge'>> \in PaymentGraph
        /\ appt' \in Released => charge' \notin Live
    BY <1>22, <2>1, EventOutcome
  <2>3. /\ link' = paidOn[m]
        /\ retired' = retired \cup (IF paidOn[m] = link THEN {} ELSE Real(link))
        /\ expireReq \subseteq expireReq'
        /\ paidOn[m] # link => Real(link) \subseteq expireReq'
        /\ UNCHANGED <<clock, paidOn, remote>>
    BY <1>22 DEF ApplyEvent, IsCurrent
  <2>4. paidOn[m] # link =>
          /\ paidOn[m] \in retired
          /\ charge \in {"pending", "rejected", "expired"}
          /\ st = "approved"
          /\ charge' = "approved"
    BY <1>22 DEF ApplyEvent, Applicable, IsCurrent, IsRetired, Open, Resolve,
       ApplyStatus, CanApply, PaymentGraph, ExpireLive
  <2>5. FreshHasPlaceholder'
    <3>1. CASE CanApply(charge, Resolve(st)) \/ ext' # ext
      BY <1>22, <3>1 DEF ApplyEvent, RowWrittenIf, RowWritten, Stale
    <3>2. CASE ~(CanApply(charge, Resolve(st)) \/ ext' # ext)
      <4>1. UNCHANGED callVars
        BY <1>22, <3>2 DEF ApplyEvent, RowWrittenIf
      <4>2. link' = link
        BY <3>2, <2>3, <2>4 DEF CanApply, Resolve, PaymentGraph
      <4>3. link # None
        BY <2>1, <2>3, <4>2
      <4>4. QED
        BY <4>1, <4>2, <4>3
    <3>3. QED
      BY <3>1, <3>2
  <2>6. NoRowNoLinks' /\ PaidLinksKnown'
    BY <2>1, <2>2, <2>3
  <2>7. ReplacedLinksExpire'
    BY <2>1, <2>3, <2>4
  <2>8. ClosedChargeLinkExpires'
    <3> SUFFICES ASSUME charge' \in {"expired", "manual_confirmed"}, link' # None
                 PROVE  link' \in expireReq' \/ clock' # "held"
      BY DEF ClosedChargeLinkExpires
    <3>1. paidOn[m] = link /\ link' = link
      BY <2>3, <2>4
    <3>2. CASE charge' = charge
      BY <2>3, <3>1, <3>2 DEF ClosedChargeLinkExpires
    <3>3. CASE charge' # charge
      <4>1. c = charge \/ c \notin {"expired", "manual_confirmed"}
        BY DEF ApplyStatus, Resolve, RemoteStatuses
      <4>2. charge' = IF appt' \in Released THEN ExpireLive(c) ELSE c
        BY <1>22 DEF ApplyEvent
      <4>3. appt' \in Released /\ c \in Live
        BY <3>3, <4>1, <4>2 DEF ExpireLive
      <4>4. Real(paidOn[m]) \subseteq expireReq'
        BY <1>22, <4>3 DEF ApplyEvent, ExpireLinkOf
      <4>5. QED
        BY <3>1, <4>4 DEF Real
    <3>4. QED
      BY <3>2, <3>3
  <2>9. charge = "approved" => m = ext /\ m = settledBy /\ paidOn[m] = link
    BY <1>22, <2>4 DEF ApplyEvent, Applicable, OfOtherPayment
  <2>10. charge # "manual_confirmed" /\ charge' # "manual_confirmed"
    BY <1>22, <2>2 DEF ApplyEvent, Applicable, OfOtherPayment, ApplyStatus,
       Resolve, ExpireLive, RemoteStatuses
  <2>11. charge' = "approved" <=> c = "approved"
    BY <1>22 DEF ApplyEvent, ExpireLive
  <2>12. charge' = "refunded" <=> c = "refunded"
    BY <1>22 DEF ApplyEvent, ExpireLive
  <2>13. /\ told' = [told EXCEPT ![m] = @ \cup NoticesOf(st, c, appt')]
         /\ handled' = IF st = "approved" THEN handled \cup {m} ELSE handled
         /\ settledBy' = IF charge \notin Accredited /\ c = "approved"
                         THEN m ELSE settledBy
         /\ ext' = StampExt(m, st)
    BY <1>22 DEF ApplyEvent
  <2>14. /\ "replaced" \notin NoticesOf(st, c, appt')
         /\ "reversed" \in NoticesOf(st, c, appt') =>
               charge = "approved" /\ c = "refunded"
         /\ charge # "approved" /\ c = "approved" =>
               NoticesOf(st, c, appt') \cap {"credited", "late"} # {}
    BY <2>10 DEF NoticesOf
  <2>15. charge' = "approved" => settledBy' = m /\ ext' = m
    <3>1. CASE charge = "approved"
      BY <3>1, <2>9, <2>13 DEF StampExt
    <3>2. CASE charge # "approved" /\ c = "approved"
      BY <3>2, <2>10, <2>13 DEF StampExt, ApplyStatus
    <3>3. QED
      BY <3>1, <3>2, <2>11
  <2>16. charge' = "approved" /\ charge # "approved" =>
           \A n \in Pays : "replaced" \notin told[n] /\ "reversed" \notin told[n]
    BY <2>1, <2>2 DEF PaymentGraph
  <2> HIDE DEF c
  <2>17. ApprovedIsSettlers'
    <3>1. CASE charge = "approved"
      BY <3>1, <2>1, <2>3, <2>9, <2>13, <2>14, <2>15
    <3>2. CASE charge # "approved"
      BY <3>2, <2>1, <2>3, <2>11, <2>13, <2>14, <2>15, <2>16
    <3>3. QED
      BY <3>1, <3>2
  <2>18. NoticesBind'
    <3> SUFFICES ASSUME NEW n \in Pays
                 PROVE  /\ "replaced" \in told'[n] =>
                             remote'[n] # "none" /\ charge' \in Settled
                        /\ "reversed" \in told'[n] =>
                             /\ remote'[n] # "none"
                             /\ settledBy' = n
                             /\ charge' = "refunded"
                        /\ n \in handled' => remote'[n] # "none"
      OBVIOUS
    <3>1. n \in handled' => remote'[n] # "none"
      BY <2>1, <2>3, <2>13
    <3>2. "replaced" \in told'[n] => remote'[n] # "none" /\ charge' \in Settled
      BY <2>1, <2>2, <2>3, <2>13, <2>14 DEF PaymentGraph
    <3>3. CASE "reversed" \in told[n]
      BY <3>3, <2>1, <2>2, <2>3, <2>11, <2>13 DEF PaymentGraph
    <3>4. CASE "reversed" \in told'[n] /\ "reversed" \notin told[n]
      <4>1. n = m /\ charge = "approved" /\ c = "refunded"
        BY <3>4, <2>13, <2>14
      <4>2. QED
        BY <4>1, <2>1, <2>3, <2>9, <2>12, <2>13
    <3>5. QED
      BY <3>1, <3>2, <3>3, <3>4
  <2>19. MoneyIsToldWhileOpen'
    <3> SUFFICES ASSUME charge' \notin {"refunded", "none"}, NEW n \in handled'
                 PROVE  told'[n] \cap {"credited", "late", "replaced"} # {}
      OBVIOUS
    <3>1. charge \notin {"refunded", "none"}
      BY <2>1, <2>2 DEF PaymentGraph
    <3>2. CASE n \in handled
      <4>1. told[n] \subseteq told'[n]
        BY <3>2, <2>13
      <4>2. QED
        BY <4>1, <3>1, <3>2
    <3>3. CASE n = m /\ st = "approved"
      <4>1. charge' = "approved"
        BY <3>1, <3>3, <2>10, <2>11
        DEF c, ApplyStatus, CanApply, Resolve, PaymentGraph
      <4>2. QED
        BY <4>1, <3>3, <2>15, <2>17
    <3>4. QED
      BY <3>2, <3>3, <2>13
  <2>20. QED
    BY <2>5, <2>6, <2>7, <2>8, <2>17, <2>18, <2>19
<1>23. ASSUME NEW m \in Pays, NEW st \in Statuses, WebhookEvent(m, st)
       PROVE MoneyInv'
  BY <1>22, <1>23 DEF WebhookEvent
<1>24. ASSUME NEW m \in Pays \cup {None}, JobConsult(m) PROVE MoneyInv'
  BY <1>24 DEF JobConsult
<1>25. CASE JobRescue
  BY <1>22, <1>25 DEF JobRescue, RemoteStatuses
<1>26. CASE JobSkip
  BY <1>26 DEF JobSkip, JobDone
<1>27. CASE JobExpire
  BY <1>27 DEF JobExpire, JobDone, OverdueHold, ExpireLive, RowWritten, Stale
<1>28. CASE JobExpireManual
  BY <1>28 DEF JobExpireManual, OverdueHold, ExpireLive, RowWritten, Stale
<1>29. CASE Tick
  BY <1>29 DEF Tick
<1>30. ASSUME NEW m \in Pays, NEW l \in Links, NEW st \in Statuses, Pay(m, l, st)
       PROVE MoneyInv'
  BY <1>30 DEF Pay, RemoteStatuses
<1>31. ASSUME NEW m \in Pays, NEW st \in Statuses, RemoteMove(m, st)
       PROVE MoneyInv'
  BY <1>31 DEF RemoteMove, RemoteGraph, RemoteStatuses
<1>32. CASE UNCHANGED vars
  BY <1>32 DEF vars
<1> HIDE DEF MoneyInv, AgendaInv
<1>33. QED
  BY <1>1, <1>2, <1>3, <1>4, <1>5, <1>6, <1>7, <1>8, <1>9, <1>10, <1>11, <1>12,
     <1>14, <1>15, <1>16, <1>17, <1>18, <1>19, <1>20, <1>21, <1>23, <1>24,
     <1>25, <1>26, <1>27, <1>28, <1>29, <1>30, <1>31, <1>32
  DEF Next, BookingStep, PanelLinkStep, AgendaStep, HandStep, EventStep,
      JobStep, WorldStep

-----------------------------------------------------------------------------
(* Every link a charge stops using, because it was replaced, expired with  *)
(* a release or was overtaken by cash, is sent to expire: at most one link *)
(* of a charge is meant to be payable.                                     *)
THEOREM LinksSafe == Spec => [](ReplacedLinksExpire /\ ClosedChargeLinkExpires)
<1>1. MoneyInv => ReplacedLinksExpire /\ ClosedChargeLinkExpires
  BY DEF MoneyInv
<1>2. QED
  BY <1>1, InitAgendaInv, NextAgendaInv, InitMoneyInv, NextMoneyInv, PTL DEF Spec

(* However events are delayed, repeated and reordered, and whoever         *)
(* replaces links meanwhile: only the payment that settled a charge can    *)
(* take its money away, and while the charge is approved the owner is      *)
(* never asked to give that payment back.                                  *)
THEOREM SettlerSafe == Spec => [](OnlySettlerReverses /\ KeptMoneyNotFlagged)
<1>1. MoneyInv => OnlySettlerReverses /\ KeptMoneyNotFlagged
  BY DEF MoneyInv, NoticesBind, ApprovedIsSettlers, OnlySettlerReverses,
     KeptMoneyNotFlagged
<1>2. QED
  BY <1>1, InitAgendaInv, NextAgendaInv, InitMoneyInv, NextMoneyInv, PTL DEF Spec

(* As long as the charge was not refunded, an approved payment that was    *)
(* processed left a notice for the owner.                                  *)
THEOREM MoneyTold == Spec => []MoneyIsToldWhileOpen
<1>1. MoneyInv => MoneyIsToldWhileOpen
  BY DEF MoneyInv
<1>2. QED
  BY <1>1, InitAgendaInv, NextAgendaInv, InitMoneyInv, NextMoneyInv, PTL DEF Spec
==============================================================================
