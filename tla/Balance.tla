------------------------------ MODULE Balance ------------------------------
(* The rest of a turn paid at the store (payments/application.py, router.py,   *)
(* repository.py) beside everything else that moves its money: the manual      *)
(* confirmation, the link of the panel, the refund, Mercado Pago, and the       *)
(* client who cancels or moves the turn from the portal (public_api).           *)
(*                                                                            *)
(* One turn and the copy a client's move leaves. A request locks the row of     *)
(* the turn, decides, and writes at its commit; the refund locks no turn and    *)
(* relies on the version of the charge. What a link, its expiry in Mercado      *)
(* Pago and a late payment do is in Charge; the agenda is in Slots.             *)
EXTENDS Naturals, FiniteSets, Sequences

CONSTANTS BalanceRequests,
          FrozenPrice,      \* appointments.price_amount of the turn
          Charged,          \* amounts a charge is made for
          MaxRemainders     \* bound: remainders written for one turn

ASSUME BalanceAssumption ==
    /\ FrozenPrice \in Nat \ {0} /\ Charged \subseteq Nat \ {0} /\ MaxRemainders \in Nat

VARIABLES visitOf,     \* per turn, its status ("none": no row yet)
          fee,         \* per turn, its row of payments
          remainders,  \* per turn, its rows of appointment_balance_payments
          call,        \* per request: what it asks and where it is
          keyMark      \* per kind and turn, the idempotency mark of its retries

balanceVars == <<visitOf, fee, remainders, call, keyMark>>

BothTurns == {"first", "moved"}
Keyed == {"record", "move"}

Released == {"cancelled", "expired"}
Accredited == {"approved", "manual_confirmed"}
NoFee == [status |-> "none", amount |-> 0, provider |-> "none", rule |-> FALSE, paid |-> 0]
NoCall == [at |-> "idle", kind |-> "none", turn |-> "first", amount |-> 0,
           keyed |-> FALSE, read |-> NoFee, told |-> FALSE]

VisitStatuses == {"pending_payment", "confirmed", "completed", "absent"} \cup Released
FeeRows == [status : {"none", "pending", "expired", "refunded"} \cup Accredited, amount : Nat,
            provider : {"none", "mercadopago", "manual"}, rule : BOOLEAN, paid : Nat]
RestRows == [amount : 1..FrozenPrice, live : BOOLEAN, keyed : BOOLEAN]
Calls == [at : {"idle", "asked", "locked", "read", "committed", "ended", "refused"},
          kind : {"none", "record", "revert", "confirm", "refund", "cancel", "move"},
          turn : BothTurns, amount : Nat, keyed : BOOLEAN, read : FeeRows, told : BOOLEAN]

BalanceTypeOK ==
    /\ visitOf \in [BothTurns -> {"none"} \cup VisitStatuses]
    /\ fee \in [BothTurns -> FeeRows]
    /\ remainders \in [BothTurns -> Seq(RestRows)]
    /\ call \in [BalanceRequests -> Calls]
    /\ keyMark \in [Keyed \X BothTurns -> {"none", "processing", "saved"}]

(* The deposit of the portal by Mercado Pago or by WhatsApp, a turn of the       *)
(* panel without a charge, and one with a link of the panel.                     *)
FirstFees ==
    {NoFee} \cup {[status |-> "pending", amount |-> a, provider |-> p, rule |-> rule, paid |-> 0] :
                     a \in Charged, p \in {"mercadopago", "manual"}, rule \in BOOLEAN}
BalanceInit ==
    /\ \E f \in FirstFees :
          /\ f.provider = "manual" => f.rule
          /\ fee = [t \in BothTurns |-> IF t = "first" THEN f ELSE NoFee]
          /\ visitOf = [t \in BothTurns |-> IF t = "moved" THEN "none"
                                            ELSE IF f.rule THEN "pending_payment" ELSE "confirmed"]
    /\ remainders = [t \in BothTurns |-> <<>>]
    /\ call = [c \in BalanceRequests |-> NoCall]
    /\ keyMark = [k \in Keyed \X BothTurns |-> "none"]

-----------------------------------------------------------------------------
(* Payment.is_live_charge and is_accredited (a rejected charge is as live as a    *)
(* pending one), and the graph ALLOWED_PAYMENT_TRANSITIONS.                        *)
IsLive(f) == f.status = "pending"
IsAccredited(f) == f.status \in Accredited
Reaches(from, to) ==
    \/ from \in {"none", "pending", "expired"} /\ to \in Accredited
    \/ from = "pending" /\ to = "expired"
    \/ from \in Accredited /\ to = "refunded"

(* The live remainder of a turn, at most one by uq_appointment_balance_payments_live. *)
LiveRests(t) == {i \in DOMAIN remainders[t] : remainders[t][i].live}
LiveAmount(t) ==
    IF LiveRests(t) = {} THEN 0 ELSE remainders[t][CHOOSE i \in LiveRests(t) : TRUE].amount

(* remaining_balance_of, in one statement. *)
RemainingBalance(t) ==
    IF /\ IsAccredited(fee[t])
       /\ visitOf[t] \notin Released \cup {"absent"}
       /\ FrozenPrice > fee[t].amount + LiveAmount(t)
    THEN FrozenPrice - fee[t].amount - LiveAmount(t)
    ELSE 0

(* paid_appointment_of. *)
Paid(t) == IsAccredited(fee[t]) \/ LiveRests(t) # {}

(* client_cancel_denial without the hours, client_reschedule_denial, and the      *)
(* flags can_cancel and can_reschedule of the history, which are the same rules.  *)
ClientMayCancel(t) ==
    \/ IsLive(fee[t]) /\ fee[t].provider = "manual"
    \/ visitOf[t] # "pending_payment" /\ ~IsLive(fee[t])
ClientMayMove(t) == ClientMayCancel(t) /\ ~Paid(t)
Active(t) == visitOf[t] \in {"pending_payment", "confirmed"}
ClientItem(t) == [can_cancel |-> Active(t) /\ ClientMayCancel(t),
                  can_reschedule |-> Active(t) /\ ClientMayMove(t)]

(* The price a charge is written with. _reprice_existing_payment: one born with   *)
(* the deposit rule keeps its amount when the request names none, an accredited   *)
(* one never changes; a refunded one does.                                         *)
Repriced(f, amount, named) ==
    IF f.rule /\ ~named THEN f ELSE [f EXCEPT !.amount = amount]

-----------------------------------------------------------------------------
CallAt(c, place) == call[c].at = place
Holding(t) == {c \in BalanceRequests : call[c].turn = t /\ CallAt(c, "locked")}
(* FOR UPDATE of the row of the turn. Plausible bug: no lock. *)
UnlockedTurn(t) == TRUE
TurnIsFree(t) == Holding(t) = {}
(* FOR UPDATE of its charge, taken after the turn's by whoever reads it to write. *)
ChargeIsFree(t) == {c \in Holding(t) : call[c].kind # "revert"} = {}

(* How a request ends: the mark of its key is released on an error and keeps the  *)
(* answer on success.                                                             *)
Answered(c, ok) ==
    /\ call' = [call EXCEPT ![c] = [NoCall EXCEPT !.at = IF ok THEN "ended" ELSE "refused"]]
    /\ keyMark' = IF call[c].keyed
                  THEN [keyMark EXCEPT ![<<call[c].kind, call[c].turn>>] =
                            IF ok THEN "saved" ELSE "none"]
                  ELSE keyMark

(* The endpoints up to the service take the key of a record or of a move. A retry  *)
(* that finds the answer repeats it and one that finds PROCESSING waits, neither    *)
(* does more; a request that is never retried has a key of its own.                 *)
TakeKey(kind, t, keyed) ==
    /\ keyed => kind \in Keyed /\ keyMark[<<kind, t>>] = "none"
    /\ keyMark' = IF keyed THEN [keyMark EXCEPT ![<<kind, t>>] = "processing"] ELSE keyMark
Ask(c, kind, t, amount, keyed) ==
    /\ CallAt(c, "idle") /\ visitOf[t] # "none"
    /\ TakeKey(kind, t, keyed)
    /\ call' = [call EXCEPT ![c] = [NoCall EXCEPT !.at = "asked", !.kind = kind, !.turn = t,
                                                  !.amount = amount, !.keyed = keyed]]
    /\ UNCHANGED <<visitOf, fee, remainders>>
StaffAsks(c, kind, t, amount, keyed) ==
    /\ amount # 0 => kind \in {"record", "confirm"}
    /\ Ask(c, kind, t, amount, keyed)
(* The client acts on the buttons of its history; the copy is not moved again. *)
ClientRequests(c, kind, t, keyed) ==
    /\ IF kind = "cancel" THEN ClientItem(t).can_cancel
       ELSE ClientItem(t).can_reschedule /\ t = "first" /\ visitOf["moved"] = "none"
    /\ Ask(c, kind, t, 0, keyed)

(* The rules each request checks under its locks. *)
MayRecord(t, amount) ==
    /\ visitOf[t] \notin Released
    /\ IsAccredited(fee[t])
    /\ LiveRests(t) = {} /\ Len(remainders[t]) < MaxRemainders
    /\ RemainingBalance(t) > 0 /\ amount <= RemainingBalance(t)
Allowed(c) ==
    LET t == call[c].turn IN
    CASE call[c].kind = "record" -> MayRecord(t, call[c].amount)
      [] call[c].kind = "revert" -> LiveRests(t) # {}
      [] call[c].kind = "confirm" -> visitOf[t] \notin Released
      [] call[c].kind = "cancel" -> Active(t) /\ ClientMayCancel(t)
      [] call[c].kind = "move" -> Active(t) /\ ClientMayMove(t)

LockTurn(c) ==
    /\ CallAt(c, "asked") /\ call[c].kind # "refund"
    /\ TurnIsFree(call[c].turn)
    /\ Allowed(c)
    /\ call' = [call EXCEPT ![c].at = "locked",
                            ![c].amount = IF call[c].kind = "record" /\ @ = 0
                                          THEN RemainingBalance(call[c].turn) ELSE @]
    /\ UNCHANGED <<visitOf, fee, remainders, keyMark>>

(* A rule says no: 409, and nothing was written. *)
Refused(c) ==
    /\ CallAt(c, "asked") /\ call[c].kind # "refund"
    /\ TurnIsFree(call[c].turn) /\ ~Allowed(c)
    /\ Answered(c, FALSE)
    /\ UNCHANGED <<visitOf, fee, remainders>>
(* _lock_client_appointment: not the holder's phone or no recent code; the hours of *)
(* the store. _check_new_slot: the horizon, the notice, the agenda.                  *)
ClientRefused(c, kinds) ==
    /\ CallAt(c, "asked") /\ call[c].kind \in kinds
    /\ TurnIsFree(call[c].turn)
    /\ Answered(c, FALSE)
    /\ UNCHANGED <<visitOf, fee, remainders>>
NotTheHolder(c) == ClientRefused(c, {"cancel", "move"})
NewSlotRefused(c) == ClientRefused(c, {"move"})

Locked(c, kind) == CallAt(c, "locked") /\ call[c].kind = kind

(* record_remaining_payment. The unique index is the last defence of "one live". *)
RecordRemaining(c) ==
    LET t == call[c].turn IN
    /\ Locked(c, "record")
    /\ IF LiveRests(t) = {}
       THEN /\ remainders' = [remainders EXCEPT
                  ![t] = Append(@, [amount |-> call[c].amount, live |-> TRUE,
                                    keyed |-> call[c].keyed])]
            /\ Answered(c, TRUE)
       ELSE Answered(c, FALSE) /\ UNCHANGED remainders
    /\ UNCHANGED <<visitOf, fee>>

(* revert_remaining_payment: the row stays, reverted. *)
RevertRemaining(c) ==
    LET t == call[c].turn IN
    /\ Locked(c, "revert")
    /\ remainders' = [remainders EXCEPT
          ![t] = [i \in DOMAIN @ |-> [@[i] EXCEPT !.live = FALSE]]]
    /\ Answered(c, TRUE)
    /\ UNCHANGED <<visitOf, fee>>

(* manual_confirm: an accredited charge is left as it is; a live one is            *)
(* registered for its own amount when none is named, any other for the named       *)
(* amount or the frozen price.                                                     *)
AmountToRegister(f, amount) ==
    IF amount # 0 THEN amount ELSE IF IsLive(f) THEN f.amount ELSE FrozenPrice
ManuallyConfirmed(f, amount) ==
    LET base == IF f.status = "none" THEN [NoFee EXCEPT !.provider = "manual"] ELSE f
        priced == Repriced(base, AmountToRegister(f, amount), amount # 0)
    IN  IF IsAccredited(f) THEN f
        ELSE IF Reaches(f.status, "manual_confirmed")
        THEN [priced EXCEPT !.status = "manual_confirmed", !.paid = priced.amount]
        ELSE priced
ManualConfirm(c) ==
    LET t == call[c].turn
        after == ManuallyConfirmed(fee[t], call[c].amount)
    IN  /\ Locked(c, "confirm")
        /\ fee' = [fee EXCEPT ![t] = after]
        /\ visitOf' = IF IsAccredited(after) /\ visitOf[t] = "pending_payment"
                      THEN [visitOf EXCEPT ![t] = "confirmed"] ELSE visitOf
        /\ Answered(c, TRUE)
        /\ UNCHANGED remainders

(* expire_live_charge, on the turn a client leaves. *)
ExpiredCharge(f) == IF IsLive(f) THEN [f EXCEPT !.status = "expired"] ELSE f
CancelByClient(c) ==
    LET t == call[c].turn IN
    /\ Locked(c, "cancel")
    /\ visitOf' = [visitOf EXCEPT ![t] = "cancelled"]
    /\ fee' = [fee EXCEPT ![t] = ExpiredCharge(@)]
    /\ Answered(c, TRUE)
    /\ UNCHANGED remainders

(* reschedule_by_client, _rescheduled_copy and carry_manual_deposit: the copy keeps *)
(* the status, and a deposit by WhatsApp goes with it as a new charge of the same   *)
(* amount.                                                                          *)
CarriedDeposit(f) == IF IsLive(f) THEN f ELSE NoFee
RescheduleByClient(c) ==
    LET t == call[c].turn IN
    /\ Locked(c, "move")
    /\ visitOf' = [visitOf EXCEPT ![t] = "cancelled",
                      !["moved"] = IF IsLive(fee[t]) THEN "pending_payment" ELSE visitOf[t]]
    /\ fee' = [fee EXCEPT ![t] = ExpiredCharge(@), !["moved"] = CarriedDeposit(fee[t])]
    /\ Answered(c, TRUE)
    /\ UNCHANGED remainders

-----------------------------------------------------------------------------
(* refund: the charge is read without a lock and written under its version; a      *)
(* charge that changed since fails the request. The remainder is not touched: the  *)
(* answer, read after the commit, says whether one is live.                        *)
ReadToRefund(c) ==
    LET t == call[c].turn IN
    /\ CallAt(c, "asked") /\ call[c].kind = "refund"
    /\ IF IsAccredited(fee[t])
       THEN /\ call' = [call EXCEPT ![c].at = "read", ![c].read = fee[t]]
            /\ UNCHANGED keyMark
       ELSE Answered(c, FALSE)
    /\ UNCHANGED <<visitOf, fee, remainders>>
CommitRefund(c) ==
    LET t == call[c].turn IN
    /\ CallAt(c, "read") /\ ChargeIsFree(t)
    /\ IF fee[t] = call[c].read
       THEN /\ fee' = [fee EXCEPT ![t].status = "refunded"]
            /\ call' = [call EXCEPT ![c].at = "committed"]
            /\ UNCHANGED keyMark
       ELSE Answered(c, FALSE) /\ UNCHANGED fee
    /\ UNCHANGED <<visitOf, remainders>>
TellLive(c) == LiveRests(call[c].turn) # {}
AnswerRefund(c) ==
    /\ CallAt(c, "committed")
    /\ call' = [call EXCEPT ![c].at = "ended", ![c].told = TellLive(c), ![c].read = NoFee]
    /\ UNCHANGED <<visitOf, fee, remainders, keyMark>>

CallStep(c) ==
    \/ \E t \in BothTurns, k \in BOOLEAN :
          \/ \E kind \in {"record", "revert", "confirm", "refund"}, a \in {0} \cup Charged :
                StaffAsks(c, kind, t, a, k)
          \/ \E kind \in {"cancel", "move"} : ClientRequests(c, kind, t, k)
    \/ LockTurn(c) \/ Refused(c) \/ NotTheHolder(c) \/ NewSlotRefused(c)
    \/ RecordRemaining(c) \/ RevertRemaining(c) \/ ManualConfirm(c)
    \/ CancelByClient(c) \/ RescheduleByClient(c)
    \/ ReadToRefund(c) \/ CommitRefund(c) \/ AnswerRefund(c)

-----------------------------------------------------------------------------
(* What else writes the turn or its charge, each in one transaction that locks     *)
(* both: the store, the link of the panel, Mercado Pago, the job of the holds.     *)
Unheld(t) == TurnIsFree(t) /\ ChargeIsFree(t)
StoreEnds(t, status) ==
    /\ Unheld(t) /\ Active(t)
    /\ status = "cancelled" \/ visitOf[t] = "confirmed"
    /\ visitOf' = [visitOf EXCEPT ![t] = status]
    /\ fee' = IF status = "cancelled" THEN [fee EXCEPT ![t] = ExpiredCharge(@)] ELSE fee
    /\ UNCHANGED <<remainders, call, keyMark>>

(* create_panel_payment_preference, both phases: an accredited charge is a 409. *)
RelinkFromPanel(t, amount) ==
    /\ Unheld(t) /\ visitOf[t] \notin Released \cup {"none"} /\ ~IsAccredited(fee[t])
    /\ fee' = [fee EXCEPT ![t] =
          LET base == IF @.status = "none" THEN [NoFee EXCEPT !.provider = "mercadopago"] ELSE @
              priced == Repriced(base, amount, FALSE)
          IN  IF @.status \in {"none", "expired"} THEN [priced EXCEPT !.status = "pending"]
              ELSE priced]
    /\ UNCHANGED <<visitOf, remainders, call, keyMark>>

(* A payment of the link or its reversal, applied by process_payment_event. *)
MpEvent(t, status) ==
    /\ Unheld(t) /\ fee[t].provider = "mercadopago"
    /\ IF status = "approved" THEN IsLive(fee[t]) ELSE fee[t].status = "approved"
    /\ fee' = [fee EXCEPT ![t].status = status,
                          ![t].paid = IF status = "approved" THEN fee[t].amount ELSE @]
    /\ visitOf' = IF status = "approved" /\ visitOf[t] = "pending_payment"
                  THEN [visitOf EXCEPT ![t] = "confirmed"] ELSE visitOf
    /\ UNCHANGED <<remainders, call, keyMark>>

HoldEnds(t) ==
    /\ Unheld(t) /\ visitOf[t] = "pending_payment"
    /\ visitOf' = [visitOf EXCEPT ![t] = "expired"]
    /\ fee' = [fee EXCEPT ![t] = ExpiredCharge(@)]
    /\ UNCHANGED <<remainders, call, keyMark>>

BalanceNext ==
    \/ \E c \in BalanceRequests : CallStep(c)
    \/ \E t \in BothTurns :
          \/ \E s \in {"completed", "absent", "cancelled"} : StoreEnds(t, s)
          \/ \E a \in Charged : RelinkFromPanel(t, a)
          \/ \E s \in {"approved", "refunded"} : MpEvent(t, s)
          \/ HoldEnds(t)

BalanceSpec == BalanceInit /\ [][BalanceNext]_balanceVars

-----------------------------------------------------------------------------
(* remaining_balance_of does not go below zero, so an excess would not show: the   *)
(* money registered for a turn, what its charge accredited and its live remainder,  *)
(* never exceeds the frozen price unless the charge alone does.                     *)
PaidWithinPrice ==
    \A t \in BothTurns : IsAccredited(fee[t]) /\ LiveRests(t) # {} =>
        fee[t].amount + LiveAmount(t) <= FrozenPrice

(* client_reschedule_denial: the turn a client moves leaves no money on the one it  *)
(* cancels, neither its charge nor a remainder that outlived a refund, whatever the *)
(* store registers meanwhile.                                                       *)
MovedLeavesNoMoney ==
    visitOf["moved"] # "none" => ~IsAccredited(fee["first"]) /\ LiveRests("first") = {}

(* refund_payment (router.py): the store that registers a refund is told of a       *)
(* remainder that stays live, even one recorded while the refund was being made.    *)
RefundTellsRemainder ==
    \A c \in BalanceRequests :
        /\ call[c].kind = "refund" /\ CallAt(c, "ended")
        /\ LiveRests(call[c].turn) # {}
        => call[c].told

(* idempotency_guard on remaining-payment: the retries of one record write one      *)
(* remainder, also when it was reverted before the retry came.                      *)
RecordedOncePerKey ==
    \A t \in BothTurns :
        Cardinality({i \in DOMAIN remainders[t] : remainders[t][i].keyed}) <= 1

(* The money of a turn is registered once: never above its price, never left on a   *)
(* turn the client moved, never repeated by a retry, and never silent after a refund. *)
TurnIsPaidOnce ==
    /\ PaidWithinPrice
    /\ MovedLeavesNoMoney
    /\ RefundTellsRemainder
    /\ RecordedOncePerKey

(* refund, application.py: "No pisa el monto historico". A charge that was refunded *)
(* keeps the amount that had been paid. It does not: a refunded charge is repriced.    *)
RefundKeepsAmount ==
    \A t \in BothTurns : fee[t].status = "refunded" => fee[t].amount = fee[t].paid
=============================================================================
