------------------------------ MODULE Receipt ------------------------------
(***************************************************************************)
(* What a notification of Mercado Pago may make of a charge: the checks of *)
(* the webhook (payments/router.py) and of the payment it names            *)
(* (payments/processing.py).                                               *)
(*                                                                         *)
(* The signature covers the id of one payment and nothing else of the      *)
(* body: what is applied is what Mercado Pago answers about that payment,  *)
(* and only when it is of this charge, of the store's account, of its      *)
(* amount and of real money.  A notification that could not be applied     *)
(* waits in the inbox, where the retry job asks again.  An approved        *)
(* payment that is refused is money nobody sees, so somebody is alerted.   *)
(*                                                                         *)
(* One charge with its link; production settings.  How rows are claimed    *)
(* and retried is the module WebhookInbox, what applying a status does to  *)
(* the appointment is Charge.                                              *)
(***************************************************************************)
EXTENDS Naturals, FiniteSets

CONSTANTS
    MpPayments,       \* payments of Mercado Pago that notifications name
    NoPayment,        \* no payment
    NoteForms,        \* the notifications that may arrive
    PaymentForms,     \* what Mercado Pago may hold about a payment
    Handlers,         \* the requests that may run at once, and the retry job
    MaxRowAttempts,   \* WEBHOOK_INBOX_MAX_ATTEMPTS
    MaxNotes          \* bound: notifications that arrive

ASSUME ReceiptAssumption ==
    /\ NoPayment \notin MpPayments
    /\ NoteForms \subseteq
         [topic : {"payment", "order"},     \* declared topic
          ownId : BOOLEAN,                  \* the notification has an id
          signed : MpPayments,              \* data.id, which the signature covers
          body : MpPayments,                \* payment_id of the unsigned body
          signature : {"good", "forged", "stale", "absent"}]
    /\ PaymentForms \subseteq
         [account : {"store", "other", "missing"},
          amount : {"link", "other", "missing"},
          reference : {"link", "replaced", "turn", "foreign", "missing"},
          live : BOOLEAN]
    /\ MaxRowAttempts \in Nat \ {0} /\ MaxNotes \in Nat

VARIABLES
    mpForm,     \* each payment in Mercado Pago
    mpStatus,   \* its status there
    noteRow,    \* the inbox: one row per event id
    deposit,    \* the charge: its status and the payment that settled it
    handler,    \* what each request or the job holds
    genuine,    \* history: payments named by a notification signed and fresh
    refused,    \* history: approved payments refused, with the reason
    alerted,    \* the alerts that went out
    alertMarks, \* rows payment.alert_mark: what was alerted already
    notes       \* how many notifications arrived

receiptVars == <<mpForm, mpStatus, noteRow, deposit, handler, genuine, refused,
                 alerted, alertMarks, notes>>

(* An event id: the notification's own, counted, or that of the payment. *)
EventIds == (1..MaxNotes) \cup MpPayments
NoEvent == 0
NoteRow == [state : {"none", "waiting", "done", "dropped"},
            of : MpPayments \cup {NoPayment}, attempts : 0..MaxRowAttempts]
IdleHandler == [at |-> "idle", event |-> NoEvent, of |-> NoPayment,
                got |-> "none"]
HandlerState == [at : {"idle", "verified"}, event : EventIds \cup {NoEvent},
                 of : MpPayments \cup {NoPayment},
                 got : {"none", "pending", "approved", "charged_back"}]

ReceiptTypeOK ==
    /\ mpForm \in [MpPayments -> PaymentForms]
    /\ mpStatus \in [MpPayments -> {"pending", "approved", "charged_back"}]
    /\ noteRow \in [EventIds -> NoteRow]
    /\ deposit \in [status : {"pending", "approved", "charged_back"},
                   by : MpPayments \cup {NoPayment}]
    /\ handler \in [Handlers -> HandlerState]
    /\ genuine \subseteq MpPayments
    /\ notes \in 0..MaxNotes

ReceiptInit ==
    /\ mpForm \in [MpPayments -> PaymentForms]
    /\ mpStatus = [p \in MpPayments |-> "pending"]
    /\ noteRow = [e \in EventIds |->
         [state |-> "none", of |-> NoPayment, attempts |-> 0]]
    /\ deposit = [status |-> "pending", by |-> NoPayment]
    /\ handler = [h \in Handlers |-> IdleHandler]
    /\ genuine = {}
    /\ refused = {}
    /\ alerted = {}
    /\ alertMarks = {}
    /\ notes = 0

(* The payment goes on in Mercado Pago. *)
PaymentMoves(p) ==
    /\ mpStatus[p] # "charged_back"
    /\ mpStatus' = [mpStatus EXCEPT ![p] =
         IF @ = "pending" THEN "approved" ELSE "charged_back"]
    /\ UNCHANGED <<mpForm, noteRow, deposit, handler, genuine, refused, alerted,
                   alertMarks, notes>>

-----------------------------------------------------------------------------
(* The request. *)

(* _tema_ajeno_a_pagos: a feed or order notification is answered and       *)
(* forgotten.                                                              *)
ForeignTopic(n) == n.topic # "payment"

(* _validate_mercadopago_signature: header present, young enough, and the  *)
(* HMAC over data.id, request id and timestamp.                            *)
SignatureHolds(n) == n.signature = "good"

(* Mutant: the query takes the id the unsigned body names. *)
BodyPayment(n) == n.body

(* The id the signature covered is the one that is asked about. *)
AskedPayment(n) == n.signed

(* _webhook_event_id: without an id of its own the notification takes that *)
(* of the payment.                                                         *)
EventId(n) == IF n.ownId THEN notes + 1 ELSE n.signed

(* enrich_mercadopago_webhook_payload: the status and everything that is   *)
(* checked come from the answer; none is no answer, or one without status. *)
Verified(p) == {mpStatus[p], "none"}

(* mercadopago_webhook up to the question to Mercado Pago, asked with no   *)
(* transaction open.                                                       *)
NoteArrives(h, n) ==
    /\ h # "job"
    /\ handler[h].at = "idle"
    /\ notes < MaxNotes
    /\ ~ForeignTopic(n)
    /\ SignatureHolds(n)
    /\ notes' = notes + 1
    /\ genuine' = genuine \cup {n.signed}
    /\ \E got \in Verified(AskedPayment(n)) :
         handler' = [handler EXCEPT ![h] =
           [at |-> "verified", event |-> EventId(n), of |-> AskedPayment(n),
            got |-> got]]
    /\ UNCHANGED <<mpForm, mpStatus, noteRow, deposit, refused, alerted, alertMarks>>

(* Anything else is answered at the door. *)
NoteRejected(n) ==
    /\ notes < MaxNotes
    /\ ForeignTopic(n) \/ ~SignatureHolds(n)
    /\ notes' = notes + 1
    /\ UNCHANGED <<mpForm, mpStatus, noteRow, deposit, handler, genuine, refused,
                   alerted, alertMarks>>

(* The retry job asks about the payment of a waiting row. *)
JobAsks(e) ==
    /\ handler["job"].at = "idle"
    /\ noteRow[e].state = "waiting"
    /\ \E got \in Verified(noteRow[e].of) :
         handler' = [handler EXCEPT !["job"] =
           [at |-> "verified", event |-> e, of |-> noteRow[e].of, got |-> got]]
    /\ UNCHANGED <<mpForm, mpStatus, noteRow, deposit, genuine, refused, alerted,
                   alertMarks, notes>>

-----------------------------------------------------------------------------
(* Applying what was answered (apply_mercadopago_webhook_payload). *)

(* find_payment_for_webhook finds the charge by the payment that settled   *)
(* it or by the reference, whose first part is the appointment.            *)
FindsCharge(p) == deposit.by = p \/ mpForm[p].reference \notin {"foreign", "missing"}

(* _validar_cuenta_cobradora *)
AccountReason(p, got) ==
    IF mpForm[p].account = "other" THEN {"other_account"}
    ELSE IF mpForm[p].account = "missing" /\ got = "approved" THEN {"no_collector"}
    ELSE {}

(* _validar_importe_presente, _validar_modo_real *)
AmountMissing(p, got) == mpForm[p].amount = "missing" /\ got = "approved"
TestPayment(p) == ~mpForm[p].live

(* _validate_payment_identity: the first reason it meets. *)
IdentityReason(p, got) ==
    IF AccountReason(p, got) # {} THEN AccountReason(p, got)
    ELSE IF AmountMissing(p, got) THEN {"no_amount"}
    ELSE IF TestPayment(p) THEN {"test_mode"}
    ELSE {}

(* _validate_payment_link: of the live link, which has a nonce, and of its *)
(* amount.                                                                 *)
LinkReason(p) ==
    IF mpForm[p].reference = "turn" THEN {"no_link"}
    ELSE IF mpForm[p].amount = "other" THEN {"amount"}
    ELSE {}

(* _es_evento_de_otro_pago: a settled charge hears only the payment that   *)
(* settled it.                                                             *)
OfAnotherPayment(p) == deposit.status # "pending" /\ deposit.by # p

(* The reasons, in the order of the code: identity, then a replaced link   *)
(* and another payment's events, which are only announced, then the link.  *)
Reason(p, got) ==
    IF IdentityReason(p, got) # {} THEN IdentityReason(p, got)
    ELSE IF mpForm[p].reference = "replaced" \/ OfAnotherPayment(p) THEN {}
    ELSE LinkReason(p)

(* _stamp_payment, along the graph of the charge. *)
Stamped(p, got) ==
    IF mpForm[p].reference = "replaced" \/ OfAnotherPayment(p) THEN deposit
    ELSE IF got = "approved" /\ deposit.status = "pending"
    THEN [status |-> "approved", by |-> p]
    ELSE IF got = "charged_back" /\ deposit.status = "approved"
    THEN [deposit EXCEPT !.status = "charged_back"]
    ELSE deposit


(* The key of the alert: the payment and the reason. *)
AlertKey(p, why) == <<p, why>>

(* alert_integrity_rejection with _primera_alerta: only an approved one,   *)
(* and once per key; the mark is written in a savepoint of its own after   *)
(* the refused one was rolled back.                                        *)
Alerts(p, got) ==
    IF got # "approved" THEN {}
    ELSE {<<p, why>> : why \in {w \in Reason(p, got) : AlertKey(p, w) \notin alertMarks}}

(* register_failure *)
RowFailed(row, p) ==
    [state |-> IF row.attempts + 1 >= MaxRowAttempts THEN "dropped" ELSE "waiting",
     of |-> p, attempts |-> row.attempts + 1]

(* _aplicar_y_anotar_en_el_inbox and its counterpart in the job: what is   *)
(* not applied stays, with its reason, for a retry.                        *)
ApplyAndNote(h) ==
    LET e == handler[h].event
        p == handler[h].of
        got == handler[h].got
        row == noteRow[e]
        applied == got # "none" /\ FindsCharge(p) /\ Reason(p, got) = {}
    IN  /\ handler[h].at = "verified"
        /\ handler' = [handler EXCEPT ![h] = IdleHandler]
        /\ IF row.state \in {"done", "dropped"}   \* already_processed
           THEN UNCHANGED <<noteRow, deposit, refused, alerted, alertMarks>>
           ELSE
             /\ noteRow' = [noteRow EXCEPT ![e] =
                  IF applied
                  THEN [state |-> "done", of |-> p, attempts |-> row.attempts]
                  ELSE RowFailed(row, p)]
             /\ deposit' = IF applied THEN Stamped(p, got) ELSE deposit
             /\ IF got # "none" /\ FindsCharge(p)
                THEN /\ refused' = refused \cup
                          {<<p, w>> : w \in IF got = "approved" THEN Reason(p, got)
                                            ELSE {}}
                     /\ alerted' = alerted \cup Alerts(p, got)
                     /\ alertMarks' = alertMarks \cup
                          {AlertKey(a[1], a[2]) : a \in Alerts(p, got)}
                ELSE UNCHANGED <<refused, alerted, alertMarks>>
        /\ UNCHANGED <<mpForm, mpStatus, genuine, notes>>

(* The request dies before its commit: the row and the mark go with it,    *)
(* the alert was sent.                                                     *)
HandlerDies(h) ==
    /\ handler[h].at = "verified"
    /\ handler' = [handler EXCEPT ![h] = IdleHandler]
    /\ \/ UNCHANGED alerted
       \/ /\ handler[h].got # "none"
          /\ FindsCharge(handler[h].of)
          /\ noteRow[handler[h].event].state \notin {"done", "dropped"}
          /\ alerted' = alerted \cup Alerts(handler[h].of, handler[h].got)
    /\ UNCHANGED <<mpForm, mpStatus, noteRow, deposit, genuine, refused,
                   alertMarks, notes>>

ReceiptNext ==
    \/ \E p \in MpPayments : PaymentMoves(p)
    \/ \E n \in NoteForms : NoteRejected(n)
    \/ \E e \in EventIds : JobAsks(e)
    \/ \E h \in Handlers :
         \/ ApplyAndNote(h) \/ HandlerDies(h)
         \/ \E n \in NoteForms : NoteArrives(h, n)

ReceiptSpec == ReceiptInit /\ [][ReceiptNext]_receiptVars

-----------------------------------------------------------------------------
(* The charge is settled only by a payment that a signed notification      *)
(* named, that Mercado Pago approved, in the store's account, with real    *)
(* money, through the live link and for its amount: whatever the body said *)
(* and however the event was retried from the inbox.                       *)
CreditIsGenuine ==
    deposit.status # "pending" =>
      /\ deposit.by \in genuine
      /\ mpStatus[deposit.by] # "pending"
      /\ mpForm[deposit.by] = [account |-> "store", amount |-> "link",
                               reference |-> "link", live |-> TRUE]

(* Money Mercado Pago approved and Shifty refused never goes unseen: by    *)
(* the time the refusal is committed somebody was alerted of that payment  *)
(* for that reason, also when an earlier alert was about another payment   *)
(* or another reason and when a request died half way.                     *)
RefusedIsAlerted == refused \subseteq alerted

(* A notification credits what Mercado Pago really collected for this      *)
(* charge, and what it collected and cannot be credited reaches a person.  *)
CreditIsEarned == CreditIsGenuine /\ RefusedIsAlerted

(* The id of the notification is the one that identifies its row: a later  *)
(* notification of the payment that settled the charge, once Mercado Pago  *)
(* answered that it was charged back, is read and not taken for the        *)
(* earlier one.                                                            *)
LaterStatusIsRead ==
    [][\A h \in Handlers :
         /\ ApplyAndNote(h)
         /\ handler[h].got = "charged_back"
         /\ noteRow[handler[h].event].state # "dropped"
         /\ deposit = [status |-> "approved", by |-> handler[h].of]
         => deposit'.status = "charged_back"]_receiptVars
=============================================================================
