--------------------------- MODULE Announcements ---------------------------
(***************************************************************************)
(* What a change to an appointment makes the client and the owner hear.    *)
(*                                                                         *)
(* A use case publishes an event in its own transaction.  A batch of the   *)
(* outbox takes the pending events, reads once the appointments they are   *)
(* about, turns each event into email.send rows and panel notices and      *)
(* commits; then it takes the email.send rows one by one, oldest first,    *)
(* and mails them.  Between the two reads, the commit and the mail, the    *)
(* panel goes on changing the appointment.                                 *)
(*                                                                         *)
(* The module follows one visit: moving it cancels its row and writes a    *)
(* new one, so the visit is a chain of rows and the row stands for the     *)
(* hour the mail shows.  Batches run from the beat, one at a time, and     *)
(* from the panel's endpoint, which takes no advisory lock.  The claims    *)
(* of the rows themselves are the subject of the module Outbox, the offers *)
(* of a released slot that of Waitlist.  The copies of a notice mailed to  *)
(* the administrators are left out.                                        *)
(***************************************************************************)
EXTENDS Naturals, Sequences, FiniteSets

CONSTANTS
    MaxMoves,      \* bound: rows of the visit
    MaxPlanTries,  \* WEBHOOK_INBOX_MAX_ATTEMPTS
    MaxFaults,     \* bound: events that fail, mails refused, runs that die
    OwnerEvents    \* the events for the owner, one of which is pending at the start

ASSUME AnnouncementBounds ==
    MaxMoves \in Nat \ {0} /\ MaxPlanTries \in Nat \ {0} /\ MaxFaults \in Nat

VARIABLES
    turn,      \* status of each row of the visit
    events,    \* pending events of the outbox, oldest first
    letters,   \* pending email.send rows, oldest first
    batch,     \* what each run of process_outbox_batch holds
    heard,     \* the last mail that reached the client
    news,      \* the last change of the visit the client is to be told
    missed,    \* a mail was lost: SMTP refused it, or its run died
    crossed,   \* the endpoint's run overlapped the beat's
    optedOut,  \* the client's MarketingOptOut
    autoMails, \* Store.send_email_reminders
    mpBroken,  \* PaymentGatewayConfig.connection_broken_at is set
    mailbox,   \* the client left a deliverable address
    begun,     \* the rows written for an hour gone by
    faults,    \* events that failed, mails refused and runs that died
    bell       \* the owner's event of this run and the panel notices it wrote

announcementVars == <<turn, events, letters, batch, heard, news, missed, crossed,
                      optedOut, autoMails, mpBroken, mailbox, begun, faults, bell>>
visitVars == <<optedOut, autoMails, mpBroken, mailbox>>

TurnRows == 1..MaxMoves
Dispatchers == {"beat", "endpoint"}
OpenTurn == {"pending", "pending_payment", "confirmed"}
TurnStates == OpenTurn \cup {"none", "completed", "absent", "cancelled", "expired"}
NoNews == [mail |-> "none", row |-> 0]

(* The owner's events that carry something the builders look at. *)
OwnerEventKinds ==
    [kind : {"payment.approved", "payment.refunded", "payment.charged_back",
             "payment.in_mediation", "payment.received_on_released_appointment",
             "appointment.cancelled_by_client", "subscription.expiring",
             "appointment.deposit_lapsed", "store.deposit_channel_lost",
             "store.mercadopago_connection_broken", "appointment.booked_online"},
     detail : {"none"}]
    \cup [kind : {"payment.received_on_replaced_link"},
          detail : {"live_link", "duplicate", "old_link"}]
    \cup [kind : {"payment.reversal_of_other_payment"},
          detail : {"charged_back", "in_mediation", "refunded", "other"}]
    \cup [kind : {"appointment.pending_confirmation"}, detail : {"whatsapp", "none"}]

ASSUME OwnerEventsAssumption == OwnerEvents \subseteq OwnerEventKinds

ClientEvents == {"booked_by_panel", "confirmed", "completed", "rescheduled",
                 "cancelled_by_block"}
IdleBatch == [at |-> "idle", seen |-> [r \in TurnRows |-> "none"],
              optedOut |-> FALSE, letter |-> NoNews]
NoOwnerEvent == [kind |-> "none", detail |-> "none"]

(* A row of the outbox; by is the run that holds its lock. *)
Event(kind, row) ==
    [kind |-> kind, row |-> row, detail |-> "none", tries |-> 0, by |-> "none"]
FromOwner(e) ==
    [kind |-> e.kind, row |-> 0, detail |-> e.detail, tries |-> 0, by |-> "none"]

EventRows ==
    [kind : ClientEvents \cup {"appointment.released"} \cup {e.kind : e \in OwnerEventKinds},
     row : 0..MaxMoves, detail : {e.detail : e \in OwnerEventKinds},
     tries : 0..(MaxPlanTries - 1), by : Dispatchers \cup {"none"}]
Letters == [mail : {"confirmation", "rebook", "reschedule", "cancellation"}, row : TurnRows]
Batches == [at : {"idle", "planning", "mailing"}, seen : [TurnRows -> TurnStates],
            optedOut : BOOLEAN, letter : Letters \cup {NoNews}]

AnnouncementsTypeOK ==
    /\ turn \in [TurnRows -> TurnStates]
    /\ events \in Seq(EventRows)
    /\ letters \in Seq(Letters)
    /\ batch \in [Dispatchers -> Batches]
    /\ {heard, news} \subseteq Letters \cup {NoNews}
    /\ bell \in [of : OwnerEvents \cup {NoOwnerEvent}, times : {0, 1}]
    /\ begun \subseteq TurnRows
    /\ faults \in 0..MaxFaults
    /\ {missed, crossed, optedOut, autoMails, mpBroken, mailbox} \subseteq BOOLEAN

AnnouncementsInit ==
    /\ \E e \in OwnerEvents \cup {NoOwnerEvent} :
         /\ \E s \in IF e = NoOwnerEvent THEN {"none", "pending", "pending_payment"}
                     ELSE {"cancelled"} :
              turn = [r \in TurnRows |-> IF r = 1 THEN s ELSE "none"]
         /\ bell = [of |-> e, times |-> 0]
         /\ events = IF e = NoOwnerEvent THEN <<>> ELSE <<FromOwner(e)>>
         /\ mpBroken = (e.kind = "store.mercadopago_connection_broken")
    /\ begun = {}
    /\ faults = 0
    /\ letters = <<>>
    /\ batch = [d \in Dispatchers |-> IdleBatch]
    /\ heard = NoNews
    /\ news = NoNews
    /\ missed = FALSE
    /\ crossed = FALSE
    /\ optedOut = FALSE
    /\ autoMails \in BOOLEAN
    /\ mailbox \in BOOLEAN

-----------------------------------------------------------------------------
(* The panel.  Each use case changes the row under its lock and publishes  *)
(* in the same transaction; news is what the client should end up knowing. *)

Current(r) == turn[r] # "none" /\ (r < MaxMoves => turn[r + 1] = "none")
Publish(es, told) ==
    /\ events' = events \o es
    /\ news' = told
    /\ UNCHANGED <<letters, batch, heard, missed, crossed, visitVars, faults, bell>>

(* AppointmentService.book: pending, the client is always written to. *)
BookOwn ==
    /\ turn[1] = "none"
    /\ turn' = [turn EXCEPT ![1] = "pending"]
    /\ UNCHANGED begun
    /\ Publish(<<Event("booked_by_panel", 1)>>, [mail |-> "confirmation", row |-> 1])

(* book_for_client: confirmed; a booking without a deliverable address, or *)
(* of an hour gone by, is not announced.                                   *)
BookForClient(past) ==
    /\ turn[1] = "none"
    /\ turn' = [turn EXCEPT ![1] = "confirmed"]
    /\ begun' = IF past THEN {1} ELSE {}
    /\ IF mailbox /\ ~past
       THEN Publish(<<Event("booked_by_panel", 1)>>,
                    [mail |-> "confirmation", row |-> 1])
       ELSE Publish(<<>>, NoNews)

(* AppointmentService.confirm: a deposit still payable forbids it. *)
ConfirmTurn(r) ==
    /\ Current(r)
    /\ turn[r] = "pending"
    /\ turn' = [turn EXCEPT ![r] = "confirmed"]
    /\ UNCHANGED begun
    /\ Publish(<<Event("confirmed", r)>>, [mail |-> "confirmation", row |-> r])

(* The deposit is registered by hand: _publish_confirmed_mail, silent for  *)
(* an hour gone by.                                                        *)
DepositConfirms(r) ==
    /\ Current(r)
    /\ turn[r] = "pending_payment"
    /\ turn' = [turn EXCEPT ![r] = "confirmed"]
    /\ UNCHANGED begun
    /\ IF r \in begun THEN Publish(<<>>, NoNews)
       ELSE Publish(<<Event("confirmed", r)>>, [mail |-> "confirmation", row |-> r])

(* The deposit is approved by Mercado Pago: the owner's event also writes  *)
(* to the client.                                                          *)
DepositApproved(r) ==
    /\ Current(r)
    /\ turn[r] = "pending_payment"
    /\ turn' = [turn EXCEPT ![r] = "confirmed"]
    /\ UNCHANGED begun
    /\ Publish(<<Event("payment.approved", r)>>, [mail |-> "confirmation", row |-> r])

(* AppointmentService.complete. The invitation to come back is promotional *)
(* and may be withheld.                                                    *)
CompleteTurn(r) ==
    /\ Current(r)
    /\ turn[r] = "confirmed"
    /\ turn' = [turn EXCEPT ![r] = "completed"]
    /\ UNCHANGED begun
    /\ Publish(<<Event("completed", r)>>, NoNews)

MarkAbsent(r) ==
    /\ Current(r)
    /\ turn[r] = "confirmed"
    /\ turn' = [turn EXCEPT ![r] = "absent"]
    /\ UNCHANGED begun
    /\ Publish(<<>>, NoNews)

(* release_pending: its event has no branch in the batch. *)
ReleaseTurn(r) ==
    /\ Current(r)
    /\ turn[r] \in {"pending", "pending_payment"}
    /\ turn' = [turn EXCEPT ![r] = "expired"]
    /\ UNCHANGED begun
    /\ Publish(<<Event("appointment.released", r)>>, NoNews)

(* cancel: nothing is published for the client. *)
CancelTurn(r) ==
    /\ Current(r)
    /\ turn[r] \in OpenTurn
    /\ r \notin begun
    /\ turn' = [turn EXCEPT ![r] = "cancelled"]
    /\ UNCHANGED begun
    /\ Publish(<<>>, NoNews)

(* bulk_cancel and a block of the agenda: _publish_cancellation_mail. *)
BulkCancelTurn(r) ==
    /\ Current(r)
    /\ turn[r] \in OpenTurn
    /\ r \notin begun
    /\ turn' = [turn EXCEPT ![r] = "cancelled"]
    /\ UNCHANGED begun
    /\ IF mailbox
       THEN Publish(<<Event("cancelled_by_block", r)>>,
                    [mail |-> "cancellation", row |-> r])
       ELSE Publish(<<>>, NoNews)

(* reschedule: the row is cancelled and its copy keeps the state. *)
RescheduleTurn(r, past) ==
    /\ r < MaxMoves
    /\ Current(r)
    /\ turn[r] \in OpenTurn \ {"pending_payment"}
    /\ turn' = [turn EXCEPT ![r] = "cancelled", ![r + 1] = turn[r]]
    /\ begun' = IF past THEN begun \cup {r + 1} ELSE begun
    /\ IF past THEN Publish(<<>>, NoNews)
       ELSE Publish(<<Event("rescheduled", r + 1)>>,
                    [mail |-> "reschedule", row |-> r + 1])

(* The signed link of an earlier invitation: valid for ninety days. *)
LinkRead(link) == link = "live"

(* MarketingOptOutService.opt_out: idempotent. *)
OptOut(link) ==
    /\ LinkRead(link)
    /\ ~optedOut
    /\ optedOut' = TRUE
    /\ UNCHANGED <<turn, events, letters, batch, heard, news, missed, crossed,
                   autoMails, mpBroken, mailbox, begun, faults, bell>>

(* The connection is renewed after all, or the owner reconnects. *)
Reconnect ==
    /\ mpBroken
    /\ mpBroken' = FALSE
    /\ UNCHANGED <<turn, events, letters, batch, heard, news, missed, crossed,
                   optedOut, autoMails, mailbox, begun, faults, bell>>

-----------------------------------------------------------------------------
(* What the batch makes of an event. *)

(* _MAILS_DEL_PANEL: the mail and the states that keep it true. *)
PanelMail(kind) ==
    CASE kind = "booked_by_panel" -> [mail |-> "confirmation", while |-> OpenTurn]
      [] kind = "confirmed" -> [mail |-> "confirmation", while |-> {"confirmed"}]
      [] kind = "completed" -> [mail |-> "rebook", while |-> {"completed"}]
      [] kind = "rescheduled" -> [mail |-> "reschedule", while |-> OpenTurn]

(* build_client_details: the mail shows the hour of its row. *)
ClientDetails(mail, row) == [mail |-> mail, row |-> row]

(* Promotional: the store's switch and the client's opt-out withhold it. *)
MayInvite(b) == autoMails /\ ~b.optedOut

(* _panel_client_mail, with the row as the batch read it. *)
PanelClientMail(b, e) ==
    IF /\ b.seen[e.row] \in PanelMail(e.kind).while
       /\ PanelMail(e.kind).mail = "rebook" => MayInvite(b)
    THEN {ClientDetails(PanelMail(e.kind).mail, e.row)}
    ELSE {}

(* _client_confirmation_mail: the deposit that was credited. *)
ClientConfirmation(b, e) ==
    IF e.row # 0 /\ b.seen[e.row] = "confirmed"
    THEN {ClientDetails("confirmation", e.row)} ELSE {}

(* The notice each builder writes for the panel, by its title. *)
ReplacedLinkNotice(e) ==
    IF e.kind # "payment.received_on_replaced_link" THEN {}
    ELSE {IF e.detail \in {"live_link", "duplicate"}
          THEN "duplicated payment" ELSE "payment on a replaced link"}

OtherPaymentNotice(e) ==
    IF e.kind # "payment.reversal_of_other_payment" THEN {}
    ELSE {CASE e.detail = "charged_back" -> "chargeback"
            [] e.detail = "in_mediation" -> "dispute"
            [] e.detail = "refunded" -> "refund"
            [] OTHER -> "movement"}

DepositNotice(e) ==
    CASE e.kind = "appointment.deposit_lapsed" -> {"released for its deposit"}
      [] e.kind = "store.deposit_channel_lost" -> {"nobody can pay"}
      [] e.kind = "store.mercadopago_connection_broken" -> {"reconnect"}
      [] OTHER -> {}

BookedOnlineNotice(e) ==
    IF e.kind = "appointment.booked_online" THEN {"new booking"} ELSE {}

PendingConfirmationNotice(e) ==
    {IF e.detail = "whatsapp" THEN "deposit pending on WhatsApp"
     ELSE "appointment to confirm"}

StoreNotice(e) ==
    CASE e.kind = "appointment.pending_confirmation" -> PendingConfirmationNotice(e)
      [] e.kind = "appointment.cancelled_by_client" -> {"client cancelled"}
      [] e.kind = "subscription.expiring" -> {"subscription expires"}
      [] e.kind = "payment.approved" -> {"deposit credited"}
      [] e.kind = "payment.refunded" -> {"refund recorded"}
      [] e.kind = "payment.charged_back" -> {"chargeback"}
      [] e.kind = "payment.in_mediation" -> {"dispute"}
      [] e.kind = "payment.received_on_released_appointment" -> {"paid after release"}
      [] OTHER -> {}


(* The builders are tried in turn; the first that answers wins, and no two *)
(* of them answer the same event.                                          *)
OwnerNotice(e) ==
    ReplacedLinkNotice(e) \cup OtherPaymentNotice(e) \cup DepositNotice(e)
        \cup BookedOnlineNotice(e) \cup StoreNotice(e)

(* _connection_still_broken, read when the event is planned. *)
StillTrue(e) == e.kind = "store.mercadopago_connection_broken" => mpBroken

(* _plan_outbox_message, the mails for the client. *)
PlannedMails(b, e) ==
    CASE e.kind = "cancelled_by_block" -> {ClientDetails("cancellation", e.row)}
      [] e.kind \in ClientEvents \ {"cancelled_by_block"} -> PanelClientMail(b, e)
      [] e.kind = "payment.approved" -> ClientConfirmation(b, e)
      [] OTHER -> {}

-----------------------------------------------------------------------------
(* The set of at most one mail, as the rows _persistir_mails writes. *)
AsRows(mails) == IF mails = {} THEN <<>> ELSE <<CHOOSE m \in mails : TRUE>>

Busy(d) == batch[d].at # "idle"

(* process_outbox_batch takes every pending event nobody has locked (SKIP  *)
(* LOCKED) and _contexto_del_lote reads their appointments once.  The      *)
(* beat's run has the advisory lock; the endpoint's asks for none.         *)
Other(d) == IF d = "beat" THEN "endpoint" ELSE "beat"

(* _contexto_del_lote: the appointments and the opt-outs, read once. *)
BatchContext == [seen |-> turn, optedOut |-> optedOut]

BatchReads(d) ==
    /\ ~Busy(d)
    /\ events # <<>> \/ letters # <<>>
    /\ events' = [i \in DOMAIN events |->
         IF events[i].by = "none" THEN [events[i] EXCEPT !.by = d] ELSE events[i]]
    /\ batch' = [batch EXCEPT ![d] =
         [at |-> "planning", letter |-> NoNews,
          seen |-> BatchContext.seen, optedOut |-> BatchContext.optedOut]]
    /\ crossed' = (crossed \/ Busy(Other(d)))
    /\ UNCHANGED <<turn, letters, heard, news, missed, visitVars, begun, faults, bell>>

(* Mutant: an event that failed is closed with the rest of its batch.      *)
AfterBatchClosesAll(d, good) == SelectSeq(events, LAMBDA e : e.by # d)

(* One sequence after another. *)
Joined(pieces) ==
    LET join[i \in 0..Len(pieces)] ==
          IF i = 0 THEN <<>> ELSE join[i - 1] \o pieces[i]
    IN  join[Len(pieces)]

(* The rows a run holds, and what it leaves of the outbox: good are the    *)
(* events it planned, the others keep an attempt more, while they may.     *)
Taken(d) == {i \in DOMAIN events : events[i].by = d}
GivenUp(i) == events[i].tries + 1 >= MaxPlanTries
AfterBatch(d, good) ==
    Joined([i \in DOMAIN events |->
        IF i \notin Taken(d) THEN <<events[i]>>
        ELSE IF i \in good \/ GivenUp(i) THEN <<>>
        ELSE <<[events[i] EXCEPT !.tries = @ + 1, !.by = "none"]>>])

(* _persistir_mails, in the order of the batch. *)
PlannedRows(b, good) ==
    Joined([i \in DOMAIN events |->
        IF i \in good THEN AsRows(PlannedMails(b, events[i])) ELSE <<>>])

(* _plan_lote and the commit: each event in a savepoint of its own.  The   *)
(* notice of the owner's event is written in the same savepoint.           *)
BatchCommits(d, good) ==
    LET told == {i \in good : /\ events[i].kind = bell.of.kind
                             /\ events[i].row = 0
                             /\ StillTrue(events[i])
                             /\ OwnerNotice(events[i]) # {}}
    IN  /\ batch[d].at = "planning"
        /\ events' = AfterBatch(d, good)
        /\ letters' = letters \o PlannedRows(batch[d], good)
        /\ bell' = [bell EXCEPT !.times = @ + Cardinality(told)]
        /\ missed' = (missed \/ \E i \in Taken(d) \ good : GivenUp(i))
        /\ faults' = faults + Cardinality(Taken(d) \ good)
        /\ faults' <= MaxFaults
        /\ batch' = [batch EXCEPT ![d].at = "mailing"]
        /\ UNCHANGED <<turn, heard, news, crossed, visitVars, begun>>

(* _claim_next_email: processed_at is committed before the mail goes out. *)
ClaimNextEmail(d) ==
    /\ batch[d].at = "mailing"
    /\ batch[d].letter = NoNews
    /\ letters # <<>>
    /\ batch' = [batch EXCEPT ![d].letter = Head(letters)]
    /\ letters' = Tail(letters)
    /\ UNCHANGED <<turn, events, heard, news, missed, crossed, visitVars, begun, faults, bell>>

(* The send_x_email functions: nothing is tried without a deliverable      *)
(* address, and no error gets out of them.                                 *)
SendOutcome(ok) == IF ~mailbox THEN "skipped" ELSE IF ok THEN "sent" ELSE "failed"

(* _send_one_pending_email: a failed mail is noted and never retried. *)
SendLetter(d, ok) ==
    /\ batch[d].letter # NoNews
    /\ heard' = IF SendOutcome(ok) = "sent" THEN batch[d].letter ELSE heard
    /\ missed' = (missed \/ SendOutcome(ok) = "failed")
    /\ faults' = IF ok THEN faults ELSE faults + 1
    /\ faults' <= MaxFaults
    /\ batch' = [batch EXCEPT ![d].letter = NoNews]
    /\ UNCHANGED <<turn, events, letters, news, crossed, visitVars, begun, bell>>

(* The queue is empty, or OUTBOX_EMAIL_BUDGET_SECONDS are spent: what is   *)
(* left waits for the next run.                                            *)
DispatchEnds(d) ==
    /\ batch[d].at = "mailing"
    /\ batch[d].letter = NoNews
    /\ batch' = [batch EXCEPT ![d] = IdleBatch]
    /\ UNCHANGED <<turn, events, letters, heard, news, missed, crossed, visitVars, begun, faults, bell>>

(* The time limit or the process: a batch rolls back, a mail taken is lost. *)
BatchDies(d) ==
    /\ Busy(d)
    /\ faults < MaxFaults
    /\ faults' = faults + 1
    /\ missed' = (missed \/ batch[d].letter # NoNews)
    /\ batch' = [batch EXCEPT ![d] = IdleBatch]
    /\ events' = [i \in DOMAIN events |->
         IF i \in Taken(d) THEN [events[i] EXCEPT !.by = "none"] ELSE events[i]]
    /\ UNCHANGED <<turn, letters, heard, news, crossed, visitVars, begun, bell>>

AnnouncementsNext ==
    \/ BookOwn
    \/ \E past \in BOOLEAN : BookForClient(past)
    \/ \E r \in TurnRows :
         \/ ConfirmTurn(r) \/ DepositApproved(r) \/ CompleteTurn(r)
         \/ MarkAbsent(r) \/ ReleaseTurn(r) \/ CancelTurn(r) \/ BulkCancelTurn(r)
         \/ DepositConfirms(r)
         \/ \E past \in BOOLEAN : RescheduleTurn(r, past)
    \/ \E link \in {"live", "expired"} : OptOut(link)
    \/ Reconnect
    \/ \E d \in Dispatchers :
         \/ BatchReads(d) \/ ClaimNextEmail(d) \/ DispatchEnds(d) \/ BatchDies(d)
         \/ \E good \in SUBSET Taken(d) : BatchCommits(d, good)
         \/ \E ok \in BOOLEAN : SendLetter(d, ok)

AnnouncementsSpec == AnnouncementsInit /\ [][AnnouncementsNext]_announcementVars

-----------------------------------------------------------------------------
AllQuiet ==
    /\ events = <<>>
    /\ letters = <<>>
    /\ \A d \in Dispatchers : ~Busy(d)

(* What a mail makes the client believe: the hour, and whether he has it. *)
Belief(m) == [row |-> m.row, stands |-> m.mail # "cancellation"]

(* Once everything was planned and mailed, the last mail the client got    *)
(* says what the last change he is to know says: the hour the visit was    *)
(* moved to, or that the store cancelled it.  A batch that read the visit  *)
(* before the change, an event that failed and was planned late and a run  *)
(* that died before its commit may not leave him with older news.  Two     *)
(* things are excepted: a mail that was lost, which the code never         *)
(* repeats, and two runs at once.                                          *)
LastMailIsNews ==
    AllQuiet /\ mailbox /\ ~missed /\ ~crossed /\ news # NoNews
      => heard # NoNews /\ Belief(heard) = Belief(news)

(* An event for the owner leaves the outbox with its notice in the panel,  *)
(* exactly one, however often a batch failed on it, died or overlapped     *)
(* another; only a connection that works again is not announced.           *)
OwnerIsTold ==
    bell.of # NoOwnerEvent =>
      /\ bell.times <= 1
      /\ \/ bell.times = 1
         \/ missed
         \/ \E i \in DOMAIN events : events[i].kind = bell.of.kind /\ events[i].row = 0
         \/ bell.of.kind = "store.mercadopago_connection_broken" /\ ~mpBroken

(* Whoever had to hear of a change heard of it as it stands now: the client by mail, the   *)
(* owner by one notice.                                                                    *)
EveryoneIsTold == LastMailIsNews /\ OwnerIsTold
=============================================================================
