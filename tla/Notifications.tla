---------------------------- MODULE Notifications ----------------------------
(* Mail to the client (modules/notifications): the reminders of 24 and 2     *)
(* hours, sent by a job that reads a page of appointments per stage, claims   *)
(* a mark on the row, and talks to the SMTP server; and the mails of a        *)
(* booking, queued by the request and sent by a worker that reads the         *)
(* appointment again. Two runs of the job may overlap.                        *)
(*                                                                            *)
(* Time is counted in steps of the leads; a run keeps the time it started.     *)
EXTENDS Naturals, FiniteSets, Sequences

CONSTANTS Bookings,       \* appointments, numbered: the order of their ids
          ReminderRuns,   \* runs of process_appointment_reminders
          Lead24, Floor24, Lead2, Floor2,
          BatchLimit,     \* REMINDER_BATCH_LIMIT
          BookingInputs,      \* <<appointment, status it is booked with, recipient>>
          ReminderStarts,     \* hours at which an appointment may start
          ReminderHorizon,    \* bound: how far the clock goes
          MaxLostAnswers,     \* bound: sends whose answer never arrives
          MaxReminderRuns,    \* bound: runs the beat starts
          MaxQueuedMails      \* bound: mails of bookings waiting at once

Stages == {"24h", "2h"}
RemindedStatuses == {"pending", "pending_payment", "confirmed"}
(* is_deliverable_email, and Store.send_email_reminders *)
Recipients == {"mailbox", "technical", "off"}

ASSUME ReminderLeads == /\ BookingInputs \subseteq Bookings \X RemindedStatuses \X Recipients
                        /\ {Floor2, Lead2, Floor24, Lead24} \subseteq Nat
                        /\ Floor2 < Lead2 /\ Lead2 < Floor24 /\ Floor24 < Lead24
                        /\ ReminderStarts \subseteq Nat /\ ReminderHorizon \in Nat
                        /\ BatchLimit \in Nat \ {0}

VARIABLES hour,        \* the clock
          booking,     \* per appointment: status, start, created, wants, deliverable
          mark,        \* reminder_24h_sent_at / reminder_2h_sent_at: NULL or not
          started,     \* runs started so far
          reminder,    \* per run: where it is, its now, its stage, rows, the one claimed, locks
          bookingMail, \* mails of the booking queued in the broker or being sent
          delivered,   \* history: times at which each stage reached the client
          unanswered,  \* history: deliveries the server never acknowledged
          passedOver   \* history: appointments a page left out for rows that need no mail

notifyVars == <<hour, booking, mark, started, reminder, bookingMail, delivered, unanswered,
                passedOver>>

Unbooked == [status |-> "none", start |-> 0, created |-> 0, wants |-> TRUE, deliverable |-> TRUE]
NoBooking == 0
IdleRun == [at |-> "idle", now |-> 0, stage |-> "2h", rows |-> {}, claimed |-> NoBooking,
            locks |-> {}]

BookingRows == [status : RemindedStatuses \cup {"none", "cancelled"}, start : Nat, created : Nat,
                wants : BOOLEAN, deliverable : BOOLEAN]
ReminderStates == [at : {"idle", "reading", "page", "claimed"}, now : Nat, stage : Stages,
                   rows : SUBSET Bookings, claimed : Bookings \cup {NoBooking},
                   locks : SUBSET Bookings]

NotificationsTypeOK ==
    /\ hour \in 0..ReminderHorizon
    /\ booking \in [Bookings -> BookingRows]
    /\ mark \in [Bookings -> [Stages -> BOOLEAN]]
    /\ reminder \in [ReminderRuns -> ReminderStates]
    /\ delivered \in [Bookings -> [Stages -> Seq(Nat)]]
    /\ unanswered \in [Bookings -> [Stages -> Nat]]

NotificationsInit ==
    /\ hour = 0
    /\ booking = [b \in Bookings |-> Unbooked]
    /\ mark = [b \in Bookings |-> [s \in Stages |-> FALSE]]
    /\ started = 0
    /\ reminder = [r \in ReminderRuns |-> IdleRun]
    /\ bookingMail = {}
    /\ delivered = [b \in Bookings |-> [s \in Stages |-> <<>>]]
    /\ unanswered = [b \in Bookings |-> [s \in Stages |-> 0]]
    /\ passedOver = {}

-----------------------------------------------------------------------------
(* ReminderStage.lead and .floor. *)
Lead(s) == IF s = "24h" THEN Lead24 ELSE Lead2
Floor(s) == IF s = "24h" THEN Floor24 ELSE Floor2

(* stage_is_due, without the mark: late enough, not too late, and booked       *)
(* before the moment of the reminder.                                          *)
StageIsDue(b, s, now) ==
    /\ booking[b].start > now + Floor(s)
    /\ booking[b].start <= now + Lead(s)
    /\ booking[b].created + Lead(s) <= booking[b].start

(* The job skips the stores that turned reminders off. *)
Sendable(b, s, now) == StageIsDue(b, s, now) /\ booking[b].wants /\ ~mark[b][s]

(* _reminder_windows and get_upcoming_for_reminders: active appointments of    *)
(* the window that lack the mark of THIS stage, the nearest first.             *)

InWindow(b, s, now) ==
    /\ booking[b].status \in RemindedStatuses
    /\ booking[b].start >= now + Floor(s)
    /\ booking[b].start <= now + Lead(s)
Pending(s, now) == {b \in Bookings : InWindow(b, s, now) /\ ~mark[b][s]}

Before(b, c) == \/ booking[b].start < booking[c].start
                \/ booking[b].start = booking[c].start /\ b < c
Rank(b, bs) == 1 + Cardinality({c \in bs : Before(c, b)})
Page(bs) == {b \in bs : Rank(b, bs) <= BatchLimit}
FirstOf(b, bs) == b \in bs /\ \A c \in bs \ {b} : Before(b, c)

(* FOR UPDATE SKIP LOCKED: the rows of a page stay locked until the first claim *)
(* of the run commits.                                                         *)
LockedByRuns(rs) == UNION {reminder[r].locks : r \in rs}

-----------------------------------------------------------------------------
(* The agenda the job reads: book, confirm, cancel. The request queues the     *)
(* mail of the booking; a broker that is down loses it.                        *)
BookFor(b, start, status, p, enqueued) ==
    /\ booking[b].status = "none"
    /\ start > hour
    /\ enqueued => Cardinality(bookingMail) < MaxQueuedMails
    /\ booking' = [booking EXCEPT ![b] = [status |-> status, start |-> start, created |-> hour,
                                          wants |-> p # "off", deliverable |-> p # "technical"]]
    /\ bookingMail' = IF enqueued
                      THEN bookingMail \cup {[of |-> b, at |-> "queued",
                              kind |-> IF status = "confirmed" THEN "confirmation" ELSE "registration"]}
                      ELSE bookingMail
    /\ UNCHANGED <<hour, started, mark, reminder, delivered, unanswered, passedOver>>

CancelBooking(b) ==
    /\ booking[b].status \in RemindedStatuses
    /\ b \notin LockedByRuns(ReminderRuns)
    /\ booking' = [booking EXCEPT ![b].status = "cancelled"]
    /\ UNCHANGED <<hour, started, mark, reminder, bookingMail, delivered, unanswered, passedOver>>

(* deliver_booking_email: read the appointment again, decide, send once. The   *)
(* confirmation goes only to a confirmed one, the registration not to a closed *)
(* one; a failed send is not tried again.                                      *)
StillApplies(m) ==
    IF m.kind = "confirmation" THEN booking[m.of].status = "confirmed"
    ELSE booking[m.of].status # "cancelled"
LoadBookingMail(m) ==
    /\ m.at = "queued"
    /\ bookingMail' = (bookingMail \ {m}) \cup
                      (IF StillApplies(m) /\ booking[m.of].deliverable
                       THEN {[m EXCEPT !.at = "loaded"]} ELSE {})
    /\ UNCHANGED <<hour, started, booking, mark, reminder, delivered, unanswered, passedOver>>
SendBookingMail(m) ==
    /\ m.at = "loaded"
    /\ bookingMail' = bookingMail \ {m}
    /\ UNCHANGED <<hour, started, booking, mark, reminder, delivered, unanswered, passedOver>>

-----------------------------------------------------------------------------
(* process_due_appointment_reminders: the 2 h window first. *)
StartReminders(r) ==
    /\ reminder[r].at = "idle"
    /\ started < MaxReminderRuns
    /\ started' = started + 1
    /\ reminder' = [reminder EXCEPT ![r] = [IdleRun EXCEPT !.at = "reading", !.now = hour]]
    /\ UNCHANGED <<hour, booking, mark, bookingMail, delivered, unanswered, passedOver>>

ReadWindow(r) ==
    LET s == reminder[r].stage
        now == reminder[r].now
        free == Pending(s, now) \ LockedByRuns(ReminderRuns \ {r})
        page == Page(free)
        owed == Page({b \in free : Sendable(b, s, now)})
    IN
    /\ reminder[r].at = "reading"
    /\ reminder' = [reminder EXCEPT ![r].at = "page", ![r].rows = page,
                                        ![r].locks = @ \cup page]
    /\ passedOver' = passedOver \cup (owed \ page)
    /\ UNCHANGED <<hour, started, booking, mark, bookingMail, delivered, unanswered>>

NextWindow(r) ==
    /\ reminder[r].at = "page"
    /\ reminder[r].rows = {}
    /\ reminder' = [reminder EXCEPT ![r] =
          IF reminder[r].stage = "2h"
          THEN [reminder[r] EXCEPT !.at = "reading", !.stage = "24h"] ELSE IdleRun]
    /\ UNCHANGED <<hour, started, booking, mark, bookingMail, delivered, unanswered, passedOver>>

(* claim_reminder: UPDATE ... WHERE col IS NULL, committed on its own.         *)
(* Plausible bug: the mark the run read is taken for the current one.           *)
ClaimAsRead(b, s) == TRUE
ClaimIsFree(b, s) == ~mark[b][s]

(* _process_reminder_window, one row: due by what the page read, a store that  *)
(* wants reminders, and the claim. A client without a deliverable mailbox      *)
(* keeps the mark, with no mail.                                               *)
ExamineRow(r, b) ==
    LET s == reminder[r].stage
        tries == StageIsDue(b, s, reminder[r].now) /\ booking[b].wants
        claims == tries /\ ClaimIsFree(b, s)
        sends == claims /\ booking[b].deliverable
    IN
    /\ reminder[r].at = "page"
    /\ FirstOf(b, reminder[r].rows)
    /\ tries => b \notin LockedByRuns(ReminderRuns \ {r})
    /\ mark' = IF claims THEN [mark EXCEPT ![b][s] = TRUE] ELSE mark
    /\ reminder' = [reminder EXCEPT ![r].at = IF sends THEN "claimed" ELSE @,
                                    ![r].claimed = IF sends THEN b ELSE @,
                                    ![r].rows = @ \ {b},
                                    ![r].locks = IF tries THEN {} ELSE @]
    /\ UNCHANGED <<hour, started, booking, bookingMail, delivered, unanswered, passedOver>>

(* SmtpSession.send: a reused connection is probed and replaced if it died; the *)
(* send itself is never repeated. Its outcomes: accepted; refused with a reply; *)
(* no answer, with the message taken or not.                                    *)
MailOutcomes == {[taken |-> TRUE,  acked |-> TRUE],
                 [taken |-> FALSE, acked |-> FALSE],
                 [taken |-> TRUE,  acked |-> FALSE]}

LostAnswers == Cardinality({x \in Bookings \X Stages : unanswered[x[1]][x[2]] > 0})

(* _dispatch_reminder after the claim: notify_client_reminder raises when send  *)
(* answers False, and the claim is released (release_reminder).                 *)
SendReminder(r, outcome) ==
    LET b == reminder[r].claimed
        s == reminder[r].stage
    IN
    /\ reminder[r].at = "claimed"
    /\ outcome.taken /\ ~outcome.acked => LostAnswers < MaxLostAnswers
    /\ delivered' = IF outcome.taken THEN [delivered EXCEPT ![b][s] = Append(@, hour)] ELSE delivered
    /\ unanswered' = IF outcome.taken /\ ~outcome.acked
                     THEN [unanswered EXCEPT ![b][s] = @ + 1] ELSE unanswered
    /\ mark' = IF outcome.acked THEN mark ELSE [mark EXCEPT ![b][s] = FALSE]
    /\ reminder' = [reminder EXCEPT ![r].at = "page", ![r].claimed = NoBooking]
    /\ UNCHANGED <<hour, started, booking, bookingMail, passedOver>>

(* The time budget runs out between two rows; or the soft limit of Celery cuts  *)
(* the run anywhere, and a claim it held stays without a mail.                  *)
RunCut(r) ==
    /\ reminder[r].at # "idle"
    /\ reminder' = [reminder EXCEPT ![r] = IdleRun]
    /\ UNCHANGED <<hour, started, booking, mark, bookingMail, delivered, unanswered, passedOver>>

(* A run lasts minutes and the beat comes every 15: it sees the hour change at  *)
(* most once.                                                                   *)
HourPasses ==
    /\ hour < ReminderHorizon
    /\ \A r \in ReminderRuns : reminder[r].at # "idle" => reminder[r].now = hour
    /\ hour' = hour + 1
    /\ UNCHANGED <<started, booking, mark, reminder, bookingMail, delivered, unanswered, passedOver>>

NotificationsNext ==
    \/ \E i \in BookingInputs, start \in ReminderStarts, enqueued \in BOOLEAN :
          BookFor(i[1], start, i[2], i[3], enqueued)
    \/ \E b \in Bookings : CancelBooking(b)
    \/ \E m \in bookingMail : LoadBookingMail(m) \/ SendBookingMail(m)
    \/ \E r \in ReminderRuns :
          \/ StartReminders(r) \/ ReadWindow(r) \/ NextWindow(r) \/ RunCut(r)
          \/ \E b \in Bookings : ExamineRow(r, b)
    \/ \E r \in ReminderRuns, o \in MailOutcomes : SendReminder(r, o)
    \/ HourPasses

NotificationsSpec == NotificationsInit /\ [][NotificationsNext]_notifyVars

-----------------------------------------------------------------------------
(* Overlapping runs, cuts and retries never send a stage twice, except when the *)
(* server took a message and its answer was lost: claim_reminder's "con varios  *)
(* workers solo uno ve rowcount 1".                                             *)
OneMailPerStage ==
    \A b \in Bookings, s \in Stages :
        Len(delivered[b][s]) <= 1 + unanswered[b][s]

(* However late the job comes back, the client does not get both reminders one  *)
(* right after the other (reminders.py, _PISO_24H).                              *)
NotBothAtOnce ==
    \A b \in Bookings :
        \A i \in DOMAIN delivered[b]["24h"], j \in DOMAIN delivered[b]["2h"] :
            delivered[b]["24h"][i] < delivered[b]["2h"][j]

(* Each reminder goes out once and in its place, whatever runs overlap and however   *)
(* late one of them is.                                                              *)
RemindersHold == OneMailPerStage /\ NotBothAtOnce

(* A stage that failed because its answer was lost is sent again: the docstring  *)
(* of SmtpSession says that resending it is what must not happen.                *)
OneMailEver == \A b \in Bookings, s \in Stages : Len(delivered[b][s]) <= 1

(* "Ventana de UNA etapa: el tope corta sobre filas que hay que mandar": no due   *)
(* reminder is left out of a page because of rows that need no mail.              *)
LimitCutsSendable == passedOver = {}
=============================================================================
