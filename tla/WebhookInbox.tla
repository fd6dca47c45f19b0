---------------------------- MODULE WebhookInbox ----------------------------
(***************************************************************************)
(* The inbox of Mercado Pago's notifications (WebhookInbox) with the two   *)
(* that write it:                                                          *)
(*                                                                         *)
(*  - the HTTP handler (payments/router.py): it asks Mercado Pago for the  *)
(*    payment with no transaction open, reads the row without a lock and   *)
(*    writes it at commit;                                                 *)
(*  - the retry job (payments/jobs.py): phase A asks about the waiting     *)
(*    rows without a lock, phase B locks the rows it asked about.          *)
(*                                                                         *)
(* A notification only says that the payment changed: what is applied is   *)
(* what Mercado Pago answers.  The statuses of the payment are numbered in *)
(* the order in which it goes through them.  What applying one does to the *)
(* charge is the module Charge.                                            *)
(*                                                                         *)
(* Every notification brings its own id.  (Without one the handler falls   *)
(* back to the id of the payment, and a later notification of the same     *)
(* payment is answered as already processed.)                              *)
(***************************************************************************)
EXTENDS Naturals, FiniteSets

CONSTANTS
    Notes,          \* the notifications of one payment, by event id
    Requests,       \* HTTP deliveries that may run at the same time
    MaxAttempts,    \* WEBHOOK_INBOX_MAX_ATTEMPTS
    MaxDeliveries,  \* bound: how often Mercado Pago delivers a notification
    None            \* no notification

ASSUME InboxAssumption ==
    /\ MaxAttempts \in Nat \ {0}
    /\ MaxDeliveries \in Nat
    /\ None \notin Notes
    /\ IsFiniteSet(Notes)

VARIABLES
    version,    \* how many statuses the payment has gone through
    sent,       \* the status each notification is about, 0 before it exists
    delivered,  \* how often it was delivered
    inbox,      \* its row: "done" and "dropped" have processed_at
    attempts,   \* WebhookInbox.attempts
    place,      \* the order of created_at
    applied,    \* history: the statuses that were applied to the charge
    failures,   \* history: the attempts that really failed, per notification
    req,        \* each HTTP request
    job,        \* "asking" between phase A and phase B
    pending,    \* the rows phase A read
    answered,   \* the ones it asked about within its budget
    jobGot      \* what Mercado Pago answered: a status, 0 for no answer

remoteVars == <<version, sent, delivered>>
rowVars == <<inbox, attempts, place, applied, failures>>
jobVars == <<job, pending, answered, jobGot>>
vars == <<remoteVars, rowVars, req, jobVars>>

RowStates == {"none", "waiting", "done", "dropped"}

(* A request: where it is, what Mercado Pago answered, and the row as it   *)
(* was when it was read.                                                   *)
Request == [at : {"idle", "asked", "read"}, note : Notes \cup {None},
            got : Nat, saw : {"none", "waiting"}, old : Nat]
Idle == [at |-> "idle", note |-> None, got |-> 0, saw |-> "none", old |-> 0]

TypeOK ==
    /\ version \in Nat
    /\ sent \in [Notes -> Nat]
    /\ delivered \in [Notes -> 0..MaxDeliveries]
    /\ inbox \in [Notes -> RowStates]
    /\ attempts \in [Notes -> 0..MaxAttempts]
    /\ place \in [Notes -> Nat]
    /\ applied \subseteq Nat
    /\ failures \in [Notes -> Nat]
    /\ req \in [Requests -> Request]
    /\ job \in {"idle", "asking"}
    /\ pending \subseteq Notes
    /\ answered \subseteq pending
    /\ jobGot \in [Notes -> Nat]

Init ==
    /\ version = 0
    /\ sent = [n \in Notes |-> 0]
    /\ delivered = [n \in Notes |-> 0]
    /\ inbox = [n \in Notes |-> "none"]
    /\ attempts = [n \in Notes |-> 0]
    /\ place = [n \in Notes |-> 0]
    /\ applied = {}
    /\ failures = [n \in Notes |-> 0]
    /\ req = [r \in Requests |-> Idle]
    /\ job = "idle"
    /\ pending = {}
    /\ answered = {}
    /\ jobGot = [n \in Notes |-> 0]

-----------------------------------------------------------------------------
(* The payment changes in Mercado Pago, which announces it. *)
Announce(n) ==
    /\ sent[n] = 0
    /\ version' = version + 1
    /\ sent' = [sent EXCEPT ![n] = version + 1]
    /\ UNCHANGED <<delivered, rowVars, req, jobVars>>


(* register_failure: the row with k attempts, this one included *)
AfterFailure(k, otherwise) == IF k >= MaxAttempts THEN "dropped" ELSE otherwise

-----------------------------------------------------------------------------
(* The HTTP handler.                                                       *)

(* A delivery arrives and _enriquecer_sin_transaccion_abierta asks Mercado *)
(* Pago: the current status of the payment, or nothing.                    *)
Deliver(r, n, got) ==
    /\ req[r].at = "idle"
    /\ sent[n] # 0
    /\ delivered[n] < MaxDeliveries
    /\ got \in {0, version}
    /\ delivered' = [delivered EXCEPT ![n] = @ + 1]
    /\ req' = [req EXCEPT ![r] = [at |-> "asked", note |-> n, got |-> got,
                                  saw |-> "none", old |-> 0]]
    /\ UNCHANGED <<version, sent, rowVars, jobVars>>

(* The row is read without a lock; a processed one ends the request        *)
(* ("already_processed").                                                  *)
Read(r) ==
    LET n == req[r].note
    IN  /\ req[r].at = "asked"
        /\ req' = [req EXCEPT ![r] =
             IF inbox[n] \in {"done", "dropped"} THEN Idle
             ELSE [at |-> "read", note |-> n, got |-> req[r].got,
                   saw |-> inbox[n], old |-> attempts[n]]]
        /\ UNCHANGED <<remoteVars, rowVars, jobVars>>

(* The unique event_id: an INSERT fails when somebody else was first. *)
CanWrite(r) ==
    /\ req[r].at = "read"
    /\ req[r].saw = "none" => inbox[req[r].note] = "none"

Placed(r) ==
    place' = [place EXCEPT ![req[r].note] =
        IF req[r].saw = "none"
        THEN Cardinality({n \in Notes : inbox[n] # "none"}) ELSE @]

(* Mutant: what Mercado Pago did not confirm is marked as processed too.   *)
AcceptAnything(r) ==
    LET n == req[r].note
    IN  /\ CanWrite(r)
        /\ applied' = applied \cup ({req[r].got} \ {0})
        /\ inbox' = [inbox EXCEPT ![n] = "done"]
        /\ Placed(r)
        /\ req' = [req EXCEPT ![r] = Idle]
        /\ UNCHANGED <<remoteVars, attempts, failures, jobVars>>

(* _aplicar_y_anotar_en_el_inbox: the answer is applied and the row is     *)
(* marked in the same transaction.                                         *)
Accept(r) ==
    LET n == req[r].note
    IN  /\ CanWrite(r)
        /\ req[r].got # 0
        /\ applied' = applied \cup {req[r].got}
        /\ inbox' = [inbox EXCEPT ![n] = "done"]
        /\ Placed(r)
        /\ req' = [req EXCEPT ![r] = Idle]
        /\ UNCHANGED <<remoteVars, attempts, failures, jobVars>>

(* ... or there was no answer, it did not pass the integrity validation or *)
(* its charge was not found.  The attempts are the ones that were read;    *)
(* processed_at is written only when they are used up.                     *)
Refuse(r) ==
    LET n == req[r].note
    IN  /\ CanWrite(r)
        /\ attempts' = [attempts EXCEPT ![n] = req[r].old + 1]
        /\ failures' = [failures EXCEPT ![n] = @ + 1]
        /\ inbox' = [inbox EXCEPT ![n] =
             AfterFailure(req[r].old + 1, IF @ = "none" THEN "waiting" ELSE @)]
        /\ Placed(r)
        /\ req' = [req EXCEPT ![r] = Idle]
        /\ UNCHANGED <<remoteVars, applied, jobVars>>

(* A crash, or an error other than RuntimeError (the INSERT that lost its  *)
(* race among them): a 500 and nothing is written.                         *)
Abort(r) ==
    /\ req[r].at # "idle"
    /\ req' = [req EXCEPT ![r] = Idle]
    /\ UNCHANGED <<remoteVars, rowVars, jobVars>>

-----------------------------------------------------------------------------
(* The retry job, one run at a time (_exclusive_job).                      *)

(* _inbox_batch_query *)
JobRead ==
    /\ job = "idle"
    /\ pending' = {n \in Notes : inbox[n] = "waiting"}
    /\ pending' # {}
    /\ job' = "asking"
    /\ UNCHANGED <<remoteVars, rowVars, req, answered, jobGot>>

(* _enrich_inbox_payloads: the oldest first, until the budget is used up.  *)
JobAsk(n, got) ==
    /\ job = "asking"
    /\ n \in pending \ answered
    /\ \A k \in pending \ answered : place[n] <= place[k]
    /\ got \in {0, version}
    /\ answered' = answered \cup {n}
    /\ jobGot' = [jobGot EXCEPT ![n] = got]
    /\ UNCHANGED <<remoteVars, rowVars, req, job, pending>>

JobDone ==
    /\ job' = "idle"
    /\ pending' = {}
    /\ answered' = {}
    /\ jobGot' = [n \in Notes |-> 0]

(* Mutant: phase B takes every row it read, asked about or not.            *)
LockableOfRead(skipped) ==
    {n \in pending : inbox[n] = "waiting"} \ skipped

(* Mutant: a row without an answer is left for the next run, uncharged.    *)
LockableWithAnswer(skipped) ==
    {n \in answered : inbox[n] = "waiting" /\ jobGot[n] # 0} \ skipped

(* _inbox_fase_b: the rows it asked about that still wait, except the ones *)
(* somebody has locked.                                                    *)
Lockable(skipped) ==
    {n \in answered : inbox[n] = "waiting"} \ skipped

(* _registrar_fallo, in a savepoint of its own, on the locked row *)
Charged(n) == attempts[n] + 1

(* Phase B: each row in its savepoint; good are the ones that could be     *)
(* applied.                                                                *)
JobWrite(good, skipped) ==
    /\ job = "asking"
    /\ answered # {}
    /\ skipped \subseteq {n \in Notes :
         \E r \in Requests : req[r].at = "read" /\ req[r].note = n}
    /\ good \subseteq {n \in Lockable(skipped) : jobGot[n] # 0}
    /\ LET bad == Lockable(skipped) \ good
       IN  /\ inbox' = [n \in Notes |->
                IF n \in good THEN "done"
                ELSE IF n \in bad THEN AfterFailure(Charged(n), "waiting")
                ELSE inbox[n]]
           /\ attempts' = [n \in Notes |->
                IF n \in bad THEN Charged(n) ELSE attempts[n]]
           /\ failures' = [n \in Notes |->
                IF n \in bad \cap answered THEN failures[n] + 1 ELSE failures[n]]
    /\ applied' = applied \cup {jobGot[n] : n \in good}
    /\ JobDone
    /\ UNCHANGED <<remoteVars, place, req>>

(* The soft time limit, or the process dies: the batch is rolled back. *)
JobCut ==
    /\ job = "asking"
    /\ JobDone
    /\ UNCHANGED <<remoteVars, rowVars, req>>

-----------------------------------------------------------------------------
RequestStep(r) == Read(r) \/ Accept(r) \/ Refuse(r) \/ Abort(r)

Next ==
    \/ \E n \in Notes : Announce(n)
    \/ \E r \in Requests, n \in Notes, got \in {0, version} : Deliver(r, n, got)
    \/ \E r \in Requests : RequestStep(r)
    \/ JobRead
    \/ \E n \in Notes, got \in {0, version} : JobAsk(n, got)
    \/ \E good, skipped \in SUBSET Notes : JobWrite(good, skipped)
    \/ JobCut

Spec == Init /\ [][Next]_vars

(* Celery beat runs the job for ever and not every run is cut: the budget  *)
(* of phase A is below the time limit.  Requests end.                      *)
Fairness ==
    /\ WF_vars(JobRead)
    /\ SF_vars(\E n \in Notes, got \in {0, version} : JobAsk(n, got))
    /\ SF_vars(\E good, skipped \in SUBSET Notes : JobWrite(good, skipped))
    /\ \A r \in Requests : WF_vars(RequestStep(r))
FairSpec == Spec /\ Fairness

-----------------------------------------------------------------------------
(* A notification is marked as processed only if the status it announced,  *)
(* or a later one, was applied to the charge: "marcarlo aca perderia el    *)
(* cobro de forma permanente" (_aplicar_y_anotar_en_el_inbox).             *)
ProcessedIsApplied ==
    \A n \in Notes : inbox[n] = "done" => \E v \in applied : v >= sent[n]

(* A notification is abandoned only after MaxAttempts attempts that really *)
(* failed; one the budget left out is not charged (_inbox_fase_b).         *)
DroppedIsEarned ==
    \A n \in Notes :
        /\ attempts[n] <= failures[n]
        /\ inbox[n] = "dropped" => failures[n] >= MaxAttempts

(* Every waiting notification is applied or abandoned, whatever the budget *)
(* and however often deliveries, cuts and crashes interfere.               *)
WaitingSettles ==
    \A n \in Notes : (inbox[n] = "waiting") ~> (inbox[n] \in {"done", "dropped"})
=============================================================================
