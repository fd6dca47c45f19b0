----------------------------- MODULE PaymentJobs -----------------------------
(* The queues of the payment jobs (payments/jobs.py): the reconciliation of    *)
(* pending charges with Mercado Pago and the pages of expired holds. Charge     *)
(* follows one charge through every writer; here many of them share a batch     *)
(* and the time budget of a run, and the question is who is left waiting.       *)
(*                                                                              *)
(* A query to Mercado Pago is fast or slow; a slow one spends one unit of the   *)
(* budget of the run. The queries about one charge are one step.                *)
EXTENDS Naturals, FiniteSets, Sequences, SequencesExt

CONSTANTS Charges,          \* pending charges, numbered in the order of creation
          Holds,            \* overdue holds, numbered in the order of expires_at
          QueueLimit,       \* MP_BATCH_LIMIT, limit
          QueryUnits,       \* MP_PHASE_A_BUDGET_SECONDS / MP_QUERY_BUDGET_SECONDS
          RetiredMax,       \* RETIRED_LINK_SEARCH_MAX
          RetiredLinks,     \* how many links each charge has retired
          ExpireMaxPages,   \* EXPIRE_MAX_PAGES
          ParkTime,         \* EXPIRE_HELD_RECHECK_INTERVAL, in runs of the clock
          MaxReconcileDeaths,   \* bound: runs killed by the hard time limit
          MaxPolls              \* bound: charges asked by the public page

ASSUME PaymentJobsBounds ==
    /\ Charges \subseteq Nat /\ Holds \subseteq Nat
    /\ QueueLimit \in Nat \ {0} /\ QueryUnits \in Nat \ {0} /\ RetiredMax \in Nat
    /\ RetiredLinks \in 0..3

VARIABLES charge,     \* per charge: "pending" or "settled"; whether it noted an MP id
          remote,     \* per charge: status of its payments in Mercado Pago, by place
          queue,      \* the charges by reconciled_at NULLS FIRST, created_at
          sweep,      \* per worker: "beat" holds the advisory lock, "poll" does not
          deaths,
          polls,      \* charges the public page asked for so far
          hold,       \* per hold: state, kind of charge, time it stays parked
          expiry      \* the run of expire_unpaid_appointments

paymentJobVars == <<charge, remote, queue, sweep, deaths, polls, hold, expiry>>

JobWorkers == {"beat", "poll"}
Retired == <<"old1", "old2", "old3">>    \* places of retired links, the newest first
Places == {"id", "now"} \cup {Retired[i] : i \in 1..RetiredLinks}
RemoteStates == {"none", "rejected", "approved"}
NoJob == [at |-> "idle", batch |-> <<>>, spent |-> 0, asked |-> {}, found |-> {}]
NoExpiry == [at |-> "idle", page |-> 0, seen |-> {}, rows |-> <<>>, spent |-> 0, asked |-> {},
             held |-> FALSE]
(* manual: no charge of Mercado Pago; unpaid: nothing there; paid: approved;     *)
(* rejected: approved, and refused by the integrity checks; failing: the         *)
(* database refuses the write.                                                   *)
HoldKinds == {"manual", "unpaid", "paid", "rejected", "failing"}

PaymentJobsTypeOK ==
    /\ charge \in [Charges -> [status : {"pending", "settled"}, noted : BOOLEAN]]
    /\ remote \in [Charges -> [Places -> RemoteStates]]
    /\ \A w \in JobWorkers : sweep[w].asked \subseteq Charges
    /\ hold \in [Holds -> [state : {"held", "expired", "rescued"}, kind : HoldKinds,
                           parked : 0..(ParkTime + 1)]]
    /\ expiry.seen \subseteq Holds

PaymentJobsInit ==
    /\ charge \in [Charges -> [status : {"pending"}, noted : BOOLEAN]]
    /\ remote = [c \in Charges |-> [p \in Places |->
                    IF p = "id" /\ charge[c].noted THEN "rejected" ELSE "none"]]
    /\ queue = SetToSortSeq(Charges, <)
    /\ sweep = [w \in JobWorkers |-> NoJob]
    /\ deaths = 0 /\ polls = 0
    /\ hold \in [Holds -> [state : {"held"}, kind : HoldKinds, parked : {0}]]
    /\ expiry = NoExpiry

-----------------------------------------------------------------------------
(* _fetch_remote_payment: by the id the charge noted; unless that one is          *)
(* approved, by the reference of the current link and of the newest retired       *)
(* ones. The id takes one of the places of the retired links, so that a charge     *)
(* never costs more queries than a run can pay for.                                *)
Searched(c) ==
    LET places == IF charge[c].noted /\ RetiredMax > 0 THEN RetiredMax - 1 ELSE RetiredMax
    IN (IF charge[c].noted THEN <<"id">> ELSE <<>>) \o <<"now">> \o
       SubSeq(Retired, 1, IF places < RetiredLinks THEN places ELSE RetiredLinks)

(* The queries made: up to the first approved payment. *)
Queries(c) ==
    LET ps == Searched(c)
        hits == {i \in DOMAIN ps : remote[c][ps[i]] = "approved"}
    IN  IF hits = {} THEN Len(ps) ELSE CHOOSE i \in hits : \A j \in hits : i <= j

(* A rejected payment does not end the search. *)
FindsApproved(c) == \E i \in DOMAIN Searched(c) : remote[c][Searched(c)[i]] = "approved"

(* _consultar_si_alcanza: the budget is looked at before each query. With `slow'    *)
(* queries of this charge that spend a unit each, it is cut half way.                *)
CutShort(spent, slow) == spent + slow > QueryUnits

-----------------------------------------------------------------------------
(* _reconciliation_query: pending charges, the ones asked longest ago first.         *)
(* Plausible bug: the oldest first.                                                  *)
OldestFirst == SetToSortSeq({c \in Charges : charge[c].status = "pending"}, <)
ReconciliationQuery == SelectSeq(queue, LAMBDA c : charge[c].status = "pending")

FirstOf(s, n) == SubSeq(s, 1, IF Len(s) < n THEN Len(s) ELSE n)

(* reconcile_pending_payments, under pg_try_advisory_lock (_exclusive_job). *)
StartReconcile ==
    /\ sweep["beat"].at = "idle"
    /\ ReconciliationQuery # <<>>
    /\ sweep' = [sweep EXCEPT !["beat"] =
          [NoJob EXCEPT !.at = "asking", !.batch = FirstOf(ReconciliationQuery, QueueLimit)]]
    /\ UNCHANGED <<charge, remote, queue, deaths, hold, expiry, polls>>

(* request_on_demand_reconciliation: the public page asks for one charge, at most   *)
(* one task at a time (SET NX EX); reconcile_one_payment takes no advisory lock.     *)
ReconcileOnDemand(c) ==
    /\ sweep["poll"].at = "idle"
    /\ charge[c].status = "pending"
    /\ polls < MaxPolls
    /\ polls' = polls + 1
    /\ sweep' = [sweep EXCEPT !["poll"] = [NoJob EXCEPT !.at = "asking", !.batch = <<c>>]]
    /\ UNCHANGED <<charge, remote, queue, deaths, hold, expiry>>

(* _remote_payments_for_reconciliation, one charge: Mercado Pago answers. *)
AskAbout(w, c, slow) ==
    /\ sweep[w].at = "asking"
    /\ sweep[w].batch # <<>>
    /\ c = Head(sweep[w].batch)
    /\ slow <= Queries(c)
    /\ sweep[w].spent < QueryUnits
    /\ sweep' = [sweep EXCEPT ![w] =
          IF CutShort(@.spent, slow)
          THEN [@ EXCEPT !.at = "writing", !.batch = <<>>, !.spent = 0]
          ELSE [@ EXCEPT !.at = IF Len(sweep[w].batch) = 1 THEN "writing" ELSE @,
                         !.batch = Tail(@),
                         !.spent = IF Len(sweep[w].batch) = 1 THEN 0 ELSE @ + slow,
                         !.asked = @ \cup {c},
                         !.found = IF FindsApproved(c) THEN @ \cup {c} ELSE @]]
    /\ UNCHANGED <<charge, remote, queue, deaths, hold, expiry, polls>>

(* A query that fails counts as asked. *)
AskFails(w) ==
    /\ sweep[w].at = "asking"
    /\ sweep[w].batch # <<>>
    /\ sweep[w].spent < QueryUnits
    /\ sweep' = [sweep EXCEPT ![w].batch = Tail(@), ![w].asked = @ \cup {Head(sweep[w].batch)}]
    /\ UNCHANGED <<charge, remote, queue, deaths, hold, expiry, polls>>

(* Out of budget, or out of charges: the second phase. *)
EndOfPhaseA(w) ==
    /\ sweep[w].at = "asking"
    /\ sweep[w].batch = <<>> \/ sweep[w].spent >= QueryUnits
    /\ sweep' = [sweep EXCEPT ![w].at = "writing", ![w].batch = <<>>, ![w].spent = 0]
    /\ UNCHANGED <<charge, remote, queue, deaths, hold, expiry, polls>>

(* _conciliar_un_cobro for each charge that was asked and is still pending, then     *)
(* _marcar_conciliados. A charge whose appointment somebody else holds is skipped,    *)
(* and the mark of a row somebody holds too.                                          *)
MoveBack(q, cs) == SelectSeq(q, LAMBDA c : c \notin cs) \o SelectSeq(q, LAMBDA c : c \in cs)
ReconcileWrites(w, skipped) ==
    LET done == {c \in sweep[w].asked : charge[c].status = "pending"} \ skipped
    IN
    /\ sweep[w].at = "writing"
    /\ skipped \subseteq sweep[w].asked
    /\ charge' = [c \in Charges |->
          IF c \in done \cap sweep[w].found THEN [charge[c] EXCEPT !.status = "settled"] ELSE charge[c]]
    /\ queue' = MoveBack(queue, done)
    /\ sweep' = [sweep EXCEPT ![w] = NoJob]
    /\ UNCHANGED <<remote, deaths, hold, expiry, polls>>

(* The hard time limit kills the worker; the advisory lock goes with its connection. *)
JobDies(w) ==
    /\ sweep[w].at # "idle"
    /\ deaths < MaxReconcileDeaths
    /\ deaths' = deaths + 1
    /\ sweep' = [sweep EXCEPT ![w] = NoJob]
    /\ UNCHANGED <<charge, remote, queue, hold, expiry, polls>>

(* A client pays a link, or tries to pay the current one; the webhook may be lost. *)
ClientPays(c, p, status) ==
    /\ p # "id"
    /\ status = "rejected" => p = "now" /\ remote[c][p] = "none"
    /\ status # "none"
    /\ \A q \in Places : remote[c][q] # "approved"
    /\ remote' = [remote EXCEPT ![c][p] = status]
    /\ UNCHANGED <<charge, queue, sweep, deaths, hold, expiry, polls>>

(* The webhook of a payment, with the status it had. *)
WebhookArrives(c) ==
    /\ charge[c].status = "pending"
    /\ \E p \in Places : remote[c][p] = "approved"
    /\ charge' = [charge EXCEPT ![c].status = "settled"]
    /\ UNCHANGED <<remote, queue, sweep, deaths, hold, expiry, polls>>

-----------------------------------------------------------------------------
(* _expired_holds_query: overdue, not parked, not seen by this run, oldest first. *)
ExpiredHolds(excluded) ==
    SetToSortSeq({h \in Holds : /\ hold[h].state = "held"
                                /\ hold[h].parked = 0
                                /\ h \notin excluded}, <)

StartExpiry ==
    /\ expiry.at = "idle"
    /\ ExpiredHolds({}) # <<>>
    /\ expiry' = [NoExpiry EXCEPT !.at = "page", !.page = 1,
                                  !.rows = FirstOf(ExpiredHolds({}), QueueLimit)]
    /\ UNCHANGED <<charge, remote, queue, sweep, deaths, hold, polls>>

(* _fetch_remote_payments for the page: the holds with a charge of Mercado Pago,   *)
(* as far as the budget of the run reaches.                                         *)
AskHolds(n) ==
    LET ofMP == SelectSeq(expiry.rows, LAMBDA h : hold[h].kind # "manual")
        reached == FirstOf(ofMP, n)
    IN
    /\ expiry.at = "page"
    /\ n \in 0..Len(ofMP)
    /\ n < Len(ofMP) => expiry.spent + n >= QueryUnits
    /\ expiry.spent + n <= QueryUnits
    /\ expiry' = [expiry EXCEPT !.at = "decide", !.asked = {reached[i] : i \in DOMAIN reached},
                                !.seen = @ \cup {expiry.rows[i] : i \in DOMAIN expiry.rows},
                                !.spent = @ + n]
    /\ UNCHANGED <<charge, remote, queue, sweep, deaths, hold, polls>>

(* Mercado Pago answers fast enough for the whole page. *)
AskHoldsFast ==
    /\ expiry.at = "page"
    /\ expiry.spent < QueryUnits
    /\ expiry' = [expiry EXCEPT !.at = "decide",
                                !.asked = {h \in Holds : \E i \in DOMAIN expiry.rows : expiry.rows[i] = h},
                                !.seen = @ \cup {expiry.rows[i] : i \in DOMAIN expiry.rows}]
    /\ UNCHANGED <<charge, remote, queue, sweep, deaths, hold, polls>>

(* _estacionar: a charge refused by the integrity checks is out of the queue for a   *)
(* while, with a random lag. Plausible bug: it stays in it.                           *)
NotParked(h, lag) == hold[h]
Parked(h, lag) == [hold[h] EXCEPT !.parked = ParkTime + lag]

(* _vencer_o_rescatar and _rescatar_o_retener, one hold. *)
Decided(h, lag) ==
    IF hold[h].kind # "manual" /\ h \notin expiry.asked THEN hold[h]
    ELSE CASE hold[h].kind \in {"manual", "unpaid"} -> [hold[h] EXCEPT !.state = "expired"]
           [] hold[h].kind = "paid" -> [hold[h] EXCEPT !.state = "rescued"]
           [] hold[h].kind = "rejected" -> Parked(h, lag)
           [] hold[h].kind = "failing" -> hold[h]
Retained(h) == hold[h].kind \in {"rejected", "failing"} /\ h \in expiry.asked

(* The beat comes every minute: a run that ends is a step of the clock of whatever was   *)
(* parked before it.                                                                     *)
Aged(now, before) == IF before.parked > 0 THEN [now EXCEPT !.parked = @ - 1] ELSE now

(* The second phase of the page, and whether another follows: only after one that     *)
(* retained something, and no more than EXPIRE_MAX_PAGES. Rows somebody holds are      *)
(* skipped.                                                                            *)
DecidePage(skipped, lag) ==
    LET rows == {expiry.rows[i] : i \in DOMAIN expiry.rows} \ skipped
        another == expiry.page < ExpireMaxPages /\ \E h \in rows : Retained(h)
        after == [h \in Holds |-> IF h \in rows /\ hold[h].state = "held" /\ hold[h].parked = 0
                                  THEN Decided(h, lag) ELSE hold[h]]
    IN
    /\ expiry.at = "decide"
    /\ skipped \subseteq {expiry.rows[i] : i \in DOMAIN expiry.rows}
    /\ hold' = IF another THEN after ELSE [h \in Holds |-> Aged(after[h], hold[h])]
    /\ expiry' = IF another
                 THEN [expiry EXCEPT !.at = "page", !.page = @ + 1, !.asked = {},
                           !.rows = FirstOf(SelectSeq(ExpiredHolds({}),
                                               LAMBDA h : h \notin expiry.seen), QueueLimit)]
                 ELSE NoExpiry
    /\ UNCHANGED <<charge, remote, queue, sweep, deaths, polls>>

ExpiryDies ==
    /\ expiry.at # "idle"
    /\ deaths < MaxReconcileDeaths
    /\ deaths' = deaths + 1
    /\ expiry' = NoExpiry
    /\ UNCHANGED <<charge, remote, queue, sweep, hold, polls>>

(* Runs that find nothing are steps of the clock too; and a failure of the database     *)
(* passes.                                                                               *)
ParkLapses(h) ==
    /\ hold[h].parked > 0
    /\ expiry.at = "idle" /\ ExpiredHolds({}) = <<>>
    /\ hold' = [hold EXCEPT ![h].parked = @ - 1]
    /\ UNCHANGED <<charge, remote, queue, sweep, deaths, expiry, polls>>
FailureClears(h) ==
    /\ hold[h].kind = "failing"
    /\ hold' = [hold EXCEPT ![h].kind = "unpaid"]
    /\ UNCHANGED <<charge, remote, queue, sweep, deaths, expiry, polls>>

-----------------------------------------------------------------------------
ReconcileNext ==
    \/ StartReconcile
    \/ \E c \in Charges : ReconcileOnDemand(c) \/ WebhookArrives(c)
    \/ \E w \in JobWorkers, c \in Charges, slow \in 0..(2 + RetiredLinks) : AskAbout(w, c, slow)
    \/ \E w \in JobWorkers : AskFails(w) \/ EndOfPhaseA(w) \/ JobDies(w)
    \/ \E w \in JobWorkers, skipped \in SUBSET Charges : ReconcileWrites(w, skipped)
    \/ \E c \in Charges, p \in Places, status \in RemoteStates : ClientPays(c, p, status)

ExpiryNext ==
    \/ StartExpiry \/ AskHoldsFast \/ ExpiryDies
    \/ \E n \in 0..Cardinality(Holds) : AskHolds(n)
    \/ \E skipped \in SUBSET Holds, lag \in {0, 1} : DecidePage(skipped, lag)
    \/ \E h \in Holds : ParkLapses(h) \/ FailureClears(h)

PaymentJobsNext == ReconcileNext \/ ExpiryNext

(* The beat starts the jobs and their runs go on; Mercado Pago answers about a charge  *)
(* again and again, however slowly; nobody holds an appointment in every run.            *)
ReconcileFairness ==
    /\ WF_paymentJobVars(StartReconcile)
    /\ WF_paymentJobVars(EndOfPhaseA("beat"))
    /\ WF_paymentJobVars(\E skipped \in SUBSET Charges : ReconcileWrites("beat", skipped))
    /\ \A c \in Charges :
          /\ SF_paymentJobVars(\E slow \in 0..(2 + RetiredLinks) : AskAbout("beat", c, slow))
          /\ SF_paymentJobVars(c \in sweep["beat"].asked /\
                \E skipped \in SUBSET (Charges \ {c}) : ReconcileWrites("beat", skipped))
          /\ SF_paymentJobVars(c \in sweep["beat"].found /\
                \E skipped \in SUBSET (Charges \ {c}) : ReconcileWrites("beat", skipped))
ExpiryFairness ==
    /\ WF_paymentJobVars(StartExpiry)
    /\ WF_paymentJobVars(AskHoldsFast \/ \E n \in 0..Cardinality(Holds) : AskHolds(n))
    /\ WF_paymentJobVars(\E skipped \in SUBSET Holds, lag \in {0, 1} : DecidePage(skipped, lag))
    /\ \A h \in Holds :
          /\ WF_paymentJobVars(FailureClears(h))
          /\ SF_paymentJobVars((\E i \in DOMAIN expiry.rows : expiry.rows[i] = h) /\
             \E skipped \in SUBSET (Holds \ {h}), lag \in {0, 1} : DecidePage(skipped, lag))
PaymentJobsFairness == ReconcileFairness /\ ExpiryFairness

PaymentJobsSpec == PaymentJobsInit /\ [][PaymentJobsNext]_paymentJobVars /\ PaymentJobsFairness

-----------------------------------------------------------------------------
(* The net under the webhook holds: an approved payment that the search reaches is      *)
(* applied though its webhook is lost, Mercado Pago is as slow as a query may be and     *)
(* others of the queue never settle (reconcile_pending_payments, "la cola no se           *)
(* consultaba nunca con MP lento").                                                       *)
ApprovedIsReconciled ==
    \A c \in Charges :
        (charge[c].status = "pending" /\ FindsApproved(c)) ~> (charge[c].status = "settled")

(* An overdue hold nobody paid is released, though `limit' charges refused by the           *)
(* integrity checks are older than it (_estacionar, EXPIRE_MAX_PAGES).                       *)
UnpaidHoldReleased ==
    \A h \in Holds :
        (hold[h].state = "held" /\ hold[h].kind \in {"manual", "unpaid"}) ~> (hold[h].state # "held")
=============================================================================
