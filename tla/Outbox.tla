------------------------------- MODULE Outbox -------------------------------
(***************************************************************************)
(* The transactional outbox (payments/jobs.py, OutboxMessage) and the runs *)
(* that empty it.  Three kinds of rows:                                    *)
(*                                                                         *)
(*  - events, planned in one transaction per batch, a savepoint per item:  *)
(*    what an event has to mail becomes email.send rows in that savepoint; *)
(*  - email.send rows, taken one by one: the row is committed as processed *)
(*    before the SMTP call and never retried;                              *)
(*  - payment.preference.expire rows, taken under a lease: claimed and     *)
(*    committed, Mercado Pago called with no transaction open, the result  *)
(*    noted later if the claim is still the caller's own.                  *)
(*                                                                         *)
(* A run is a Celery tick or the panel's endpoint.  Any step of a run may  *)
(* be the last one: the process dies, or the soft time limit cuts it.      *)
(*                                                                         *)
(* The advisory lock of the tick is left out: it is a session lock, so it  *)
(* is gone when its connection is, and the claims have to hold without it. *)
(* For the same reason a lease may lapse while its run is still calling.   *)
(***************************************************************************)
EXTENDS Naturals, FiniteSets

CONSTANTS
    Runs,         \* concurrent runs of process_outbox_batch
    Events,       \* domain events that mail somebody
    Expiries,     \* payment.preference.expire rows
    Blank,        \* the ones without a preference_id
    MaxClaims,    \* PREFERENCE_EXPIRE_MAX_CLAIMS
    MaxAttempts   \* WEBHOOK_INBOX_MAX_ATTEMPTS

ASSUME OutboxAssumption ==
    /\ Blank \subseteq Expiries
    /\ MaxClaims \in Nat \ {0}
    /\ MaxAttempts \in Nat \ {0}

VARIABLES
    row,       \* each expiry row: queued, claimed (the marker in `error`), ...
    attempts,  \* OutboxMessage.attempts of an expiry row
    claims,    \* how often it was claimed: the last claimed_at, as a number
    lease,     \* "lapsed" when processed_at < now - PREFERENCE_EXPIRE_LEASE
    mine,      \* for each run, the claimed_at it holds on each row, 0 if none
    answer,    \* what Mercado Pago answered to each run about each row
    dead,      \* the preferences that are really expired in Mercado Pago
    event,     \* each domain event's row
    tries,     \* its attempts
    mail,      \* the email.send row of each event
    sending,   \* for each run, the events whose mail it is sending
    arrived    \* how often the mail of each event reached the SMTP server

expireVars == <<row, attempts, claims, lease, mine, answer, dead>>
mailVars == <<event, tries, mail, sending, arrived>>
vars == <<expireVars, mailVars>>

RowStates == {"none", "queued", "claimed", "done", "dropped"}
EventStates == {"none", "queued", "done", "dropped"}

TypeOK ==
    /\ row \in [Expiries -> RowStates]
    /\ attempts \in [Expiries -> 0..MaxAttempts]
    /\ claims \in [Expiries -> Nat]
    /\ lease \in [Expiries -> {"running", "lapsed"}]
    /\ mine \in [Runs -> [Expiries -> Nat]]
    /\ answer \in [Runs -> [Expiries -> {"none", "ok", "fail"}]]
    /\ dead \subseteq Expiries
    /\ event \in [Events -> EventStates]
    /\ tries \in [Events -> 0..MaxAttempts]
    /\ mail \in [Events -> {"none", "queued", "taken"}]
    /\ sending \in [Runs -> SUBSET Events]
    /\ arrived \in [Events -> Nat]

Init ==
    /\ row = [x \in Expiries |-> "none"]
    /\ attempts = [x \in Expiries |-> 0]
    /\ claims = [x \in Expiries |-> 0]
    /\ lease = [x \in Expiries |-> "running"]
    /\ mine = [w \in Runs |-> [x \in Expiries |-> 0]]
    /\ answer = [w \in Runs |-> [x \in Expiries |-> "none"]]
    /\ dead = {}
    /\ event = [e \in Events |-> "none"]
    /\ tries = [e \in Events |-> 0]
    /\ mail = [e \in Events |-> "none"]
    /\ sending = [w \in Runs |-> {}]
    /\ arrived = [e \in Events |-> 0]

-----------------------------------------------------------------------------

(* register_failure: one attempt more, and the row is abandoned when they  *)
(* are used up.                                                            *)
Failed(n) == IF n + 1 >= MaxAttempts THEN "dropped" ELSE "queued"

(* A transaction elsewhere publishes the row. *)
PublishExpire(x) ==
    /\ row[x] = "none"
    /\ row' = [row EXCEPT ![x] = "queued"]
    /\ UNCHANGED <<attempts, claims, lease, mine, answer, dead, mailVars>>

PublishEvent(e) ==
    /\ event[e] = "none"
    /\ event' = [event EXCEPT ![e] = "queued"]
    /\ UNCHANGED <<expireVars, tries, mail, sending, arrived>>

-----------------------------------------------------------------------------
(* Expiring a preference.                                                  *)

(* Mutant: nobody looks for the claims of a dead worker. *)
LapsedNever == {}

Lapsed == {x \in Expiries : row[x] = "claimed" /\ lease[x] = "lapsed"}
Queued == {x \in Expiries : row[x] = "queued"}

(* The rows a claim takes: as many as fit, lapsed claims first. *)
Takeable(S) ==
    /\ S \subseteq Lapsed \cup Queued
    /\ S # {}
    /\ \/ S = Lapsed \cup Queued /\ Cardinality(S) <= MaxClaims
       \/ Cardinality(S) = MaxClaims
    /\ S \cap Queued # {} => Lapsed \subseteq S

(* _claim_preference_expire: a lapsed claim counts as a failed attempt and *)
(* may be the last one; a row without a preference has nothing to expire.  *)
Reclaimed(x) == x \in Lapsed
ClaimOutcome(x) ==
    IF x \in Blank THEN "done"
    ELSE IF Reclaimed(x) /\ Failed(attempts[x]) = "dropped" THEN "dropped"
    ELSE "claimed"

(* _claim_and_expire_preferences, up to its commit. *)
Claim(w, S) ==
    /\ \A x \in Expiries : mine[w][x] = 0
    /\ Takeable(S)
    /\ row' = [x \in Expiries |-> IF x \in S THEN ClaimOutcome(x) ELSE row[x]]
    /\ attempts' = [x \in Expiries |->
         IF x \in S /\ Reclaimed(x) THEN attempts[x] + 1 ELSE attempts[x]]
    /\ LET taken == {x \in S : ClaimOutcome(x) = "claimed"}
       IN  /\ claims' = [x \in Expiries |->
                IF x \in taken THEN claims[x] + 1 ELSE claims[x]]
           /\ lease' = [x \in Expiries |->
                IF x \in taken THEN "running" ELSE lease[x]]
           /\ mine' = [mine EXCEPT ![w] =
                [x \in Expiries |-> IF x \in taken THEN claims[x] + 1 ELSE 0]]
    /\ UNCHANGED <<answer, dead, mailVars>>

(* expire_mercadopago_preference, no transaction open.  A call that failed *)
(* may have had its effect: the answer was lost.                           *)
CallOk(w, x) ==
    /\ mine[w][x] # 0
    /\ answer[w][x] = "none"
    /\ answer' = [answer EXCEPT ![w][x] = "ok"]
    /\ dead' = dead \cup {x}
    /\ UNCHANGED <<row, attempts, claims, lease, mine, mailVars>>

CallFails(w, x, reached) ==
    /\ mine[w][x] # 0
    /\ answer[w][x] = "none"
    /\ answer' = [answer EXCEPT ![w][x] = "fail"]
    /\ dead' = IF reached THEN dead \cup {x} ELSE dead
    /\ UNCHANGED <<row, attempts, claims, lease, mine, mailVars>>

(* Mutants of the check that the claim is still this run's: none at all;   *)
(* and a run that notes success for everything it called.                  *)
StillMineByMarker(w, x) == mine[w][x] # 0 /\ row[x] = "claimed"

StillMine(w, x) ==
    mine[w][x] # 0 /\ row[x] = "claimed" /\ claims[x] = mine[w][x]

NoteOutcomeIgnoresError(w, x) == "done"

NoteOutcome(w, x) ==
    IF answer[w][x] = "ok" THEN "done" ELSE Failed(attempts[x])

(* _expire_claimed_preferences, the second transaction: every answer of    *)
(* the run is noted on the row that is still its claim.                    *)
Note(w) ==
    /\ \E x \in Expiries : mine[w][x] # 0
    /\ \A x \in Expiries : mine[w][x] # 0 => answer[w][x] # "none"
    /\ row' = [x \in Expiries |->
         IF StillMine(w, x) THEN NoteOutcome(w, x) ELSE row[x]]
    /\ attempts' = [x \in Expiries |->
         IF StillMine(w, x) /\ answer[w][x] = "fail"
         THEN attempts[x] + 1 ELSE attempts[x]]
    /\ mine' = [mine EXCEPT ![w] = [x \in Expiries |-> 0]]
    /\ answer' = [answer EXCEPT ![w] = [x \in Expiries |-> "none"]]
    /\ UNCHANGED <<claims, lease, dead, mailVars>>

(* The worker dies or the soft time limit cuts the run: nothing is noted,  *)
(* not even the calls that went well.                                      *)
Cut(w) ==
    /\ \E x \in Expiries : mine[w][x] # 0
    /\ mine' = [mine EXCEPT ![w] = [x \in Expiries |-> 0]]
    /\ answer' = [answer EXCEPT ![w] = [x \in Expiries |-> "none"]]
    /\ UNCHANGED <<row, attempts, claims, lease, dead, mailVars>>

Lapse(x) ==
    /\ row[x] = "claimed"
    /\ lease[x] = "running"
    /\ lease' = [lease EXCEPT ![x] = "lapsed"]
    /\ UNCHANGED <<row, attempts, claims, mine, answer, dead, mailVars>>

-----------------------------------------------------------------------------
(* Events and mails.                                                       *)

(* process_outbox_batch and _plan_lote: FOR UPDATE SKIP LOCKED, so         *)
(* concurrent batches take disjoint sets.  A failing item is rolled back   *)
(* to its savepoint and charged an attempt (_registrar_fallo).             *)
PlanBatch(S, bad) ==
    /\ S # {}
    /\ S \subseteq {e \in Events : event[e] = "queued"}
    /\ bad \subseteq S
    /\ event' = [e \in Events |-> IF e \in bad THEN Failed(tries[e])
                                  ELSE IF e \in S THEN "done" ELSE event[e]]
    /\ tries' = [e \in Events |-> IF e \in bad THEN tries[e] + 1 ELSE tries[e]]
    /\ mail' = [e \in Events |-> IF e \in S \ bad THEN "queued" ELSE mail[e]]
    /\ UNCHANGED <<expireVars, sending, arrived>>

(* Mutant: the row is marked as processed only after the mail went out.    *)
TakeMailLate(w, e) ==
    /\ sending[w] = {}
    /\ mail[e] = "queued"
    /\ sending' = [sending EXCEPT ![w] = {e}]
    /\ UNCHANGED <<expireVars, event, tries, mail, arrived>>

(* _claim_next_email: processed_at is committed before the mail is sent. *)
TakeMail(w, e) ==
    /\ sending[w] = {}
    /\ mail[e] = "queued"
    /\ mail' = [mail EXCEPT ![e] = "taken"]
    /\ sending' = [sending EXCEPT ![w] = {e}]
    /\ UNCHANGED <<expireVars, event, tries, arrived>>

(* _send_one_pending_email: the server took it, or it is lost (an SMTP     *)
(* error, a crash, the time limit).  A failure is noted on the row, which  *)
(* stays processed.                                                        *)
SendMail(w, e) ==
    /\ e \in sending[w]
    /\ arrived' = [arrived EXCEPT ![e] = @ + 1]
    /\ sending' = [sending EXCEPT ![w] = {}]
    /\ UNCHANGED <<expireVars, event, tries, mail>>

LoseMail(w) ==
    /\ sending[w] # {}
    /\ sending' = [sending EXCEPT ![w] = {}]
    /\ UNCHANGED <<expireVars, event, tries, mail, arrived>>

-----------------------------------------------------------------------------
ExpireStep(w) ==
    \/ \E S \in SUBSET Expiries : Claim(w, S)
    \/ \E x \in Expiries :
         CallOk(w, x) \/ \E reached \in BOOLEAN : CallFails(w, x, reached)
    \/ Note(w)

MailStep(w) ==
    \/ \E e \in Events : TakeMail(w, e) \/ SendMail(w, e)
    \/ LoseMail(w)

Next ==
    \/ \E x \in Expiries : PublishExpire(x) \/ Lapse(x)
    \/ \E e \in Events : PublishEvent(e)
    \/ \E S, bad \in SUBSET Events : PlanBatch(S, bad)
    \/ \E w \in Runs : ExpireStep(w) \/ MailStep(w) \/ Cut(w)

Spec == Init /\ [][Next]_vars

(* Celery beat runs the outbox every few seconds, and time passes.         *)
Fairness ==
    /\ \A w \in Runs : WF_vars(ExpireStep(w))
    /\ \A x \in Expiries : WF_vars(Lapse(x))
FairSpec == Spec /\ Fairness

-----------------------------------------------------------------------------
(* A row is marked as processed only if the preference is expired in       *)
(* Mercado Pago, whichever run called and whichever noted.                 *)
DoneIsDead == \A x \in Expiries : row[x] = "done" => x \in dead \cup Blank

(* A row is abandoned only after MaxAttempts claims: a lapsed claim and    *)
(* its late answer are never charged as two attempts.                      *)
GivesUpLate ==
    \A x \in Expiries :
        /\ attempts[x] <= claims[x]
        /\ row[x] = "dropped" => claims[x] >= MaxAttempts

(* While a claim runs only its own run settles the row: the late answer of *)
(* an earlier claim is discarded ("ya no es nuestro reclamo").             *)
ClaimIsExclusive ==
    [][\A w \in Runs, x \in Expiries :
         (/\ row[x] = "claimed" /\ lease[x] = "running"
          /\ mine[w][x] = claims[x] /\ row'[x] # "claimed")
         => mine'[w][x] = 0]_vars

(* A mail reaches the server at most once, with any number of runs and     *)
(* crashes (_claim_next_email: "un mail sale a lo sumo una vez").          *)
MailAtMostOnce == \A e \in Events : arrived[e] <= 1

(* Every published expiry is done or abandoned, crashes included: a link   *)
(* is never left alive by a worker that died with its claim.               *)
ExpirySettles ==
    \A x \in Expiries : (row[x] = "queued") ~> (row[x] \in {"done", "dropped"})
=============================================================================
