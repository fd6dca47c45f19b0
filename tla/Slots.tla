------------------------------- MODULE Slots -------------------------------
(***************************************************************************)
(* The agenda of a store at the granularity of its row locks: who may      *)
(* write an appointment or a block into the time of a professional.        *)
(*                                                                         *)
(*  - book: the portal and the panel look for a professional who is free,  *)
(*    lock the row (FOR UPDATE), read the agenda again and insert;         *)
(*  - move: a reschedule locks the appointment, then its professional;     *)
(*  - close: new blocks lock the professionals by id, then the             *)
(*    appointments inside the range, and cancel them if told to;           *)
(*  - edit: a change of a block reads the block first and then goes the    *)
(*    way of close with what the block begins to cover.                    *)
(*                                                                         *)
(* Payments, cancellations and expirations lock one appointment and are    *)
(* one step here; what they do to the charge is the module Charge.         *)
(* Opening hours and qualification only narrow the candidates of a         *)
(* booking: any set of candidates is possible.                             *)
(***************************************************************************)
EXTENDS Naturals, FiniteSets, Functions

CONSTANTS
    Staff,      \* the professionals, by id
    Turn,       \* their order in a booking: display_name, public_id
    Appts,      \* appointment ids
    Blocks,     \* block ids
    Requests,   \* HTTP requests that may run at the same time
    MaxEdits,   \* bound: the edits of blocks that may run at the same time
    Slots,      \* the ranges somebody may ask for
    Closures,   \* the ranges a block may have
    Buffer,     \* buffer_minutes of the store
    MaxSpan,    \* MAX_APPOINTMENT_SPAN, a CHECK of the table
    Nobody      \* a free lock, and no appointment

Span == [from : Nat, to : Nat]

ASSUME SlotsAssumption ==
    /\ Staff \subseteq Nat
    /\ Turn \in [Staff -> Nat]
    /\ \A s, t \in Staff : Turn[s] = Turn[t] => s = t
    /\ MaxEdits \in Nat
    /\ Slots \subseteq Span
    /\ Closures \subseteq Span
    /\ Buffer \in Nat
    /\ MaxSpan \in Nat
    /\ \A x \in Slots : x.from < x.to /\ x.to <= x.from + MaxSpan
    /\ IsFiniteSet(Requests)
    /\ Nobody \notin Requests \cup Staff
    /\ Nobody \notin Appts

VARIABLES
    appt,       \* the table of appointments
    block,      \* the table of blocks
    staffLock,  \* who holds the row of each professional
    apptLock,   \* who holds the row of each appointment
    pc,         \* where each request is
    job,        \* what it was asked for
    wants,      \* the professionals it has not locked yet
    target,     \* the candidate it has locked last
    spared      \* history: an appointment under a block, and the manager who
                \* wrote the block was told

tableVars == <<appt, block, spared>>
lockVars == <<staffLock, apptLock>>
reqVars == <<pc, job, wants, target>>
vars == <<tableVars, lockVars, reqVars>>

(* The active statuses.  "open": pending or confirmed and nothing paid.    *)
(* "firm": pending_payment, or with an accredited payment; a block does    *)
(* not cancel it.  No query here sees a row with a final status: it leaves *)
(* the table and its id may be used again.                                 *)
ApptStates == {"none", "open", "firm"}
BlockStates == {"none", "on", "off"}
NoRow == [st |-> "none", staff |-> Nobody, from |-> 0, to |-> 0]

Job ==
    [kind : {"none"}]
      \cup [kind : {"book"}, slot : Slots]
      \cup [kind : {"move"}, slot : Slots, moved : Appts]
      \cup [kind : {"close"}, members : SUBSET Staff, ranges : SUBSET Span]
      \cup [kind : {"edit"}, members : SUBSET Staff, ranges : SUBSET Span,
            block : Blocks,
            saw : [st : {"on", "off"}, from : Nat, to : Nat],
            plan : [st : {"on", "off"}, from : Nat, to : Nat]]

TypeOK ==
    /\ appt \in [Appts -> [st : ApptStates, staff : Staff \cup {Nobody},
                           from : Nat, to : Nat]]
    /\ block \in [Blocks -> [st : BlockStates, staff : Staff \cup {Nobody},
                             from : Nat, to : Nat]]
    /\ staffLock \in [Staff -> Requests \cup {Nobody}]
    /\ apptLock \in [Appts -> Requests \cup {Nobody}]
    /\ pc \in [Requests -> {"idle", "staff", "locked", "decided", "appts"}]
    /\ job \in [Requests -> Job]
    /\ wants \in [Requests -> SUBSET Staff]
    /\ target \in [Requests -> Staff \cup {Nobody}]
    /\ spared \subseteq Appts \X Blocks

Init ==
    /\ appt = [a \in Appts |-> NoRow]
    /\ block = [b \in Blocks |-> NoRow]
    /\ staffLock = [s \in Staff |-> Nobody]
    /\ apptLock = [a \in Appts |-> Nobody]
    /\ pc = [q \in Requests |-> "idle"]
    /\ job = [q \in Requests |-> [kind |-> "none"]]
    /\ wants = [q \in Requests |-> {}]
    /\ target = [q \in Requests |-> Nobody]
    /\ spared = {}

-----------------------------------------------------------------------------
(* What the queries answer.                                                *)

(* ACTIVE_APPOINTMENT_STATUSES *)
Active(a) == appt[a].st # "none"

Overlap(x, y) == x.from < y.to /\ y.from < x.to

(* Mutant: the buffer is only kept after the neighbour. *)
ClashesOneSided(a, s, x) ==
    /\ Active(a)
    /\ appt[a].staff = s
    /\ appt[a].from < x.to
    /\ x.from < appt[a].to + Buffer
    /\ x.from < appt[a].from + MaxSpan + Buffer

(* get_conflicting_appointment: the range widened by the buffer, with the  *)
(* lower bound that appointment_overlap takes from MAX_APPOINTMENT_SPAN.   *)
Clashes(a, s, x) ==
    /\ Active(a)
    /\ appt[a].staff = s
    /\ appt[a].from < x.to + Buffer
    /\ x.from < appt[a].to + Buffer
    /\ x.from < appt[a].from + MaxSpan + Buffer

(* get_overlapping_block *)
Covers(b, s, x) == block[b].st = "on" /\ block[b].staff = s /\ Overlap(block[b], x)

(* An active appointment inside an active block *)
Under(a, b) == Active(a) /\ Covers(b, appt[a].staff, appt[a])

(* A reschedule does not clash with the appointment it moves. *)
Moved(q) == IF job[q].kind = "move" THEN job[q].moved ELSE Nobody

(* lock_and_read_range *)
Busy(s, x, moved) ==
    \/ \E b \in Blocks : Covers(b, s, x)
    \/ \E a \in Appts \ {moved} : Clashes(a, s, x)

(* list_active_overlapping *)
Affected(q) ==
    {a \in Appts :
        /\ Active(a)
        /\ appt[a].staff \in job[q].members
        /\ \E x \in job[q].ranges : Overlap(appt[a], x)
        /\ \E x \in job[q].ranges : x.from < appt[a].from + MaxSpan}

-----------------------------------------------------------------------------
(* How a transaction ends, committed or rolled back: its locks are free.   *)
Finish(q) ==
    /\ pc' = [pc EXCEPT ![q] = "idle"]
    /\ job' = [job EXCEPT ![q] = [kind |-> "none"]]
    /\ wants' = [wants EXCEPT ![q] = {}]
    /\ target' = [target EXCEPT ![q] = Nobody]
    /\ staffLock' = [s \in Staff |->
         IF staffLock[s] = q THEN Nobody ELSE staffLock[s]]
    /\ apptLock' = [a \in Appts |->
         IF apptLock[a] = q THEN Nobody ELSE apptLock[a]]

(* The victim of a deadlock, a lock_timeout, a 4xx of another rule or a    *)
(* crash.                                                                  *)
Abort(q) ==
    /\ pc[q] # "idle"
    /\ Finish(q)
    /\ UNCHANGED tableVars

-----------------------------------------------------------------------------
(* Bookings and reschedules.                                               *)

(* _pick_staff_for_slot: with more than one candidate the taken ones are   *)
(* left out, without any lock.  Nobody left is a 409.                      *)
AskSlot(q, x, candidates) ==
    LET free == IF Cardinality(candidates) > 1
                THEN {s \in candidates : ~Busy(s, x, Nobody)}
                ELSE candidates
    IN  /\ pc[q] = "idle"
        /\ free # {}
        /\ pc' = [pc EXCEPT ![q] = "staff"]
        /\ job' = [job EXCEPT ![q] = [kind |-> "book", slot |-> x]]
        /\ wants' = [wants EXCEPT ![q] = free]
        /\ UNCHANGED <<target, tableVars, lockVars>>

(* _lock_reschedulable, _lock_client_appointment: the appointment is       *)
(* locked and must be active.                                              *)
AskMove(q, a, x) ==
    /\ pc[q] = "idle"
    /\ apptLock[a] = Nobody
    /\ Active(a)
    /\ apptLock' = [apptLock EXCEPT ![a] = q]
    /\ pc' = [pc EXCEPT ![q] = "staff"]
    /\ job' = [job EXCEPT ![q] = [kind |-> "move", slot |-> x, moved |-> a]]
    /\ wants' = [wants EXCEPT ![q] = {appt[a].staff}]
    /\ UNCHANGED <<target, tableVars, staffLock>>

(* Candidates one at a time, in the order of the tie-break. *)
NextCandidate(q) ==
    {s \in wants[q] : \A t \in wants[q] : Turn[s] <= Turn[t]}

(* lock_staff_row *)
LockCandidate(q, s) ==
    /\ pc[q] = "staff"
    /\ job[q].kind \in {"book", "move"}
    /\ s \in NextCandidate(q)
    /\ staffLock[s] = Nobody
    /\ staffLock' = [staffLock EXCEPT ![s] = q]
    /\ target' = [target EXCEPT ![q] = s]
    /\ wants' = [wants EXCEPT ![q] = @ \ {s}]
    /\ pc' = [pc EXCEPT ![q] = "locked"]
    /\ UNCHANGED <<job, apptLock, tableVars>>

(* The agenda is read again under the lock (_lock_and_recheck,             *)
(* _lock_and_validate_slot).                                               *)
Take(q) ==
    /\ pc[q] = "locked"
    /\ ~Busy(target[q], job[q].slot, Moved(q))
    /\ pc' = [pc EXCEPT ![q] = "decided"]
    /\ UNCHANGED <<job, wants, target, tableVars, lockVars>>

(* The next candidate; the lock of this one stays. *)
Skip(q) ==
    /\ pc[q] = "locked"
    /\ Busy(target[q], job[q].slot, Moved(q))
    /\ wants[q] # {}
    /\ pc' = [pc EXCEPT ![q] = "staff"]
    /\ UNCHANGED <<job, wants, target, tableVars, lockVars>>

(* No candidate left: 409. *)
Refuse(q) ==
    /\ pc[q] = "locked"
    /\ Busy(target[q], job[q].slot, Moved(q))
    /\ wants[q] = {}
    /\ Finish(q)
    /\ UNCHANGED tableVars

(* What is said of an appointment that is gone is forgotten. *)
Forget(gone) == {p \in spared : p[1] \notin gone}

(* ex_appointments_no_active_overlap: the exclusion constraint of the      *)
(* table, which knows nothing of the buffer or of blocks.                  *)
Excluded(s, x, moved) ==
    \E a \in Appts \ {moved} :
        Active(a) /\ appt[a].staff = s /\ Overlap(appt[a], x)

(* create_appointment, book, book_for_client: a new row, waiting for its   *)
(* deposit or confirmed.                                                   *)
Insert(q, a, st) ==
    LET x == job[q].slot
    IN  /\ pc[q] = "decided"
        /\ job[q].kind = "book"
        /\ appt[a].st = "none"
        /\ ~Excluded(target[q], x, Nobody)
        /\ appt' = [appt EXCEPT ![a] =
             [st |-> st, staff |-> target[q], from |-> x.from, to |-> x.to]]
        /\ Finish(q)
        /\ UNCHANGED <<block, spared>>

(* _swap_for_new_slot, reschedule_by_client: the original is cancelled and *)
(* a new row takes its place.  A pending deposit by WhatsApp moves along;  *)
(* a payment stays with the original.                                      *)
Swap(q, a, st) ==
    LET x == job[q].slot
        old == job[q].moved
    IN  /\ pc[q] = "decided"
        /\ job[q].kind = "move"
        /\ appt[a].st = "none"
        /\ ~Excluded(target[q], x, old)
        /\ st = "firm" => appt[old].st = "firm"
        /\ appt' = [appt EXCEPT
             ![old] = NoRow,
             ![a] = [st |-> st, staff |-> target[q], from |-> x.from, to |-> x.to]]
        /\ spared' = Forget({old})
        /\ Finish(q)
        /\ UNCHANGED block

-----------------------------------------------------------------------------
(* Blocks.                                                                 *)

(* create_blocks: one professional or every one, one range or several.     *)
(* Blocks bounds the rows: there is one left for each that is asked for.   *)
AskClose(q, members, ranges) ==
    /\ pc[q] = "idle"
    /\ Cardinality(members \X ranges)
         <= Cardinality({b \in Blocks : block[b].st = "none"})
    /\ pc' = [pc EXCEPT ![q] = "staff"]
    /\ job' = [job EXCEPT ![q] = [kind |-> "close", members |-> members,
                                  ranges |-> ranges]]
    /\ wants' = [wants EXCEPT ![q] = members]
    /\ UNCHANGED <<target, tableVars, lockVars>>

Lower(m, n) == IF m < n THEN m ELSE n
Higher(m, n) == IF m < n THEN n ELSE m

(* Mutant: a block that is switched on again covers nothing new. *)
AddedOnlyByRange(saw, plan) ==
    IF plan.st # "on" THEN {}
    ELSE (IF plan.from < saw.from
          THEN {[from |-> plan.from, to |-> Lower(plan.to, saw.from)]} ELSE {})
           \cup
         (IF saw.to < plan.to
          THEN {[from |-> Higher(plan.from, saw.to), to |-> plan.to]} ELSE {})

(* added_ranges: what the block begins to cover *)
Added(saw, plan) ==
    IF plan.st # "on" THEN {}
    ELSE IF saw.st # "on" THEN {[from |-> plan.from, to |-> plan.to]}
    ELSE (IF plan.from < saw.from
          THEN {[from |-> plan.from, to |-> Lower(plan.to, saw.from)]} ELSE {})
           \cup
         (IF saw.to < plan.to
          THEN {[from |-> Higher(plan.from, saw.to), to |-> plan.to]} ELSE {})

(* update_block, delete_block: the block is read before any lock.          *)
AskEdit(q, b, st, x) ==
    LET saw == [st |-> block[b].st, from |-> block[b].from, to |-> block[b].to]
        plan == [st |-> st, from |-> x.from, to |-> x.to]
    IN  /\ pc[q] = "idle"
        /\ Cardinality({p \in Requests : job[p].kind = "edit"}) < MaxEdits
        /\ block[b].st # "none"
        /\ plan # saw
        /\ pc' = [pc EXCEPT ![q] = "staff"]
        /\ job' = [job EXCEPT ![q] =
             [kind |-> "edit", members |-> {block[b].staff},
              ranges |-> Added(saw, plan), block |-> b, saw |-> saw, plan |-> plan]]
        /\ wants' = [wants EXCEPT ![q] = {block[b].staff}]
        /\ UNCHANGED <<target, tableVars, lockVars>>

(* Mutant: the rows come in the order of another query. *)
NextMemberUnordered(q) == wants[q]

(* lock_staff_rows: ORDER BY id *)
NextMember(q) == {s \in wants[q] : \A t \in wants[q] : s <= t}

LockMember(q, s) ==
    /\ pc[q] = "staff"
    /\ job[q].kind \in {"close", "edit"}
    /\ s \in NextMember(q)
    /\ staffLock[s] = Nobody
    /\ staffLock' = [staffLock EXCEPT ![s] = q]
    /\ wants' = [wants EXCEPT ![q] = @ \ {s}]
    /\ pc' = [pc EXCEPT ![q] = IF wants[q] = {s} THEN "appts" ELSE "staff"]
    /\ UNCHANGED <<job, target, apptLock, tableVars>>

(* The rows of list_active_overlapping are locked as they come: ORDER BY   *)
(* starts_at.                                                              *)
NextAffected(q) ==
    LET left == {a \in Affected(q) : apptLock[a] # q}
    IN  {a \in left : \A c \in left : appt[a].from <= appt[c].from}

LockAffected(q, a) ==
    /\ pc[q] = "appts"
    /\ a \in NextAffected(q)
    /\ apptLock[a] = Nobody
    /\ apptLock' = [apptLock EXCEPT ![a] = q]
    /\ UNCHANGED <<staffLock, reqVars, tableVars>>

AllLocked(q) == pc[q] = "appts" /\ NextAffected(q) = {}

(* _lock_and_resolve_affected: somebody has an appointment there and       *)
(* nobody asked to cancel it (cancel_affected, read only here): 409.       *)
RefuseClose(q) ==
    /\ AllLocked(q)
    /\ Affected(q) # {}
    /\ Finish(q)
    /\ UNCHANGED tableVars

(* _classify, _cancel_for_block: the ones without a deposit are cancelled, *)
(* the others stay for a person to decide, under the blocks bs.  A pair    *)
(* that is no longer under its block is not spared any more.               *)
CancelAffected(q, bs) ==
    /\ AllLocked(q)
    /\ appt' = [a \in Appts |->
         IF a \in Affected(q) /\ appt[a].st = "open" THEN NoRow ELSE appt[a]]
    /\ spared' = {p \in spared \cup {a \in Affected(q) : appt[a].st = "firm"} \X bs :
                     Under(p[1], p[2])'}

(* create_blocks: a row for each professional and range, the new row b for *)
(* row[b]                                                                  *)
WriteBlocks(q, new) ==
    /\ job[q].kind = "close"
    /\ \A b \in new : block[b].st = "none"
    /\ \E row \in Bijection(new, job[q].members \X job[q].ranges) :
         block' = [b \in Blocks |->
             IF b \in new
             THEN [st |-> "on", staff |-> row[b][1],
                   from |-> row[b][2].from, to |-> row[b][2].to]
             ELSE block[b]]
    /\ CancelAffected(q, new)
    /\ Finish(q)

(* update_block: the ORM writes the columns that differ from what it read. *)
Net(was, planned, now) == IF planned = was THEN now ELSE planned

WriteEdit(q) ==
    LET b == job[q].block
        saw == job[q].saw
        plan == job[q].plan
    IN  /\ job[q].kind = "edit"
        /\ block' = [block EXCEPT ![b] =
             [st |-> Net(saw.st, plan.st, block[b].st), staff |-> block[b].staff,
              from |-> Net(saw.from, plan.from, block[b].from),
              to |-> Net(saw.to, plan.to, block[b].to)]]
        /\ CancelAffected(q, {b})
        /\ Finish(q)

-----------------------------------------------------------------------------
(* Other transactions that lock an appointment.                            *)

(* A payment is accredited. *)
Pay(a) ==
    /\ apptLock[a] = Nobody
    /\ appt[a].st = "open"
    /\ appt' = [appt EXCEPT ![a] = [st |-> "firm", staff |-> appt[a].staff,
                                    from |-> appt[a].from, to |-> appt[a].to]]
    /\ UNCHANGED <<block, spared, lockVars, reqVars>>

(* It is given back: refund writes the payment and does not lock the       *)
(* appointment.                                                            *)
Refund(a) ==
    /\ appt[a].st = "firm"
    /\ appt' = [appt EXCEPT ![a] = [st |-> "open", staff |-> appt[a].staff,
                                    from |-> appt[a].from, to |-> appt[a].to]]
    /\ UNCHANGED <<block, spared, lockVars, reqVars>>

(* It is cancelled, expires or takes place. *)
Release(a) ==
    /\ apptLock[a] = Nobody
    /\ Active(a)
    /\ appt' = [appt EXCEPT ![a] = NoRow]
    /\ spared' = Forget({a})
    /\ UNCHANGED <<block, lockVars, reqVars>>

-----------------------------------------------------------------------------
(* One professional was asked for, or whoever can.                         *)
BookStep(q) ==
    \/ \E x \in Slots, cs \in (SUBSET Staff) \ {{}} : AskSlot(q, x, cs)
    \/ \E a \in Appts, x \in Slots : AskMove(q, a, x)
    \/ \E s \in Staff : LockCandidate(q, s)
    \/ Take(q) \/ Skip(q) \/ Refuse(q)
    \/ \E a \in Appts, st \in {"open", "firm"} :
            Insert(q, a, st) \/ Swap(q, a, st)

CloseStep(q) ==
    \/ \E ms \in {Staff} \cup {{s} : s \in Staff},
          xs \in (SUBSET Closures) \ {{}} : AskClose(q, ms, xs)
    \/ \E b \in Blocks, st \in {"on", "off"}, x \in Closures :
            AskEdit(q, b, st, x)
    \/ \E s \in Staff : LockMember(q, s)
    \/ \E a \in Appts : LockAffected(q, a)
    \/ RefuseClose(q)
    \/ \E new \in SUBSET Blocks : WriteBlocks(q, new)
    \/ WriteEdit(q)

Next ==
    \/ \E q \in Requests : BookStep(q) \/ CloseStep(q) \/ Abort(q)
    \/ \E a \in Appts : Pay(a) \/ Refund(a) \/ Release(a)

Spec == Init /\ [][Next]_vars

-----------------------------------------------------------------------------
(* Two active appointments of a professional keep the buffer of the store  *)
(* between them.  The exclusion constraint does not know the buffer: only  *)
(* the order of lock and read in every writer keeps it (lock_and_read_range*)
(* "BAJO el lock").                                                        *)
GapKept ==
    \A a, c \in Appts :
        (a # c /\ Active(a) /\ Active(c) /\ appt[a].staff = appt[c].staff)
            => \/ appt[a].to + Buffer <= appt[c].from
               \/ appt[c].to + Buffer <= appt[a].from

(* No active appointment is inside an active block ("Invariante final" of  *)
(* tests/postgres/test_pg_bloqueos.py), except the ones a manager was told *)
(* about and that only a person may cancel.                                *)
BlockedIsClear ==
    \A a \in Appts, b \in Blocks :
        Under(a, b) => <<a, b>> \in spared

(* Whom a request waits for. *)
Waits(q) ==
    IF pc[q] = "staff"
    THEN {staffLock[s] :
            s \in IF job[q].kind \in {"book", "move"} THEN NextCandidate(q)
                  ELSE NextMember(q)} \ {Nobody}
    ELSE IF pc[q] = "appts" THEN {apptLock[a] : a \in NextAffected(q)} \ {Nobody}
    ELSE {}

(* Requests wait for each other in a circle only in the two ways that      *)
(* lock_staff_rows documents (S-18): a writer of blocks against a          *)
(* reschedule, or against a booking that has gone on to another candidate. *)
DeadlockIsKnown ==
    \A K \in (SUBSET Requests) \ {{}} :
        (\A q \in K : Waits(q) \cap K # {}) =>
            /\ \E q \in K : job[q].kind \in {"close", "edit"}
            /\ \E q \in K : \/ job[q].kind = "move"
                            \/ job[q].kind = "book" /\ target[q] # Nobody
=============================================================================
