----------------------------- MODULE SlotsProofs -----------------------------
(* The agenda of a professional and the cache of what it offers, for every    *)
(* number of professionals, requests, appointments, blocks, readers and writers. *)
EXTENDS Slots, AvailabilityCache, FiniteSetTheorems, WellFoundedInduction,
        TLAPS

-----------------------------------------------------------------------------
(* What the record of a request holds.                                     *)

(* A booking or a reschedule has a slot. *)
LEMMA SlotJob ==
    ASSUME NEW j \in Job, j.kind \in {"book", "move"}
    PROVE  j.slot \in Slots
BY DEF Job

(* A reschedule has the appointment it moves. *)
LEMMA MoveJob ==
    ASSUME NEW j \in Job, j.kind = "move"
    PROVE  j.moved \in Appts
BY DEF Job

(* A writer of blocks has professionals and ranges. *)
LEMMA CloseJob ==
    ASSUME NEW j \in Job, j.kind \in {"close", "edit"}
    PROVE  j.members \subseteq Staff /\ j.ranges \subseteq Span
BY DEF Job

(* An edit has the block, what it was and what it is to be. *)
LEMMA EditJob ==
    ASSUME NEW j \in Job, j.kind = "edit"
    PROVE  /\ j.block \in Blocks
           /\ j.saw \in [st : {"on", "off"}, from : Nat, to : Nat]
           /\ j.plan \in [st : {"on", "off"}, from : Nat, to : Nat]
BY DEF Job

(* The ranges an edit adds are ranges. *)
LEMMA AddedSpans ==
    ASSUME NEW saw, NEW plan,
           saw.from \in Nat, saw.to \in Nat, plan.from \in Nat, plan.to \in Nat
    PROVE  Added(saw, plan) \subseteq Span
BY DEF Added, Span, Lower, Higher

-----------------------------------------------------------------------------
(* The rows that exist have a professional, and an appointment is not      *)
(* longer than MaxSpan.                                                    *)
RowsInv ==
    /\ \A a \in Appts : Active(a) =>
         /\ appt[a].staff \in Staff
         /\ appt[a].from < appt[a].to
         /\ appt[a].to <= appt[a].from + MaxSpan
    /\ \A b \in Blocks : block[b].st # "none" => block[b].staff \in Staff

(* Where a request is tells which rows of staff it holds. *)
HoldInv ==
    \A q \in Requests :
        /\ pc[q] = "idle" => job[q].kind = "none"
        /\ pc[q] = "staff" => job[q].kind # "none"
        /\ pc[q] \in {"locked", "decided"} =>
             /\ job[q].kind \in {"book", "move"}
             /\ target[q] \in Staff
             /\ staffLock[target[q]] = q
        /\ pc[q] = "appts" =>
             job[q].kind \in {"close", "edit"} /\ wants[q] = {}
        /\ (pc[q] \in {"staff", "appts"} /\ job[q].kind \in {"close", "edit"}) =>
             \A s \in job[q].members : s \notin wants[q] => staffLock[s] = q

(* What a request decided is still true: nobody else writes into the time  *)
(* of a professional it has locked.                                        *)
DecidedInv ==
    \A q \in Requests :
        pc[q] = "decided" => ~Busy(target[q], job[q].slot, Moved(q))

(* The block of an edit exists and its professional is the one to lock. *)
EditInv ==
    \A q \in Requests : job[q].kind = "edit" =>
        /\ block[job[q].block].st # "none"
        /\ job[q].members = {block[job[q].block].staff}

SlotsInv == TypeOK /\ RowsInv /\ HoldInv /\ EditInv /\ DecidedInv /\ GapKept

-----------------------------------------------------------------------------
(* The end of a transaction keeps the types. *)
LEMMA FinishType ==
    ASSUME TypeOK, NEW q \in Requests, Finish(q)
    PROVE  /\ staffLock' \in [Staff -> Requests \cup {Nobody}]
           /\ apptLock' \in [Appts -> Requests \cup {Nobody}]
           /\ pc' \in [Requests -> {"idle", "staff", "locked", "decided", "appts"}]
           /\ job' \in [Requests -> Job]
           /\ wants' \in [Requests -> SUBSET Staff]
           /\ target' \in [Requests -> Staff \cup {Nobody}]
<1>1. [kind |-> "none"] \in Job
  BY DEF Job
<1>2. job' \in [Requests -> Job]
  BY <1>1 DEF Finish, TypeOK
<1>3. QED
  BY <1>2 DEF Finish, TypeOK

(* The end of a transaction keeps what the other requests hold. *)
LEMMA FinishHold ==
    ASSUME TypeOK, HoldInv, NEW q \in Requests, Finish(q)
    PROVE  HoldInv'
<1> SUFFICES ASSUME NEW p \in Requests
             PROVE  /\ pc'[p] = "idle" => job'[p].kind = "none"
                    /\ pc'[p] = "staff" => job'[p].kind # "none"
                    /\ pc'[p] \in {"locked", "decided"} =>
                         /\ job'[p].kind \in {"book", "move"}
                         /\ target'[p] \in Staff
                         /\ staffLock'[target'[p]] = p
                    /\ pc'[p] = "appts" =>
                         job'[p].kind \in {"close", "edit"} /\ wants'[p] = {}
                    /\ (pc'[p] \in {"staff", "appts"}
                          /\ job'[p].kind \in {"close", "edit"}) =>
                         \A s \in job'[p].members :
                             s \notin wants'[p] => staffLock'[s] = p
  BY DEF HoldInv
<1>1. CASE p = q
  BY <1>1 DEF Finish, TypeOK
<1>2. CASE p # q
  <2>1. /\ pc'[p] = pc[p] /\ job'[p] = job[p] /\ wants'[p] = wants[p]
        /\ target'[p] = target[p]
    BY <1>2 DEF Finish, TypeOK
  <2>2. \A s \in Staff : staffLock[s] = p => staffLock'[s] = p
    BY <1>2 DEF Finish, TypeOK
  <2>3. job[p].kind \in {"close", "edit"} => job[p].members \subseteq Staff
    BY CloseJob DEF TypeOK
  <2>4. QED
    BY <2>1, <2>2, <2>3 DEF HoldInv
<1>3. QED
  BY <1>1, <1>2

(* Active appointments that stay where they were keep the gap. *)
FewerAppts == \A a \in Appts : appt'[a] = appt[a] \/ appt'[a] = NoRow
                 \/ /\ Active(a) /\ appt'[a].st # "none"
                    /\ appt'[a].staff = appt[a].staff
                    /\ appt'[a].from = appt[a].from
                    /\ appt'[a].to = appt[a].to

(* A request that another step leaves alone stays decided, when the        *)
(* appointments only become fewer and the blocks of its professional stay. *)
LEMMA StaysDecided ==
    ASSUME TypeOK, DecidedInv, FewerAppts, NEW p \in Requests,
           pc[p] = "decided", target'[p] = target[p], job'[p] = job[p],
           \A b \in Blocks : block'[b] = block[b] \/ block'[b].staff # target[p]
    PROVE  ~Busy(target[p], job[p].slot, Moved(p))'
<1>1. ~Busy(target[p], job[p].slot, Moved(p))
  BY DEF DecidedInv
<1>2. Moved(p)' = Moved(p)
  BY DEF Moved
<1>3. \A a \in Appts : Clashes(a, target[p], job[p].slot)'
                         => Clashes(a, target[p], job[p].slot)
  BY DEF Clashes, FewerAppts, Active, NoRow
<1>4. \A b \in Blocks : Covers(b, target[p], job[p].slot)'
                         => Covers(b, target[p], job[p].slot)
  BY DEF Covers, Overlap
<1>5. QED
  BY <1>1, <1>2, <1>3, <1>4 DEF Busy

(* A new job with its professionals keeps the types. *)
LEMMA AskType ==
    ASSUME TypeOK, NEW q \in Requests, NEW j \in Job, NEW w \in SUBSET Staff,
           pc' = [pc EXCEPT ![q] = "staff"],
           job' = [job EXCEPT ![q] = j],
           wants' = [wants EXCEPT ![q] = w],
           UNCHANGED <<target, tableVars, staffLock>>,
           apptLock' \in [Appts -> Requests \cup {Nobody}]
    PROVE  TypeOK'
BY DEF TypeOK, tableVars

(* What the cancellation of affected appointments leaves is well typed. *)
LEMMA CancelType ==
    ASSUME TypeOK, NEW q \in Requests, NEW bs \in SUBSET Blocks,
           CancelAffected(q, bs)
    PROVE  /\ appt' \in [Appts -> [st : ApptStates, staff : Staff \cup {Nobody},
                                   from : Nat, to : Nat]]
           /\ spared' \subseteq Appts \X Blocks
<1>1. NoRow \in [st : ApptStates, staff : Staff \cup {Nobody}, from : Nat, to : Nat]
  BY DEF NoRow, ApptStates
<1>2. Affected(q) \subseteq Appts
  BY DEF Affected
<1>3. QED
  BY <1>1, <1>2 DEF CancelAffected, TypeOK

(* Every step keeps the types. *)
LEMMA NextType ==
    ASSUME TypeOK, RowsInv, Next
    PROVE  TypeOK'
<1> DEFINE Goal == TypeOK'
<1> SUFFICES Goal
  OBVIOUS
<1> USE SlotsAssumption
<1>1. ASSUME NEW q \in Requests, NEW x \in Slots, NEW cs \in SUBSET Staff,
             AskSlot(q, x, cs)
      PROVE  Goal
  <2>1. [kind |-> "book", slot |-> x] \in Job
    BY DEF Job
  <2>2. PICK w \in SUBSET Staff : wants' = [wants EXCEPT ![q] = w]
    BY <1>1 DEF AskSlot
  <2>3. QED
    BY <1>1, <2>1, <2>2, AskType DEF AskSlot, lockVars, TypeOK
<1>2. ASSUME NEW q \in Requests, NEW a \in Appts, NEW x \in Slots, AskMove(q, a, x)
      PROVE  Goal
  <2>1. [kind |-> "move", slot |-> x, moved |-> a] \in Job
    BY DEF Job
  <2>2. {appt[a].staff} \in SUBSET Staff
    BY <1>2 DEF AskMove, RowsInv
  <2>3. apptLock' \in [Appts -> Requests \cup {Nobody}]
    BY <1>2 DEF AskMove, TypeOK
  <2>4. QED
    BY <1>2, <2>1, <2>2, <2>3, AskType DEF AskMove
<1>3. ASSUME NEW q \in Requests, NEW s \in Staff, LockCandidate(q, s)
      PROVE  Goal
  BY <1>3 DEF LockCandidate, TypeOK, tableVars
<1>4. ASSUME NEW q \in Requests, Take(q) \/ Skip(q)
      PROVE  Goal
  BY <1>4 DEF Take, Skip, TypeOK, tableVars, lockVars
<1>5. ASSUME NEW q \in Requests, Refuse(q) \/ RefuseClose(q) \/ Abort(q)
      PROVE  Goal
  <2>1. Finish(q) /\ UNCHANGED tableVars
    BY <1>5 DEF Refuse, RefuseClose, Abort
  <2>2. QED
    BY <2>1, FinishType DEF TypeOK, tableVars
<1>6. ASSUME NEW q \in Requests, NEW a \in Appts, NEW st \in {"open", "firm"},
             Insert(q, a, st)
      PROVE  Goal
  <2>1. job[q].slot \in Span
    BY <1>6, SlotJob DEF Insert, TypeOK
  <2>2. appt' \in [Appts -> [st : ApptStates, staff : Staff \cup {Nobody},
                             from : Nat, to : Nat]]
    BY <1>6, <2>1 DEF Insert, TypeOK, ApptStates, Span
  <2>3. QED
    BY <1>6, <2>2, FinishType DEF Insert, TypeOK
<1>7. ASSUME NEW q \in Requests, NEW a \in Appts, NEW st \in {"open", "firm"},
             Swap(q, a, st)
      PROVE  Goal
  <2>1. job[q].slot \in Span /\ job[q].moved \in Appts
    BY <1>7, SlotJob, MoveJob DEF Swap, TypeOK
  <2>2. NoRow \in [st : ApptStates, staff : Staff \cup {Nobody},
                   from : Nat, to : Nat]
    BY DEF NoRow, ApptStates
  <2>3. appt' \in [Appts -> [st : ApptStates, staff : Staff \cup {Nobody},
                             from : Nat, to : Nat]]
    BY <1>7, <2>1, <2>2 DEF Swap, TypeOK, ApptStates, Span
  <2>4. QED
    BY <1>7, <2>3, FinishType DEF Swap, TypeOK, Forget
<1>8. ASSUME NEW q \in Requests, NEW ms \in SUBSET Staff, NEW xs \in SUBSET Closures,
             AskClose(q, ms, xs)
      PROVE  Goal
  <2>1. [kind |-> "close", members |-> ms, ranges |-> xs] \in Job
    BY DEF Job
  <2>2. QED
    BY <1>8, <2>1, AskType DEF AskClose, lockVars, TypeOK
<1>9. ASSUME NEW q \in Requests, NEW b \in Blocks, NEW st \in {"on", "off"},
             NEW x \in Closures, AskEdit(q, b, st, x)
      PROVE  Goal
  <2> DEFINE saw == [st |-> block[b].st, from |-> block[b].from, to |-> block[b].to]
             plan == [st |-> st, from |-> x.from, to |-> x.to]
  <2>1. x \in Span /\ block[b].staff \in Staff /\ block[b].st # "none"
    BY <1>9 DEF AskEdit, RowsInv
  <2>2. /\ saw \in [st : {"on", "off"}, from : Nat, to : Nat]
        /\ plan \in [st : {"on", "off"}, from : Nat, to : Nat]
    BY <2>1 DEF TypeOK, BlockStates, Span
  <2>3. Added(saw, plan) \subseteq Span
    BY <2>2, AddedSpans
  <2> DEFINE j == [kind |-> "edit", members |-> {block[b].staff},
                   ranges |-> Added(saw, plan), block |-> b,
                   saw |-> saw, plan |-> plan]
  <2>4. j \in [kind : {"edit"}, members : SUBSET Staff, ranges : SUBSET Span,
               block : Blocks,
               saw : [st : {"on", "off"}, from : Nat, to : Nat],
               plan : [st : {"on", "off"}, from : Nat, to : Nat]]
    <3> HIDE DEF saw, plan
    <3> QED
      BY <2>1, <2>2, <2>3
  <2>5. j \in Job
    <3> HIDE DEF j
    <3> QED
      BY <2>4 DEF Job
  <2>6. /\ pc' = [pc EXCEPT ![q] = "staff"]
        /\ job' = [job EXCEPT ![q] = j]
        /\ wants' = [wants EXCEPT ![q] = {block[b].staff}]
        /\ UNCHANGED <<target, tableVars, staffLock, apptLock>>
    BY <1>9 DEF AskEdit, lockVars
  <2>7. QED
    <3> HIDE DEF j
    <3>1. {block[b].staff} \in SUBSET Staff
      BY <2>1
    <3>2. apptLock' \in [Appts -> Requests \cup {Nobody}]
      BY <2>6 DEF TypeOK
    <3>3. QED
      BY <2>5, <2>6, <3>1, <3>2, AskType
<1>10. ASSUME NEW q \in Requests, NEW s \in Staff, LockMember(q, s)
       PROVE  Goal
  BY <1>10 DEF LockMember, TypeOK, tableVars
<1>11. ASSUME NEW q \in Requests, NEW a \in Appts, LockAffected(q, a)
       PROVE  Goal
  BY <1>11 DEF LockAffected, TypeOK, tableVars, reqVars
<1>12. ASSUME NEW q \in Requests, NEW new \in SUBSET Blocks, WriteBlocks(q, new)
       PROVE  Goal
  <2>1. job[q].members \subseteq Staff /\ job[q].ranges \subseteq Span
    BY <1>12, CloseJob DEF WriteBlocks, TypeOK
  <2>2. PICK row \in [new -> job[q].members \X job[q].ranges] :
          block' = [b \in Blocks |->
             IF b \in new
             THEN [st |-> "on", staff |-> row[b][1],
                   from |-> row[b][2].from, to |-> row[b][2].to]
             ELSE block[b]]
    BY <1>12 DEF WriteBlocks, Bijection, Injection
  <2>3. \A b \in new : row[b][1] \in Staff /\ row[b][2] \in Span
    BY <2>1, <2>2
  <2>4. block' \in [Blocks -> [st : BlockStates, staff : Staff \cup {Nobody},
                               from : Nat, to : Nat]]
    BY <2>2, <2>3 DEF TypeOK, BlockStates, Span
  <2>5. CancelAffected(q, new) /\ Finish(q)
    BY <1>12 DEF WriteBlocks
  <2>6. QED
    BY <2>4, <2>5, FinishType, CancelType DEF TypeOK
<1>13. ASSUME NEW q \in Requests, WriteEdit(q)
       PROVE  Goal
  <2>1. /\ job[q].block \in Blocks
        /\ job[q].saw \in [st : {"on", "off"}, from : Nat, to : Nat]
        /\ job[q].plan \in [st : {"on", "off"}, from : Nat, to : Nat]
    BY <1>13, EditJob DEF WriteEdit, TypeOK
  <2>2. block' \in [Blocks -> [st : BlockStates, staff : Staff \cup {Nobody},
                               from : Nat, to : Nat]]
    BY <1>13, <2>1 DEF WriteEdit, Net, TypeOK, BlockStates
  <2>3. {job[q].block} \in SUBSET Blocks
    BY <2>1
  <2>4. QED
    BY <1>13, <2>2, <2>3, FinishType, CancelType DEF WriteEdit, TypeOK
<1>14. ASSUME NEW a \in Appts, Pay(a) \/ Refund(a)
       PROVE  Goal
  BY <1>14 DEF Pay, Refund, TypeOK, ApptStates, lockVars, reqVars
<1>15. ASSUME NEW a \in Appts, Release(a)
       PROVE  Goal
  BY <1>15 DEF Release, TypeOK, ApptStates, NoRow, Forget, lockVars, reqVars
<1> HIDE DEF Goal
<1>16. QED
  BY <1>1, <1>2, <1>3, <1>4, <1>5, <1>6, <1>7, <1>8, <1>9, <1>10, <1>11,
     <1>12, <1>13, <1>14, <1>15
  DEF Next, BookStep, CloseStep

-----------------------------------------------------------------------------
(* The steps that write no table; the others follow one by one. *)
Quiet(q) ==
    \/ \E x \in Slots, cs \in SUBSET Staff : AskSlot(q, x, cs)
    \/ \E a \in Appts, x \in Slots : AskMove(q, a, x)
    \/ \E s \in Staff : LockCandidate(q, s)
    \/ Take(q) \/ Skip(q) \/ Refuse(q)
    \/ \E ms \in SUBSET Staff, xs \in SUBSET Closures : AskClose(q, ms, xs)
    \/ \E b \in Blocks, st \in {"on", "off"}, x \in Closures : AskEdit(q, b, st, x)
    \/ \E s \in Staff : LockMember(q, s)
    \/ \E a \in Appts : LockAffected(q, a)
    \/ RefuseClose(q)
    \/ Abort(q)

(* The steps of Next, by what they write. *)
LEMMA NextCases ==
    ASSUME Next
    PROVE  \/ \E q \in Requests : Quiet(q)
           \/ \E q \in Requests, a \in Appts, st \in {"open", "firm"} : Insert(q, a, st)
           \/ \E q \in Requests, a \in Appts, st \in {"open", "firm"} : Swap(q, a, st)
           \/ \E q \in Requests, new \in SUBSET Blocks : WriteBlocks(q, new)
           \/ \E q \in Requests : WriteEdit(q)
           \/ \E a \in Appts : Pay(a) \/ Refund(a)
           \/ \E a \in Appts : Release(a)
BY DEF Next, BookStep, CloseStep, Quiet

(* A quiet step writes no table. *)
LEMMA QuietTables ==
    ASSUME NEW q \in Requests, Quiet(q)
    PROVE  UNCHANGED tableVars
BY DEF Quiet, AskSlot, AskMove, LockCandidate, Take, Skip, Refuse, AskClose,
       AskEdit, LockMember, LockAffected, RefuseClose, Abort, tableVars

(* The new rows of a closure belong to its professionals. *)
LEMMA NewBlocks ==
    ASSUME TypeOK, NEW q \in Requests, NEW new \in SUBSET Blocks, WriteBlocks(q, new)
    PROVE  /\ \A b \in Blocks \ new : block'[b] = block[b]
           /\ \A b \in new : /\ block[b].st = "none"
                             /\ block'[b].st = "on"
                             /\ block'[b].staff \in job[q].members
                             /\ \E x \in job[q].ranges :
                                  block'[b].from = x.from /\ block'[b].to = x.to
<1>1. PICK row \in [new -> job[q].members \X job[q].ranges] :
        block' = [b \in Blocks |->
           IF b \in new
           THEN [st |-> "on", staff |-> row[b][1],
                 from |-> row[b][2].from, to |-> row[b][2].to]
           ELSE block[b]]
  BY DEF WriteBlocks, Bijection, Injection
<1>2. \A b \in new : row[b][1] \in job[q].members /\ row[b][2] \in job[q].ranges
  BY <1>1
<1>3. QED
  BY <1>1, <1>2 DEF WriteBlocks

(* An edit changes its block only, and never whose it is. *)
LEMMA EditedBlock ==
    ASSUME TypeOK, NEW q \in Requests, WriteEdit(q)
    PROVE  /\ job[q].block \in Blocks
           /\ \A b \in Blocks : b # job[q].block => block'[b] = block[b]
           /\ block'[job[q].block].st # "none"
                \/ block[job[q].block].st = "none"
           /\ block'[job[q].block].staff = block[job[q].block].staff
<1>1. /\ job[q].block \in Blocks
      /\ job[q].plan.st \in {"on", "off"}
  BY EditJob DEF WriteEdit, TypeOK
<1>2. QED
  BY <1>1 DEF WriteEdit, Net, TypeOK

(* Cancelling for a block takes appointments away. *)
LEMMA CancelFewer ==
    ASSUME TypeOK, NEW q \in Requests, NEW bs, CancelAffected(q, bs)
    PROVE  FewerAppts
BY DEF CancelAffected, FewerAppts, TypeOK

(* Taking appointments away keeps the gaps. *)
LEMMA FewerGap ==
    ASSUME FewerAppts, GapKept
    PROVE  GapKept'
BY DEF FewerAppts, GapKept, Active, NoRow

(* Taking appointments away keeps the rows in order. *)
LEMMA FewerRows ==
    ASSUME FewerAppts, RowsInv,
           \A b \in Blocks : block'[b].st # "none" => block'[b].staff \in Staff
    PROVE  RowsInv'
BY DEF FewerAppts, RowsInv, Active, NoRow

(* Every step keeps the rows in order. *)
LEMMA NextRows ==
    ASSUME SlotsInv, Next
    PROVE  RowsInv'
<1> DEFINE Goal == RowsInv'
<1> SUFFICES Goal
  OBVIOUS
<1> USE SlotsAssumption DEF SlotsInv
<1>1. ASSUME NEW q \in Requests, Quiet(q)
      PROVE  Goal
  BY <1>1, QuietTables DEF RowsInv, Active, tableVars
<1>2. ASSUME NEW q \in Requests, NEW a \in Appts, NEW st \in {"open", "firm"},
             Insert(q, a, st)
      PROVE  Goal
  <2>1. job[q].slot \in Slots /\ target[q] \in Staff
    BY <1>2, SlotJob DEF Insert, TypeOK, HoldInv
  <2>2. QED
    BY <1>2, <2>1 DEF Insert, RowsInv, Active, TypeOK
<1>3. ASSUME NEW q \in Requests, NEW a \in Appts, NEW st \in {"open", "firm"},
             Swap(q, a, st)
      PROVE  Goal
  <2>1. job[q].slot \in Slots /\ target[q] \in Staff /\ job[q].moved \in Appts
    BY <1>3, SlotJob, MoveJob DEF Swap, TypeOK, HoldInv
  <2>2. QED
    BY <1>3, <2>1 DEF Swap, RowsInv, Active, TypeOK, NoRow
<1>4. ASSUME NEW q \in Requests, NEW new \in SUBSET Blocks, WriteBlocks(q, new)
      PROVE  Goal
  <2>1. FewerAppts
    BY <1>4, CancelFewer DEF WriteBlocks
  <2>2. job[q].members \subseteq Staff
    BY <1>4, CloseJob DEF WriteBlocks, TypeOK
  <2>3. \A b \in Blocks : block'[b].st # "none" => block'[b].staff \in Staff
    BY <1>4, <2>2, NewBlocks DEF RowsInv
  <2>4. QED
    BY <2>1, <2>3, FewerRows
<1>5. ASSUME NEW q \in Requests, WriteEdit(q)
      PROVE  Goal
  <2>1. FewerAppts
    BY <1>5, CancelFewer DEF WriteEdit
  <2>2. block[job[q].block].st # "none"
    BY <1>5 DEF WriteEdit, EditInv
  <2>3. \A b \in Blocks : block'[b].st # "none" => block'[b].staff \in Staff
    BY <1>5, <2>2, EditedBlock DEF RowsInv
  <2>4. QED
    BY <2>1, <2>3, FewerRows
<1>6. ASSUME NEW a \in Appts, Pay(a) \/ Refund(a) \/ Release(a)
      PROVE  Goal
  <2>1. FewerAppts /\ block' = block
    BY <1>6 DEF Pay, Refund, Release, FewerAppts, TypeOK, Active
  <2>2. QED
    BY <2>1, FewerRows DEF RowsInv
<1> HIDE DEF Goal
<1>7. QED
  BY <1>1, <1>2, <1>3, <1>4, <1>5, <1>6, NextCases

(* Every step keeps what an edit relies on. *)
LEMMA NextEdit ==
    ASSUME SlotsInv, Next
    PROVE  EditInv'
<1> DEFINE Goal == EditInv'
<1> SUFFICES Goal
  OBVIOUS
<1> USE SlotsAssumption DEF SlotsInv
<1>0. \A q \in Requests : job[q].kind = "edit" => job[q].block \in Blocks
  BY EditJob DEF TypeOK
<1>a. ASSUME NEW q \in Requests, Finish(q),
             \A b \in Blocks : block[b].st # "none" =>
                 block'[b].st # "none" /\ block'[b].staff = block[b].staff
      PROVE  Goal
  BY <1>0, <1>a DEF Finish, EditInv, TypeOK
<1>1. ASSUME NEW q \in Requests, Quiet(q)
      PROVE  Goal
  <2>1. block' = block
    BY <1>1, QuietTables DEF tableVars
  <2>2. ASSUME NEW b \in Blocks, NEW st \in {"on", "off"}, NEW x \in Closures,
               AskEdit(q, b, st, x)
        PROVE  Goal
    BY <2>1, <2>2, <1>0 DEF AskEdit, EditInv, TypeOK
  <2>3. ASSUME NEW x \in Slots, NEW cs \in SUBSET Staff, AskSlot(q, x, cs)
        PROVE  Goal
    BY <2>1, <2>3, <1>0 DEF AskSlot, EditInv, TypeOK
  <2>4. ASSUME NEW a \in Appts, NEW x \in Slots, AskMove(q, a, x)
        PROVE  Goal
    BY <2>1, <2>4, <1>0 DEF AskMove, EditInv, TypeOK
  <2>5. ASSUME NEW ms \in SUBSET Staff, NEW xs \in SUBSET Closures,
               AskClose(q, ms, xs)
        PROVE  Goal
    BY <2>1, <2>5, <1>0 DEF AskClose, EditInv, TypeOK
  <2>6. CASE UNCHANGED job
    BY <2>1, <2>6, <1>0 DEF EditInv
  <2>7. CASE Refuse(q) \/ RefuseClose(q) \/ Abort(q)
    BY <2>1, <2>7, <1>a DEF Refuse, RefuseClose, Abort
  <2> HIDE DEF Goal
  <2>8. QED
    BY <1>1, <2>2, <2>3, <2>4, <2>5, <2>6, <2>7
    DEF Quiet, LockCandidate, Take, Skip, LockMember, LockAffected, reqVars
<1>2. ASSUME NEW q \in Requests, NEW a \in Appts, NEW st \in {"open", "firm"},
             Insert(q, a, st)
      PROVE  Goal
  BY <1>2, <1>a DEF Insert
<1>3. ASSUME NEW q \in Requests, NEW a \in Appts, NEW st \in {"open", "firm"},
             Swap(q, a, st)
      PROVE  Goal
  BY <1>3, <1>a DEF Swap
<1>4. ASSUME NEW q \in Requests, NEW new \in SUBSET Blocks, WriteBlocks(q, new)
      PROVE  Goal
  <2>1. \A b \in Blocks : block[b].st # "none" => block'[b] = block[b]
    BY <1>4, NewBlocks
  <2>2. QED
    BY <1>4, <1>a, <2>1 DEF WriteBlocks
<1>5. ASSUME NEW q \in Requests, WriteEdit(q)
      PROVE  Goal
  <2>1. \A b \in Blocks : block[b].st # "none" =>
          block'[b].st # "none" /\ block'[b].staff = block[b].staff
    BY <1>5, EditedBlock
  <2>2. QED
    BY <1>5, <1>a, <2>1 DEF WriteEdit
<1>6. ASSUME NEW a \in Appts, Pay(a) \/ Refund(a) \/ Release(a)
      PROVE  Goal
  BY <1>6 DEF Pay, Refund, Release, EditInv, reqVars
<1> HIDE DEF Goal
<1>7. QED
  BY <1>1, <1>2, <1>3, <1>4, <1>5, <1>6, NextCases

(* A step of one request leaves what the others hold. *)
LEMMA OthersHold ==
    ASSUME TypeOK, HoldInv, NEW q \in Requests,
           \A p \in Requests \ {q} :
             /\ pc'[p] = pc[p] /\ job'[p] = job[p]
             /\ wants'[p] = wants[p] /\ target'[p] = target[p],
           \A s \in Staff : staffLock[s] # Nobody => staffLock'[s] = staffLock[s],
           /\ pc'[q] = "idle" => job'[q].kind = "none"
           /\ pc'[q] = "staff" => job'[q].kind # "none"
           /\ pc'[q] \in {"locked", "decided"} =>
                /\ job'[q].kind \in {"book", "move"}
                /\ target'[q] \in Staff
                /\ staffLock'[target'[q]] = q
           /\ pc'[q] = "appts" =>
                job'[q].kind \in {"close", "edit"} /\ wants'[q] = {}
           /\ (pc'[q] \in {"staff", "appts"} /\ job'[q].kind \in {"close", "edit"}) =>
                \A s \in job'[q].members : s \notin wants'[q] => staffLock'[s] = q
    PROVE  HoldInv'
<1>1. \A p \in Requests : job[p].kind \in {"close", "edit"} =>
        job[p].members \subseteq Staff
  BY CloseJob DEF TypeOK
<1>2. \A p \in Requests : p # Nobody
  BY SlotsAssumption
<1>3. QED
  BY <1>1, <1>2 DEF HoldInv

(* Every step keeps the locks where the requests are. *)
LEMMA NextHold ==
    ASSUME SlotsInv, Next
    PROVE  HoldInv'
<1> DEFINE Goal == HoldInv'
<1> SUFFICES Goal
  OBVIOUS
<1> USE SlotsAssumption DEF SlotsInv
<1>1. ASSUME NEW q \in Requests, Finish(q)
      PROVE  Goal
  BY <1>1, FinishHold
<1>2. ASSUME NEW q \in Requests, NEW x \in Slots, NEW cs \in SUBSET Staff,
             AskSlot(q, x, cs)
      PROVE  Goal
  BY <1>2, OthersHold DEF AskSlot, TypeOK, lockVars
<1>3. ASSUME NEW q \in Requests, NEW a \in Appts, NEW x \in Slots, AskMove(q, a, x)
      PROVE  Goal
  BY <1>3, OthersHold DEF AskMove, TypeOK
<1>4. ASSUME NEW q \in Requests, NEW s \in Staff, LockCandidate(q, s)
      PROVE  Goal
  BY <1>4, OthersHold DEF LockCandidate, TypeOK
<1>5. ASSUME NEW q \in Requests, Take(q) \/ Skip(q)
      PROVE  Goal
  BY <1>5, OthersHold DEF Take, Skip, TypeOK, HoldInv, lockVars
<1>6. ASSUME NEW q \in Requests, NEW ms \in SUBSET Staff, NEW xs \in SUBSET Closures,
             AskClose(q, ms, xs)
      PROVE  Goal
  BY <1>6, OthersHold DEF AskClose, TypeOK, lockVars
<1>7. ASSUME NEW q \in Requests, NEW b \in Blocks, NEW st \in {"on", "off"},
             NEW x \in Closures, AskEdit(q, b, st, x)
      PROVE  Goal
  BY <1>7, OthersHold DEF AskEdit, TypeOK, lockVars
<1>8. ASSUME NEW q \in Requests, NEW s \in Staff, LockMember(q, s)
      PROVE  Goal
  <2>1. job[q].members \subseteq Staff
    BY <1>8, CloseJob DEF LockMember, TypeOK
  <2>2. QED
    BY <1>8, <2>1, OthersHold DEF LockMember, TypeOK, HoldInv
<1>9. ASSUME NEW q \in Requests, NEW a \in Appts, LockAffected(q, a)
      PROVE  Goal
  BY <1>9 DEF LockAffected, HoldInv, reqVars
<1>10. ASSUME NEW a \in Appts, Pay(a) \/ Refund(a) \/ Release(a)
       PROVE  Goal
  BY <1>10 DEF Pay, Refund, Release, HoldInv, reqVars, lockVars
<1> HIDE DEF Goal
<1>11. ASSUME NEW q \in Requests, Quiet(q) PROVE Goal
  BY <1>1, <1>2, <1>3, <1>4, <1>5, <1>6, <1>7, <1>8, <1>9, <1>11
  DEF Quiet, Refuse, RefuseClose, Abort
<1>12. QED
  BY <1>1, <1>10, <1>11, NextCases DEF Insert, Swap, WriteBlocks, WriteEdit

(* A new appointment of somebody who holds another professional does not   *)
(* disturb a decided request.                                              *)
LEMMA InsertedElsewhere ==
    ASSUME TypeOK, DecidedInv, NEW p \in Requests, NEW a \in Appts,
           pc[p] = "decided", target'[p] = target[p], job'[p] = job[p],
           block' = block, appt'[a].staff # target[p],
           \A c \in Appts \ {a} : appt'[c] = appt[c] \/ appt'[c] = NoRow
    PROVE  ~Busy(target[p], job[p].slot, Moved(p))'
<1>1. ~Busy(target[p], job[p].slot, Moved(p))
  BY DEF DecidedInv
<1>2. Moved(p)' = Moved(p)
  BY DEF Moved
<1>3. \A c \in Appts : Clashes(c, target[p], job[p].slot)'
                         => Clashes(c, target[p], job[p].slot)
  BY DEF Clashes, Active, NoRow
<1>4. \A b \in Blocks : Covers(b, target[p], job[p].slot)'
                         => Covers(b, target[p], job[p].slot)
  BY DEF Covers, Overlap
<1>5. QED
  BY <1>1, <1>2, <1>3, <1>4 DEF Busy

(* The end of a transaction of q: the decided ones were decided before.    *)
LEMMA FinishDecided ==
    ASSUME TypeOK, NEW q \in Requests, Finish(q),
           NEW p \in Requests, pc'[p] = "decided"
    PROVE  p # q /\ pc[p] = "decided" /\ target'[p] = target[p] /\ job'[p] = job[p]
BY DEF Finish, TypeOK

(* Every step keeps what the others decided. *)
LEMMA NextDecided ==
    ASSUME SlotsInv, Next
    PROVE  DecidedInv'
<1> SUFFICES ASSUME NEW p \in Requests, pc'[p] = "decided"
             PROVE  ~Busy(target[p], job[p].slot, Moved(p))'
  BY DEF DecidedInv
<1> DEFINE Goal == ~Busy(target[p], job[p].slot, Moved(p))'
<1> SUFFICES Goal
  OBVIOUS
<1> USE SlotsAssumption DEF SlotsInv
<1>1. ASSUME NEW q \in Requests, Quiet(q)
      PROVE  Goal
  <2>1. UNCHANGED tableVars
    BY <1>1, QuietTables
  <2>2. CASE q = p /\ Take(q)
    <3>1. ~Busy(target[p], job[p].slot, Moved(p))
      BY <2>2 DEF Take
    <3>2. target' = target /\ job' = job
      BY <2>2 DEF Take
    <3>3. QED
      BY <2>1, <3>1, <3>2
      DEF Busy, Covers, Clashes, Active, Overlap, Moved, tableVars
  <2>3. CASE pc[p] = "decided" /\ target'[p] = target[p] /\ job'[p] = job[p]
    <3>1. FewerAppts /\ block' = block
      BY <2>1 DEF FewerAppts, tableVars
    <3>2. QED
      BY <2>3, <3>1, StaysDecided
  <2>4. (q = p /\ Take(q))
          \/ (pc[p] = "decided" /\ target'[p] = target[p] /\ job'[p] = job[p])
    <3>1. CASE q = p
      BY <1>1, <3>1, ZenonT(60)
      DEF Quiet, AskSlot, AskMove, LockCandidate, Skip, Refuse, AskClose, AskEdit,
          LockMember, LockAffected, RefuseClose, Abort, Finish, TypeOK, reqVars
    <3>2. CASE q # p
      BY <1>1, <3>2, ZenonT(60)
      DEF Quiet, AskSlot, AskMove, LockCandidate, Take, Skip, Refuse, AskClose,
          AskEdit, LockMember, LockAffected, RefuseClose, Abort, Finish, TypeOK,
          reqVars
    <3>3. QED
      BY <3>1, <3>2
  <2>5. QED
    BY <2>2, <2>3, <2>4
<1>2. ASSUME NEW q \in Requests, NEW a \in Appts, NEW st \in {"open", "firm"},
             Insert(q, a, st)
      PROVE  Goal
  <2>1. Finish(q)
    BY <1>2 DEF Insert
  <2>2. p # q /\ pc[p] = "decided" /\ target'[p] = target[p] /\ job'[p] = job[p]
    BY <2>1, FinishDecided
  <2>3. target[q] # target[p]
    BY <1>2, <2>2 DEF Insert, HoldInv
  <2>4. /\ block' = block /\ appt'[a].staff = target[q]
        /\ \A c \in Appts \ {a} : appt'[c] = appt[c]
    BY <1>2 DEF Insert, TypeOK
  <2>5. QED
    BY <2>2, <2>3, <2>4, InsertedElsewhere
<1>3. ASSUME NEW q \in Requests, NEW a \in Appts, NEW st \in {"open", "firm"},
             Swap(q, a, st)
      PROVE  Goal
  <2>1. Finish(q) /\ job[q].moved \in Appts
    BY <1>3, MoveJob DEF Swap, TypeOK
  <2>2. p # q /\ pc[p] = "decided" /\ target'[p] = target[p] /\ job'[p] = job[p]
    BY <2>1, FinishDecided
  <2>3. target[q] # target[p]
    BY <1>3, <2>2 DEF Swap, HoldInv
  <2>4. /\ block' = block /\ appt'[a].staff = target[q]
        /\ \A c \in Appts \ {a} : appt'[c] = appt[c] \/ appt'[c] = NoRow
    BY <1>3, <2>1 DEF Swap, TypeOK
  <2>5. QED
    BY <2>2, <2>3, <2>4, InsertedElsewhere
<1>4. ASSUME NEW q \in Requests, NEW new \in SUBSET Blocks, WriteBlocks(q, new)
      PROVE  Goal
  <2>1. Finish(q) /\ FewerAppts
    BY <1>4, CancelFewer DEF WriteBlocks
  <2>2. p # q /\ pc[p] = "decided" /\ target'[p] = target[p] /\ job'[p] = job[p]
    BY <2>1, FinishDecided
  <2>3. \A s \in job[q].members : staffLock[s] = q
    BY <1>4 DEF WriteBlocks, CancelAffected, AllLocked, HoldInv
  <2>4. target[p] \notin job[q].members
    BY <2>2, <2>3 DEF HoldInv
  <2>5. \A b \in Blocks : block'[b] = block[b] \/ block'[b].staff # target[p]
    BY <1>4, <2>4, NewBlocks
  <2>6. QED
    BY <2>1, <2>2, <2>5, StaysDecided
<1>5. ASSUME NEW q \in Requests, WriteEdit(q)
      PROVE  Goal
  <2>1. Finish(q) /\ FewerAppts
    BY <1>5, CancelFewer DEF WriteEdit
  <2>2. p # q /\ pc[p] = "decided" /\ target'[p] = target[p] /\ job'[p] = job[p]
    BY <2>1, FinishDecided
  <2>3. \A s \in job[q].members : staffLock[s] = q
    BY <1>5 DEF WriteEdit, CancelAffected, AllLocked, HoldInv
  <2>4. block[job[q].block].staff # target[p]
    BY <1>5, <2>2, <2>3 DEF HoldInv, EditInv, WriteEdit
  <2>5. \A b \in Blocks : block'[b] = block[b] \/ block'[b].staff # target[p]
    BY <1>5, <2>4, EditedBlock
  <2>6. QED
    BY <2>1, <2>2, <2>5, StaysDecided
<1>6. ASSUME NEW a \in Appts, Pay(a) \/ Refund(a) \/ Release(a)
      PROVE  Goal
  <2>1. FewerAppts /\ block' = block /\ pc' = pc /\ target' = target /\ job' = job
    BY <1>6 DEF Pay, Refund, Release, FewerAppts, TypeOK, Active, reqVars
  <2>2. QED
    BY <2>1, StaysDecided
<1> HIDE DEF Goal
<1>7. QED
  BY <1>1, <1>2, <1>3, <1>4, <1>5, <1>6, NextCases

(* A row that does not clash with a slot leaves the buffer free. *)
LEMMA NoClashGap ==
    ASSUME TypeOK, RowsInv, NEW c \in Appts, NEW s \in Staff, NEW x \in Slots,
           Active(c), appt[c].staff = s, ~Clashes(c, s, x)
    PROVE  \/ appt[c].to + Buffer <= x.from
           \/ x.to + Buffer <= appt[c].from
<1>1. /\ appt[c].from \in Nat /\ appt[c].to \in Nat
      /\ x.from \in Nat /\ x.to \in Nat
      /\ Buffer \in Nat /\ MaxSpan \in Nat
      /\ appt[c].to <= appt[c].from + MaxSpan
  BY SlotsAssumption DEF TypeOK, RowsInv, Span
<1>2. QED
  BY <1>1 DEF Clashes

(* Every step keeps the gap. *)
LEMMA NextGap ==
    ASSUME SlotsInv, Next
    PROVE  GapKept'
<1> DEFINE Goal == GapKept'
<1> SUFFICES Goal
  OBVIOUS
<1> USE SlotsAssumption DEF SlotsInv
<1>1. ASSUME NEW q \in Requests, NEW a \in Appts, NEW gone,
             pc[q] = "decided", Moved(q) = gone,
             appt'[a].staff = target[q],
             appt'[a].from = job[q].slot.from,
             appt'[a].to = job[q].slot.to,
             \A c \in Appts \ {a} :
                appt'[c] = NoRow \/ (c # gone /\ appt'[c] = appt[c])
      PROVE  Goal
  <2>1. job[q].slot \in Slots /\ target[q] \in Staff
    BY <1>1, SlotJob DEF HoldInv, TypeOK
  <2>2. \A c \in Appts : c # gone => ~Clashes(c, target[q], job[q].slot)
    BY <1>1 DEF DecidedInv, Busy
  <2>3. \A c \in Appts : (c # gone /\ Active(c) /\ appt[c].staff = target[q]) =>
          \/ appt[c].to + Buffer <= job[q].slot.from
          \/ job[q].slot.to + Buffer <= appt[c].from
    BY <2>1, <2>2, NoClashGap
  <2>4. SUFFICES ASSUME NEW c \in Appts, NEW d \in Appts, c # d,
                        appt'[c].st # "none", appt'[d].st # "none",
                        appt'[c].staff = appt'[d].staff
                 PROVE  \/ appt'[c].to + Buffer <= appt'[d].from
                        \/ appt'[d].to + Buffer <= appt'[c].from
    BY DEF GapKept, Active
  <2>5. CASE c = a
    BY <1>1, <2>3, <2>4, <2>5 DEF Active, NoRow
  <2>6. CASE d = a
    BY <1>1, <2>3, <2>4, <2>6 DEF Active, NoRow
  <2>7. CASE c # a /\ d # a
    BY <1>1, <2>4, <2>7 DEF Active, NoRow, GapKept
  <2>8. QED
    BY <2>5, <2>6, <2>7
<1>2. ASSUME NEW q \in Requests, NEW a \in Appts, NEW st \in {"open", "firm"},
             Insert(q, a, st)
      PROVE  Goal
  <2>1. /\ pc[q] = "decided" /\ Moved(q) = Nobody
        /\ appt'[a].staff = target[q]
        /\ appt'[a].from = job[q].slot.from
        /\ appt'[a].to = job[q].slot.to
        /\ \A c \in Appts \ {a} : c # Nobody /\ appt'[c] = appt[c]
    BY <1>2 DEF Insert, Moved, TypeOK
  <2> HIDE DEF Goal
  <2>2. QED
    BY <1>1, <2>1
<1>3. ASSUME NEW q \in Requests, NEW a \in Appts, NEW st \in {"open", "firm"},
             Swap(q, a, st)
      PROVE  Goal
  <2>1. job[q].moved \in Appts
    BY <1>3, MoveJob DEF Swap, TypeOK
  <2>2. /\ pc[q] = "decided" /\ Moved(q) = job[q].moved
        /\ appt'[a].staff = target[q]
        /\ appt'[a].from = job[q].slot.from
        /\ appt'[a].to = job[q].slot.to
        /\ \A c \in Appts \ {a} :
             appt'[c] = NoRow \/ (c # job[q].moved /\ appt'[c] = appt[c])
    BY <1>3, <2>1 DEF Swap, Moved, TypeOK
  <2> HIDE DEF Goal
  <2>3. QED
    BY <1>1, <2>2
<1>4. ASSUME FewerAppts
      PROVE  Goal
  BY <1>4, FewerGap
<1>5. ASSUME NEW q \in Requests, Quiet(q)
      PROVE  FewerAppts
  BY <1>5, QuietTables DEF FewerAppts, tableVars
<1>6. ASSUME NEW q \in Requests, NEW new \in SUBSET Blocks, WriteBlocks(q, new)
      PROVE  FewerAppts
  BY <1>6, CancelFewer DEF WriteBlocks
<1>7. ASSUME NEW q \in Requests, WriteEdit(q)
      PROVE  FewerAppts
  BY <1>7, CancelFewer DEF WriteEdit
<1>8. ASSUME NEW a \in Appts, Pay(a) \/ Refund(a) \/ Release(a)
      PROVE  FewerAppts
  BY <1>8 DEF Pay, Refund, Release, FewerAppts, TypeOK, Active
<1> HIDE DEF Goal
<1>9. QED
  BY <1>2, <1>3, <1>4, <1>5, <1>6, <1>7, <1>8, NextCases

(* The invariant holds at the start. *)
LEMMA InitSlots ==
    ASSUME Init
    PROVE  SlotsInv
<1> USE SlotsAssumption
<1>1. TypeOK
  <2>1. [kind |-> "none"] \in Job
    BY DEF Job
  <2>2. QED
    BY <2>1 DEF Init, TypeOK, NoRow, ApptStates, BlockStates
<1>2. RowsInv /\ HoldInv /\ EditInv /\ DecidedInv /\ GapKept
  BY DEF Init, RowsInv, HoldInv, EditInv, DecidedInv, GapKept, Active, NoRow
<1>3. QED
  BY <1>1, <1>2 DEF SlotsInv

(* Every step keeps the invariant. *)
LEMMA NextSlots ==
    ASSUME SlotsInv, [Next]_vars
    PROVE  SlotsInv'
<1>1. CASE Next
  <2>1. TypeOK'
    BY <1>1, NextType DEF SlotsInv
  <2>2. QED
    BY <1>1, <2>1, NextRows, NextHold, NextEdit, NextDecided, NextGap DEF SlotsInv
<1>2. CASE UNCHANGED vars
  <2>1. TypeOK' /\ RowsInv'
    BY <1>2 DEF SlotsInv, TypeOK, RowsInv, Active, vars, tableVars, lockVars, reqVars
  <2>2. HoldInv' /\ EditInv' /\ GapKept'
    BY <1>2 DEF SlotsInv, HoldInv, EditInv, GapKept, Active,
                vars, tableVars, lockVars, reqVars
  <2>3. DecidedInv'
    BY <1>2 DEF SlotsInv, DecidedInv, Busy, Covers, Clashes, Overlap, Moved, Active,
                vars, tableVars, lockVars, reqVars
  <2>4. QED
    BY <2>1, <2>2, <2>3 DEF SlotsInv
<1>3. QED
  BY <1>1, <1>2

(* The buffer between two appointments of a professional is kept, however  *)
(* many bookings, reschedules, closures and edits run at the same time.    *)
THEOREM GapIsKept == Spec => [](TypeOK /\ GapKept)
<1>1. Init => SlotsInv
  BY InitSlots
<1>2. SlotsInv /\ [Next]_vars => SlotsInv'
  BY NextSlots
<1>3. SlotsInv => TypeOK /\ GapKept
  BY DEF SlotsInv
<1>4. QED
  BY <1>1, <1>2, <1>3, PTL DEF Spec

-----------------------------------------------------------------------------
(* Blocks, when no two edits run at the same time.                         *)

OneEdit ==
    \A p, q \in Requests : job[p].kind = "edit" /\ job[q].kind = "edit" => p = q

(* The block is still what its edit read. *)
SawInv ==
    \A q \in Requests : job[q].kind = "edit" =>
        /\ job[q].ranges = Added(job[q].saw, job[q].plan)
        /\ block[job[q].block].st = job[q].saw.st
        /\ block[job[q].block].from = job[q].saw.from
        /\ block[job[q].block].to = job[q].saw.to

ClearInv == OneEdit /\ SawInv /\ BlockedIsClear

(* What a block covers after an edit and did not cover before is in one of *)
(* the ranges that added_ranges returns.                                   *)
LEMMA AddedIsEnough ==
    ASSUME NEW saw \in [st : {"on", "off"}, from : Nat, to : Nat],
           NEW plan \in [st : {"on", "off"}, from : Nat, to : Nat],
           NEW x, x.from \in Nat, x.to \in Nat, x.from < x.to,
           plan.st = "on", Overlap(x, plan),
           ~(saw.st = "on" /\ Overlap(x, saw))
    PROVE  \E y \in Added(saw, plan) : Overlap(x, y)
<1> USE DEF Added, Overlap, Lower, Higher
<1>1. CASE saw.st # "on"
  BY <1>1
<1>2. CASE saw.st = "on" /\ x.to <= saw.from
  <2> DEFINE y == [from |-> plan.from, to |-> Lower(plan.to, saw.from)]
  <2>1. plan.from < saw.from
    BY <1>2
  <2>2. y \in Added(saw, plan)
    BY <1>2, <2>1
  <2>3. Overlap(x, y)
    BY <1>2
  <2>4. QED
    BY <2>2, <2>3
<1>3. CASE saw.st = "on" /\ saw.to <= x.from
  <2> DEFINE y == [from |-> Higher(plan.from, saw.to), to |-> plan.to]
  <2>1. saw.to < plan.to
    BY <1>3
  <2>2. y \in Added(saw, plan)
    BY <1>3, <2>1
  <2>3. Overlap(x, y)
    BY <1>3
  <2>4. QED
    BY <2>2, <2>3
<1>4. QED
  BY <1>1, <1>2, <1>3

(* An edit starts only when no other runs. *)
LEMMA FirstEdit ==
    ASSUME MaxEdits <= 1, NEW q \in Requests, NEW b \in Blocks, NEW st,
           NEW x, AskEdit(q, b, st, x)
    PROVE  \A p \in Requests : job[p].kind # "edit"
<1> DEFINE E == {p \in Requests : job[p].kind = "edit"}
<1>1. IsFiniteSet(E)
  BY SlotsAssumption, FS_Subset
<1>2. Cardinality(E) \in Nat /\ Cardinality(E) < MaxEdits
  BY <1>1, FS_CardinalityType DEF AskEdit
<1>3. Cardinality(E) = 0
  BY <1>2, SlotsAssumption
<1>4. E = {}
  BY <1>1, <1>3, FS_EmptySet
<1>5. QED
  BY <1>4

(* Every step keeps at most one edit, with the block as it was read. *)
LEMMA NextSaw ==
    ASSUME MaxEdits <= 1, SlotsInv, OneEdit, SawInv, Next
    PROVE  OneEdit' /\ SawInv'
<1> DEFINE Goal == OneEdit' /\ SawInv'
<1> SUFFICES Goal
  OBVIOUS
<1> USE SlotsAssumption DEF SlotsInv
<1>0. \A q \in Requests : job[q].kind = "edit" => job[q].block \in Blocks
  BY EditJob DEF TypeOK
<1>a. ASSUME \A p \in Requests : job'[p].kind = "edit" => job'[p] = job[p],
             \A p \in Requests : job'[p].kind = "edit" =>
                 block'[job[p].block] = block[job[p].block]
      PROVE  Goal
  BY <1>0, <1>a DEF OneEdit, SawInv
<1>b. ASSUME NEW q \in Requests, Finish(q)
      PROVE  \A p \in Requests : job'[p].kind = "edit" => job'[p] = job[p] /\ p # q
  BY <1>b DEF Finish, TypeOK
<1>1. ASSUME NEW q \in Requests, Quiet(q)
      PROVE  Goal
  <2>1. block' = block
    BY <1>1, QuietTables DEF tableVars
  <2>2. ASSUME NEW b \in Blocks, NEW st \in {"on", "off"}, NEW x \in Closures,
               AskEdit(q, b, st, x)
        PROVE  Goal
    <3>1. \A p \in Requests : job[p].kind # "edit"
      BY <2>2, FirstEdit
    <3>2. \A p \in Requests \ {q} : job'[p].kind # "edit"
      BY <2>2, <3>1 DEF AskEdit, TypeOK
    <3>3. /\ job'[q].ranges = Added(job'[q].saw, job'[q].plan)
          /\ job'[q].block = b
          /\ block[b].st = job'[q].saw.st
          /\ block[b].from = job'[q].saw.from
          /\ block[b].to = job'[q].saw.to
      BY <2>2 DEF AskEdit, TypeOK
    <3>4. QED
      BY <2>1, <3>2, <3>3 DEF OneEdit, SawInv
  <2>3. CASE \A p \in Requests : job'[p].kind = "edit" => job'[p] = job[p]
    BY <1>a, <2>1, <2>3
  <2>4. ASSUME NEW x \in Slots, NEW cs \in SUBSET Staff, AskSlot(q, x, cs)
        PROVE  \A p \in Requests : job'[p].kind = "edit" => job'[p] = job[p]
    BY <2>4 DEF AskSlot, TypeOK
  <2>5. ASSUME NEW a \in Appts, NEW x \in Slots, AskMove(q, a, x)
        PROVE  \A p \in Requests : job'[p].kind = "edit" => job'[p] = job[p]
    BY <2>5 DEF AskMove, TypeOK
  <2>6. ASSUME NEW ms \in SUBSET Staff, NEW xs \in SUBSET Closures,
               AskClose(q, ms, xs)
        PROVE  \A p \in Requests : job'[p].kind = "edit" => job'[p] = job[p]
    BY <2>6 DEF AskClose, TypeOK
  <2>7. Refuse(q) \/ RefuseClose(q) \/ Abort(q) => Finish(q)
    BY DEF Refuse, RefuseClose, Abort
  <2> HIDE DEF Goal
  <2>8. QED
    BY <1>1, <1>b, <2>2, <2>3, <2>4, <2>5, <2>6, <2>7
    DEF Quiet, LockCandidate, Take, Skip, LockMember, LockAffected, reqVars
<1>2. ASSUME NEW q \in Requests, NEW a \in Appts, NEW st \in {"open", "firm"},
             Insert(q, a, st) \/ Swap(q, a, st)
      PROVE  Goal
  BY <1>2, <1>a, <1>b DEF Insert, Swap
<1>3. ASSUME NEW q \in Requests, NEW new \in SUBSET Blocks, WriteBlocks(q, new)
      PROVE  Goal
  <2>1. Finish(q)
    BY <1>3 DEF WriteBlocks
  <2>2. \A p \in Requests : job[p].kind = "edit" =>
          block'[job[p].block] = block[job[p].block]
    BY <1>0, <1>3, NewBlocks DEF EditInv
  <2>3. QED
    BY <1>a, <1>b, <2>1, <2>2
<1>4. ASSUME NEW q \in Requests, WriteEdit(q)
      PROVE  Goal
  <2>1. Finish(q) /\ job[q].kind = "edit"
    BY <1>4 DEF WriteEdit
  <2>2. \A p \in Requests : job'[p].kind # "edit"
    BY <1>b, <2>1 DEF OneEdit
  <2>3. QED
    BY <2>2 DEF OneEdit, SawInv
<1>5. ASSUME NEW a \in Appts, Pay(a) \/ Refund(a) \/ Release(a)
      PROVE  Goal
  BY <1>5, <1>a DEF Pay, Refund, Release, reqVars
<1> HIDE DEF Goal
<1>6. QED
  BY <1>1, <1>2, <1>3, <1>4, <1>5, NextCases

(* Appointments that stay under a block that stays were spared before. *)
LEMMA StaysClear ==
    ASSUME BlockedIsClear, NEW a \in Appts, NEW b \in Blocks,
           Active(a), block'[b] = block[b],
           appt'[a].staff = appt[a].staff, appt'[a].from = appt[a].from,
           appt'[a].to = appt[a].to,
           <<a, b>> \in spared => <<a, b>> \in spared',
           Covers(b, appt[a].staff, appt[a])'
    PROVE  <<a, b>> \in spared'
BY DEF BlockedIsClear, Under, Covers, Overlap

(* An appointment under what a closure or an edit begins to cover is one   *)
(* of the affected ones: the lower bound of the query loses none.          *)
LEMMA CoveredIsAffected ==
    ASSUME TypeOK, RowsInv, NEW q \in Requests, NEW a \in Appts, Active(a),
           job[q].kind \in {"close", "edit"},
           appt[a].staff \in job[q].members,
           NEW x \in job[q].ranges, Overlap(appt[a], x)
    PROVE  a \in Affected(q)
<1>1. x \in Span
  BY CloseJob DEF TypeOK
<1>2. x.from < appt[a].to /\ appt[a].to <= appt[a].from + MaxSpan
  BY DEF Overlap, RowsInv
<1>3. /\ appt[a].to \in Nat /\ appt[a].from \in Nat /\ x.from \in Nat
      /\ MaxSpan \in Nat
  BY <1>1, SlotsAssumption DEF TypeOK, Span
<1>4. x.from < appt[a].from + MaxSpan
  BY <1>2, <1>3
<1>5. QED
  BY <1>4 DEF Affected

(* After the cancellation an active appointment is as before, keeps its    *)
(* pairs, and has been spared if it was affected.                          *)
LEMMA CancelSpares ==
    ASSUME TypeOK, NEW q \in Requests, NEW bs \in SUBSET Blocks,
           CancelAffected(q, bs), NEW a \in Appts, NEW b \in Blocks,
           Under(a, b)'
    PROVE  /\ appt'[a] = appt[a]
           /\ <<a, b>> \in spared => <<a, b>> \in spared'
           /\ (a \in Affected(q) /\ b \in bs) => <<a, b>> \in spared'
<1>1. appt[a].st \in {"none", "open", "firm"}
  BY DEF TypeOK, ApptStates
<1>2. appt'[a] = appt[a] /\ ~(a \in Affected(q) /\ appt[a].st = "open")
  BY DEF CancelAffected, NoRow, Under, Active
<1>3. <<a, b>> \in spared => <<a, b>> \in spared'
  BY DEF CancelAffected
<1>4. ASSUME a \in Affected(q), b \in bs
      PROVE  <<a, b>> \in spared'
  <2>1. appt[a].st = "firm"
    BY <1>1, <1>2, <1>4 DEF Affected, Active
  <2>2. QED
    BY <1>4, <2>1 DEF CancelAffected
<1>5. QED
  BY <1>2, <1>3, <1>4

(* Every step keeps the blocks clear. *)
LEMMA NextClear ==
    ASSUME SlotsInv, SawInv, BlockedIsClear, Next
    PROVE  BlockedIsClear'
<1> SUFFICES ASSUME NEW a \in Appts, NEW b \in Blocks,
                    Under(a, b)'
             PROVE  <<a, b>> \in spared'
  BY DEF BlockedIsClear
<1>0. appt'[a].st # "none" /\ Covers(b, appt[a].staff, appt[a])'
  BY DEF Under, Active
<1> DEFINE Goal == <<a, b>> \in spared'
<1> SUFFICES Goal
  OBVIOUS
<1> USE <1>0, SlotsAssumption DEF SlotsInv
<1>1. ASSUME NEW q \in Requests, Quiet(q)
      PROVE  Goal
  BY <1>1, QuietTables, StaysClear DEF tableVars, Active
<1>2. ASSUME NEW q \in Requests, NEW c \in Appts, NEW st \in {"open", "firm"},
             Insert(q, c, st) \/ Swap(q, c, st)
      PROVE  Goal
  <2>1. /\ block' = block
        /\ appt'[c].staff = target[q]
        /\ appt'[c].from = job[q].slot.from
        /\ appt'[c].to = job[q].slot.to
        /\ pc[q] = "decided"
    BY <1>2 DEF Insert, Swap, TypeOK
  <2>2. CASE a = c
    <3>1. ~Covers(b, target[q], job[q].slot)
      BY <2>1 DEF DecidedInv, Busy
    <3>2. QED
      BY <2>1, <2>2, <3>1 DEF Covers, Overlap
  <2>3. CASE a # c
    <3>1. /\ appt'[a] = appt[a]
          /\ <<a, b>> \in spared => <<a, b>> \in spared'
      <4>1. CASE Insert(q, c, st)
        BY <2>3, <4>1 DEF Insert, TypeOK
      <4>2. CASE Swap(q, c, st)
        <5>1. job[q].moved \in Appts
          BY <4>2, MoveJob DEF Swap, TypeOK
        <5>2. appt'[a] = appt[a] /\ a # job[q].moved
          BY <2>3, <4>2, <5>1 DEF Swap, TypeOK, NoRow
        <5>3. QED
          BY <4>2, <5>2 DEF Swap, Forget
      <4>3. QED
        BY <1>2, <4>1, <4>2
    <3>2. QED
      BY <2>1, <3>1, StaysClear DEF Active
  <2>4. QED
    BY <2>2, <2>3
<1>3. ASSUME NEW q \in Requests, NEW new \in SUBSET Blocks, WriteBlocks(q, new)
      PROVE  Goal
  <2>0. CancelAffected(q, new) /\ job[q].kind = "close"
    BY <1>3 DEF WriteBlocks
  <2>1. /\ appt'[a] = appt[a]
        /\ <<a, b>> \in spared => <<a, b>> \in spared'
        /\ (a \in Affected(q) /\ b \in new) => <<a, b>> \in spared'
    BY <2>0, CancelSpares
  <2>2. CASE b \notin new
    BY <1>3, <2>1, <2>2, NewBlocks, StaysClear DEF Active
  <2>3. CASE b \in new
    <3>1. PICK x \in job[q].ranges :
            /\ block'[b].staff \in job[q].members
            /\ block'[b].from = x.from /\ block'[b].to = x.to
      BY <1>3, <2>3, NewBlocks
    <3>2. Overlap(appt[a], x) /\ appt[a].staff \in job[q].members
      BY <2>1, <3>1 DEF Covers, Overlap
    <3>3. a \in Affected(q)
      BY <2>0, <2>1, <3>2, CoveredIsAffected DEF Active
    <3>4. QED
      BY <2>1, <2>3, <3>3
  <2>4. QED
    BY <2>2, <2>3
<1>4. ASSUME NEW q \in Requests, WriteEdit(q)
      PROVE  Goal
  <2>0. /\ CancelAffected(q, {job[q].block})
        /\ job[q].kind = "edit" /\ job[q].block \in Blocks
        /\ job[q].saw \in [st : {"on", "off"}, from : Nat, to : Nat]
        /\ job[q].plan \in [st : {"on", "off"}, from : Nat, to : Nat]
    BY <1>4, EditJob DEF WriteEdit, TypeOK
  <2>1. /\ appt'[a] = appt[a]
        /\ <<a, b>> \in spared => <<a, b>> \in spared'
        /\ (a \in Affected(q) /\ b = job[q].block) => <<a, b>> \in spared'
    BY <2>0, CancelSpares
  <2>2. CASE b # job[q].block
    BY <1>4, <2>1, <2>2, EditedBlock, StaysClear DEF Active
  <2>3. CASE b = job[q].block
    <3>1. /\ block[b].st = job[q].saw.st
          /\ block[b].from = job[q].saw.from
          /\ block[b].to = job[q].saw.to
          /\ job[q].ranges = Added(job[q].saw, job[q].plan)
          /\ job[q].members = {block[b].staff}
      BY <2>0, <2>3 DEF SawInv, EditInv
    <3>2. /\ block'[b].st = job[q].plan.st
          /\ block'[b].from = job[q].plan.from
          /\ block'[b].to = job[q].plan.to
          /\ block'[b].staff = block[b].staff
      BY <1>4, <2>0, <2>3, <3>1 DEF WriteEdit, Net, TypeOK
    <3>3. /\ job[q].plan.st = "on"
          /\ appt[a].staff = block[b].staff
          /\ Overlap(appt[a], job[q].plan)
      BY <2>1, <3>2 DEF Covers, Overlap
    <3>4. CASE job[q].saw.st = "on" /\ Overlap(appt[a], job[q].saw)
      <4>1. Covers(b, appt[a].staff, appt[a])
        BY <3>1, <3>3, <3>4 DEF Covers, Overlap
      <4>2. Active(a)
        BY <2>1 DEF Active
      <4>3. <<a, b>> \in spared
        BY <4>1, <4>2 DEF BlockedIsClear, Under
      <4>4. QED
        BY <2>1, <4>3
    <3>5. CASE ~(job[q].saw.st = "on" /\ Overlap(appt[a], job[q].saw))
      <4>1. /\ Active(a)
            /\ appt[a].from \in Nat /\ appt[a].to \in Nat
            /\ appt[a].from < appt[a].to
        BY <2>1 DEF Active, RowsInv, TypeOK
      <4>2. PICK y \in Added(job[q].saw, job[q].plan) : Overlap(appt[a], y)
        BY <2>0, <3>3, <3>5, <4>1, AddedIsEnough
      <4>3. a \in Affected(q)
        BY <2>0, <3>1, <3>3, <4>1, <4>2, CoveredIsAffected
      <4>4. QED
        BY <2>1, <2>3, <4>3
    <3>6. QED
      BY <3>4, <3>5
  <2>4. QED
    BY <2>2, <2>3
<1>5. ASSUME NEW c \in Appts, Pay(c) \/ Refund(c) \/ Release(c)
      PROVE  Goal
  <2>1. /\ block' = block /\ Active(a)
        /\ appt'[a].staff = appt[a].staff /\ appt'[a].from = appt[a].from
        /\ appt'[a].to = appt[a].to
        /\ <<a, b>> \in spared => <<a, b>> \in spared'
    BY <1>5 DEF Pay, Refund, Release, Active, TypeOK, NoRow, Forget
  <2>2. QED
    BY <2>1, StaysClear
<1> HIDE DEF Goal
<1>6. QED
  BY <1>1, <1>2, <1>3, <1>4, <1>5, NextCases

(* As long as no two edits of blocks run at the same time, an active       *)
(* appointment is inside an active block only if a manager was told of it. *)
THEOREM BlocksAreClear ==
    ASSUME MaxEdits <= 1
    PROVE  Spec => []BlockedIsClear
<1> DEFINE Inv == SlotsInv /\ ClearInv
<1>1. Init => Inv
  <2>1. Init => OneEdit /\ SawInv /\ BlockedIsClear
    BY DEF Init, OneEdit, SawInv, BlockedIsClear, Under, Active, NoRow
  <2>2. QED
    BY <2>1, InitSlots DEF ClearInv
<1>2. Inv /\ [Next]_vars => Inv'
  <2> SUFFICES ASSUME SlotsInv, ClearInv, [Next]_vars
               PROVE  SlotsInv' /\ ClearInv'
    OBVIOUS
  <2>1. SlotsInv'
    BY NextSlots
  <2>2. CASE Next
    <3>1. OneEdit' /\ SawInv'
      BY <2>2, NextSaw DEF ClearInv
    <3>2. BlockedIsClear'
      BY <2>2, NextClear DEF ClearInv
    <3>3. QED
      BY <2>1, <3>1, <3>2 DEF ClearInv
  <2>3. CASE UNCHANGED vars
    <3>1. OneEdit' /\ SawInv'
      BY <2>3 DEF ClearInv, OneEdit, SawInv, vars, tableVars, reqVars
    <3>2. BlockedIsClear'
      BY <2>3 DEF ClearInv, BlockedIsClear, Under, Covers, Overlap, Active,
             vars, tableVars
    <3>3. QED
      BY <2>1, <3>1, <3>2 DEF ClearInv
  <2>4. QED
    BY <2>2, <2>3
<1>3. Inv => BlockedIsClear
  BY DEF ClearInv
<1>4. QED
  BY <1>1, <1>2, <1>3, PTL DEF Spec

------------------------------------------------------------------------------
(* The cache of the availability. What is under a key, or in the hands of a   *)
(* reader, was true when it was taken, and the counters it was taken under do *)
(* not start again while it lives (EntriesHold, ReadersHold).                 *)

KeyOf(x, k) == IF k = "gen" THEN x.gen ELSE x.ver

(* The counters a key was taken from do not start again while something lives under it. *)
Backed(x, until, cs) ==
    \A k \in Counters :
        KeyOf(x, k) # 0 => KeyOf(x, k) <= cs[k].value /\ until <= cs[k].expires

(* What is older than the last invalidation is under a key that is past, and stays so. *)
Shadowed(x, until, cs, last) ==
    x.content < last =>
        \E k \in Counters : KeyOf(x, k) < cs[k].value /\ until <= cs[k].expires

CommitsAreKnown == \A w \in CacheWriters : writer[w].commit <= content

EntryHolds(e, now, cs, last) ==
    /\ e.expires = e.built + SlotsTTL /\ e.built <= now /\ now < e.expires
    /\ Backed(e, e.expires, cs) /\ Shadowed(e, e.expires, cs, last)
EntriesHold == \A e \in entries : EntryHolds(e, time, counters, known)

ReaderHolds(q, now, cs, last) ==
    /\ q.at = "keys" =>
          /\ q.since <= now /\ now < q.since + SlotsTTL
          /\ Backed(q, q.since + 2 * SlotsTTL - 1, cs)
    /\ q.at = "agenda" =>
          /\ q.built <= now /\ now < q.built + SlotsTTL
          /\ Backed(q, q.built + SlotsTTL, cs)
          /\ Shadowed(q, q.built + SlotsTTL, cs, last)
          /\ q.fromDb => q.built = now
ReadersHold == \A r \in CacheReaders : ReaderHolds(reader[r], time, counters, known)

CacheInv ==
    /\ CacheTypeOK
    /\ CommitsAreKnown
    /\ EntriesHold
    /\ ReadersHold

CounterTable == [Counters -> [value : Nat, expires : Nat]]

(* The counters go on: one that changes grows and lives VERSION_TTL_SECONDS more. *)
GoesOn(cs, ds, now) ==
    \A k \in Counters :
        \/ ds[k] = cs[k]
        \/ cs[k].value <= ds[k].value /\ ds[k].expires = now + VersionTTL

(* The versions in a key are natural numbers. *)
LEMMA KeysAreNat ==
    /\ \A e \in CacheEntries, k \in Counters : KeyOf(e, k) \in Nat
    /\ \A q \in ReaderStates, k \in Counters : KeyOf(q, k) \in Nat
BY DEF KeyOf, CacheEntries, ReaderStates, Counters

(* A key backed by the counters stays backed as they go on. *)
LEMMA BackedGoesOn ==
    ASSUME NEW x, \A k \in Counters : KeyOf(x, k) \in Nat, NEW cs \in CounterTable,
           NEW ds \in CounterTable, NEW now \in Nat, GoesOn(cs, ds, now),
           NEW until \in Nat, until <= now + VersionTTL, Backed(x, until, cs)
    PROVE  Backed(x, until, ds)
<1> SUFFICES ASSUME NEW k \in Counters, KeyOf(x, k) # 0
             PROVE  KeyOf(x, k) <= ds[k].value /\ until <= ds[k].expires
  BY DEF Backed
<1>1. KeyOf(x, k) \in Nat /\ cs[k].value \in Nat /\ ds[k].value \in Nat
  BY DEF CounterTable
<1>2. KeyOf(x, k) <= cs[k].value /\ until <= cs[k].expires
  BY DEF Backed
<1>3. CASE ds[k] = cs[k]
  BY <1>2, <1>3
<1>4. CASE cs[k].value <= ds[k].value /\ ds[k].expires = now + VersionTTL
  BY <1>1, <1>2, <1>4
<1>5. QED
  BY <1>3, <1>4 DEF GoesOn

(* What an invalidation put out of reach stays out of reach as the counters go on. *)
LEMMA ShadowGoesOn ==
    ASSUME NEW x, \A k \in Counters : KeyOf(x, k) \in Nat, NEW cs \in CounterTable,
           NEW ds \in CounterTable, NEW now \in Nat, GoesOn(cs, ds, now),
           NEW until \in Nat, until <= now + VersionTTL, NEW last, Shadowed(x, until, cs, last)
    PROVE  Shadowed(x, until, ds, last)
<1> SUFFICES ASSUME x.content < last
             PROVE  \E k \in Counters : KeyOf(x, k) < ds[k].value /\ until <= ds[k].expires
  BY DEF Shadowed
<1>1. PICK k \in Counters : KeyOf(x, k) < cs[k].value /\ until <= cs[k].expires
  BY DEF Shadowed
<1>2. KeyOf(x, k) \in Nat /\ cs[k].value \in Nat /\ ds[k].value \in Nat
  BY DEF CounterTable
<1>3. CASE ds[k] = cs[k]
  BY <1>1, <1>3
<1>4. CASE cs[k].value <= ds[k].value /\ ds[k].expires = now + VersionTTL
  BY <1>1, <1>2, <1>4
<1>5. QED
  BY <1>3, <1>4 DEF GoesOn

(* An entry and a reader hold on as the counters go on. *)
LEMMA EntryGoesOn ==
    ASSUME NEW e \in CacheEntries, NEW cs \in CounterTable, NEW ds \in CounterTable,
           NEW now \in Nat, NEW last, GoesOn(cs, ds, now), EntryHolds(e, now, cs, last)
    PROVE  EntryHolds(e, now, ds, last)
<1>1. e.expires \in Nat /\ e.built \in Nat /\ SlotsTTL \in Nat /\ VersionTTL \in Nat /\ SlotsTTL < VersionTTL
  BY CacheAssumption DEF CacheEntries
<1>2. e.expires <= now + VersionTTL
  BY <1>1 DEF EntryHolds
<1>3. Backed(e, e.expires, ds)
  BY <1>1, <1>2, KeysAreNat, BackedGoesOn DEF EntryHolds
<1>4. Shadowed(e, e.expires, ds, last)
  BY <1>1, <1>2, KeysAreNat, ShadowGoesOn DEF EntryHolds
<1>5. QED
  BY <1>3, <1>4 DEF EntryHolds

(* What a reader holds goes on holding as the counters go on. *)
LEMMA ReaderGoesOn ==
    ASSUME NEW q \in ReaderStates, NEW cs \in CounterTable, NEW ds \in CounterTable,
           NEW now \in Nat, NEW last, GoesOn(cs, ds, now), ReaderHolds(q, now, cs, last)
    PROVE  ReaderHolds(q, now, ds, last)
<1>1. /\ q.since \in Nat /\ q.built \in Nat /\ SlotsTTL \in Nat \ {0} /\ VersionTTL \in Nat
      /\ SlotsTTL < VersionTTL /\ 2 * SlotsTTL - 1 <= VersionTTL
  BY CacheAssumption DEF ReaderStates
<1>2. ASSUME q.at = "keys" PROVE Backed(q, q.since + 2 * SlotsTTL - 1, ds)
  <2>1. PICK until : until = q.since + 2 * SlotsTTL - 1
    OBVIOUS
  <2>2. until \in Nat /\ until <= now + VersionTTL /\ Backed(q, until, cs)
    BY <1>1, <1>2, <2>1 DEF ReaderHolds
  <2>3. QED
    BY <2>1, <2>2, KeysAreNat, BackedGoesOn
<1>3. ASSUME q.at = "agenda"
      PROVE  Backed(q, q.built + SlotsTTL, ds) /\ Shadowed(q, q.built + SlotsTTL, ds, last)
  <2>1. PICK until : until = q.built + SlotsTTL
    OBVIOUS
  <2>2. until \in Nat /\ until <= now + VersionTTL /\ Backed(q, until, cs) /\ Shadowed(q, until, cs, last)
    BY <1>1, <1>3, <2>1 DEF ReaderHolds
  <2>3. QED
    BY <2>1, <2>2, KeysAreNat, BackedGoesOn, ShadowGoesOn
<1>4. QED
  BY <1>2, <1>3 DEF ReaderHolds

(* An invalidation leaves behind every key that was taken before it. *)
LEMMA BumpShadows ==
    ASSUME NEW x, \A k \in Counters : KeyOf(x, k) \in Nat, NEW cs \in CounterTable,
           NEW ds, NEW b \in Counters, NEW until, Backed(x, until, cs),
           ds[b].value = cs[b].value + 1, until <= ds[b].expires, NEW last
    PROVE  Shadowed(x, until, ds, last)
<1>1. KeyOf(x, b) \in Nat /\ cs[b].value \in Nat
  BY DEF CounterTable
<1>2. KeyOf(x, b) < ds[b].value
  BY <1>1 DEF Backed
<1>3. QED
  BY <1>2 DEF Shadowed

(* The cache starts empty. *)
LEMMA InitCacheInv == CacheInit => CacheInv
<1> SUFFICES ASSUME CacheInit PROVE CacheInv
  OBVIOUS
<1>1. IdleReader \in ReaderStates /\ IdleReader.at = "idle"
  BY DEF IdleReader, ReaderStates
<1>2. IdleWriter \in WriterStates /\ IdleWriter.commit = 0
  BY DEF IdleWriter, WriterStates, Counters
<1>3. CacheTypeOK
  BY <1>1, <1>2 DEF CacheInit, CacheTypeOK
<1>4. QED
  BY <1>1, <1>2, <1>3 DEF CacheInit, CacheInv, CommitsAreKnown, EntriesHold, ReadersHold, ReaderHolds

(* One reader moves, or none. *)
LEMMA ReaderMoves ==
    ASSUME CacheInv, NEW r \in CacheReaders, NEW x \in ReaderStates,
           reader' = [reader EXCEPT ![r] = x],
           counters' \in CounterTable, GoesOn(counters, counters', time),
           ReaderHolds(x, time, counters', known),
           UNCHANGED <<time, content, known, entries, writer, outages>>
    PROVE  CacheInv'
<1>0. CacheTypeOK /\ CommitsAreKnown /\ EntriesHold /\ ReadersHold
  BY DEF CacheInv
<1>1. CacheTypeOK'
  BY <1>0 DEF CacheTypeOK, CounterTable
<1>2. counters \in CounterTable /\ time \in Nat
  BY <1>0 DEF CacheTypeOK, CounterTable
<1>3. ASSUME NEW e \in entries PROVE EntryHolds(e, time, counters', known)
  BY <1>0, <1>2, EntryGoesOn DEF EntriesHold, CacheTypeOK
<1>4. ASSUME NEW q \in CacheReaders PROVE ReaderHolds(reader'[q], time, counters', known)
  <2>1. CASE q = r
    BY <1>0, <2>1 DEF CacheTypeOK
  <2>2. CASE q # r
    <3>1. reader'[q] = reader[q] /\ reader[q] \in ReaderStates /\ ReaderHolds(reader[q], time, counters, known)
      BY <1>0, <2>2 DEF CacheTypeOK, ReadersHold
    <3>2. QED
      BY <1>2, <3>1, ReaderGoesOn
  <2>3. QED
    BY <2>1, <2>2
<1>5. QED
  BY <1>0, <1>1, <1>3, <1>4 DEF CacheInv, CommitsAreKnown, EntriesHold, ReadersHold

(* Every step of readers and writers, every lapse and every outage keeps the invariant. *)
LEMMA NextCacheInv == CacheInv /\ [CacheNext]_cacheVars => CacheInv'
<1> SUFFICES ASSUME CacheInv, [CacheNext]_cacheVars PROVE CacheInv'
  OBVIOUS
<1>0. CacheTypeOK /\ CommitsAreKnown /\ EntriesHold /\ ReadersHold
  BY DEF CacheInv
<1>f. /\ time \in Nat /\ content \in Nat /\ known \in Nat /\ known <= content
      /\ counters \in CounterTable /\ SlotsTTL \in Nat \ {0} /\ VersionTTL \in Nat
      /\ 2 * SlotsTTL - 1 <= VersionTTL /\ SlotsTTL < VersionTTL
      /\ \A r \in CacheReaders : reader[r] \in ReaderStates
      /\ \A e \in entries : e \in CacheEntries
      /\ IdleReader \in ReaderStates /\ IdleReader.at = "idle"
      /\ IdleWriter \in WriterStates /\ IdleWriter.commit = 0
  BY <1>0, CacheAssumption
     DEF CacheTypeOK, CounterTable, IdleReader, ReaderStates, IdleWriter, WriterStates, Counters
<1>g. GoesOn(counters, counters, time)
  BY DEF GoesOn
<1>1. CASE CacheTick
  <2>1. /\ time' = time + 1
        /\ \A r \in CacheReaders : /\ reader[r].at # "agenda"
                                   /\ reader[r].at = "keys" => time + 1 - reader[r].since < SlotsTTL
        /\ entries' = {e \in entries : e.expires > time + 1}
        /\ counters' = [k \in Counters |-> IF counters[k].expires > time + 1 THEN counters[k]
                                           ELSE [value |-> 0, expires |-> 0]]
        /\ UNCHANGED <<content, known, reader, writer, outages>>
    BY <1>1 DEF CacheTick
  <2>2. /\ counters' \in CounterTable
        /\ \A k \in Counters : counters[k].expires > time + 1 => counters'[k] = counters[k]
    BY <1>f, <2>1 DEF CounterTable
  <2>3. CacheTypeOK'
    BY <1>0, <1>f, <2>1, <2>2 DEF CacheTypeOK, CounterTable
  <2>4. ASSUME NEW e \in entries' PROVE EntryHolds(e, time', counters', known)
    <3>1. e \in entries /\ e \in CacheEntries /\ e.expires > time + 1 /\ EntryHolds(e, time, counters, known)
      BY <1>0, <1>f, <2>1, <2>4 DEF EntriesHold
    <3>2. e.expires \in Nat /\ e.built \in Nat
      BY <3>1 DEF CacheEntries
    <3>3. \A k \in Counters : counters[k].expires \in Nat
      BY <1>f DEF CounterTable
    <3>4. Backed(e, e.expires, counters')
      BY <1>f, <2>2, <3>1, <3>2, <3>3 DEF EntryHolds, Backed
    <3>5. Shadowed(e, e.expires, counters', known)
      BY <1>f, <2>2, <3>1, <3>2, <3>3 DEF EntryHolds, Shadowed
    <3>6. QED
      BY <1>f, <2>1, <3>1, <3>2, <3>4, <3>5 DEF EntryHolds
  <2>5. ASSUME NEW r \in CacheReaders PROVE ReaderHolds(reader[r], time', counters', known)
    <3>1. PICK q \in ReaderStates : q = reader[r]
      BY <1>f
    <3>2. /\ q.at # "agenda" /\ q.at = "keys" => time + 1 - q.since < SlotsTTL
          /\ ReaderHolds(q, time, counters, known) /\ q.since \in Nat
      BY <1>0, <2>1, <3>1 DEF ReadersHold, ReaderStates
    <3>3. ASSUME q.at = "keys" PROVE Backed(q, q.since + 2 * SlotsTTL - 1, counters')
      <4> SUFFICES ASSUME NEW k \in Counters, KeyOf(q, k) # 0
                   PROVE  /\ KeyOf(q, k) <= counters'[k].value
                          /\ q.since + 2 * SlotsTTL - 1 <= counters'[k].expires
        BY DEF Backed
      <4>1. KeyOf(q, k) <= counters[k].value /\ q.since + 2 * SlotsTTL - 1 <= counters[k].expires
        BY <3>2, <3>3 DEF ReaderHolds, Backed
      <4>2. counters[k].expires \in Nat
        BY <1>f DEF CounterTable
      <4>3. counters[k].expires > time + 1
        BY <1>f, <3>2, <3>3, <4>1, <4>2
      <4>4. QED
        BY <2>2, <4>1, <4>3
    <3>4. q.at = "keys" => q.since <= time + 1 /\ time + 1 < q.since + SlotsTTL
      BY <1>f, <3>2 DEF ReaderHolds
    <3>5. QED
      BY <2>1, <3>1, <3>2, <3>3, <3>4 DEF ReaderHolds
  <2>6. QED
    BY <1>0, <2>1, <2>3, <2>4, <2>5 DEF CacheInv, CommitsAreKnown, EntriesHold, ReadersHold
<1>2. ASSUME NEW r \in CacheReaders, ReadSlots(r) PROVE CacheInv'
  <2>1. PICK gen, ver : gen = counters["gen"].value /\ ver = counters["ver"].value
    OBVIOUS
  <2> DEFINE x == [IdleReader EXCEPT !.at = "keys", !.gen = gen, !.ver = ver, !.since = time]
  <2>2. /\ counters' = ReadCounters
        /\ UNCHANGED <<time, content, known, entries, writer, outages>>
        /\ UNCHANGED reader \/ reader' = [reader EXCEPT ![r] = x]
    BY <1>2, <2>1 DEF ReadSlots
  <2>3. gen \in Nat /\ ver \in Nat
    BY <1>f, <2>1 DEF CounterTable, Counters
  <2>4. ASSUME NEW k \in Counters
        PROVE  /\ counters'[k] \in [value : Nat, expires : Nat] /\ counters'[k].value = counters[k].value
               /\ counters[k].value # 0 => counters'[k].expires = time + VersionTTL
               /\ counters[k].value = 0 => counters'[k] = counters[k]
    <3>1. counters[k] \in [value : Nat, expires : Nat]
      BY <1>f DEF CounterTable
    <3>2. counters'[k] = IF counters[k].value = 0 THEN counters[k]
                         ELSE [counters[k] EXCEPT !.expires = time + VersionTTL]
      BY <2>2 DEF ReadCounters
    <3>3. QED
      BY <1>f, <3>1, <3>2
  <2>5. counters' \in CounterTable /\ GoesOn(counters, counters', time)
    <3>1. DOMAIN counters' = Counters /\ counters' = [k \in Counters |-> counters'[k]]
      BY <2>2 DEF ReadCounters
    <3>2. \A k \in Counters : counters[k].value \in Nat
      BY <1>f DEF CounterTable
    <3>3. QED
      BY <2>4, <3>1, <3>2 DEF CounterTable, GoesOn
  <2>6. CASE UNCHANGED reader
    <3>1. reader' = [reader EXCEPT ![r] = reader[r]]
      BY <1>0, <2>6 DEF CacheTypeOK
    <3>2. ReaderHolds(reader[r], time, counters', known)
      BY <1>0, <1>f, <2>5, ReaderGoesOn DEF ReadersHold
    <3>3. PICK y \in ReaderStates : y = reader[r]
      BY <1>f
    <3>4. QED
      BY <2>2, <2>5, <3>1, <3>2, <3>3, ReaderMoves
  <2>7. CASE reader' = [reader EXCEPT ![r] = x]
    <3>1. /\ x \in ReaderStates /\ x.at = "keys" /\ x.gen = gen /\ x.ver = ver /\ x.since = time
      BY <1>f, <2>3 DEF ReaderStates
    <3> HIDE DEF x
    <3>2. \A k \in Counters : KeyOf(x, k) = counters[k].value
      BY <2>1, <3>1 DEF KeyOf, Counters
    <3>3. \A k \in Counters : KeyOf(x, k) # 0 =>
             KeyOf(x, k) <= counters'[k].value /\ time + 2 * SlotsTTL - 1 <= counters'[k].expires
      <4> SUFFICES ASSUME NEW k \in Counters, counters[k].value # 0
                   PROVE  /\ counters[k].value <= counters'[k].value
                          /\ time + 2 * SlotsTTL - 1 <= counters'[k].expires
        BY <3>2
      <4>1. counters[k].value \in Nat
        BY <1>f DEF CounterTable
      <4>2. QED
        BY <1>f, <2>4, <4>1
    <3>4. ReaderHolds(x, time, counters', known)
      BY <1>f, <3>1, <3>3 DEF ReaderHolds, Backed
    <3>5. QED
      BY <2>2, <2>5, <2>7, <3>1, <3>4, ReaderMoves
  <2>8. QED
    BY <2>2, <2>6, <2>7
<1>3. ASSUME NEW r \in CacheReaders, ReaderGivesUp(r) PROVE CacheInv'
  <2>1. /\ reader' = [reader EXCEPT ![r] = IdleReader]
        /\ UNCHANGED <<time, content, known, counters, entries, writer, outages>>
    BY <1>3 DEF ReaderGivesUp
  <2>2. ReaderHolds(IdleReader, time, counters, known)
    BY <1>f DEF ReaderHolds
  <2>3. QED
    BY <1>f, <1>g, <2>1, <2>2, ReaderMoves
<1>4. ASSUME NEW r \in CacheReaders, ReadAgenda(r) PROVE CacheInv'
  <2>1. PICK q \in ReaderStates : q = reader[r]
    BY <1>f
  <2>2. /\ q.at = "keys" /\ q.since \in Nat
        /\ UNCHANGED <<time, content, known, counters, entries, writer, outages>>
        /\ ReaderHolds(q, time, counters, known)
    BY <1>0, <1>4, <2>1 DEF ReadAgenda, ReaderStates, ReadersHold
  <2>3. PICK c, b, db :
          /\ reader' = [reader EXCEPT ![r].at = "agenda", ![r].content = c, ![r].built = b, ![r].fromDb = db]
          /\ \/ \E e \in EntriesAt("agenda", q.gen, q.ver) : c = e.content /\ b = e.built /\ db = FALSE
             \/ c = content /\ b = time /\ db = TRUE
    BY <1>4, <2>1 DEF ReadAgenda
  <2> DEFINE x == [q EXCEPT !.at = "agenda", !.content = c, !.built = b, !.fromDb = db]
  <2>4. reader' = [reader EXCEPT ![r] = x]
    BY <2>1, <2>3
  <2>5. c \in Nat /\ b \in Nat /\ db \in BOOLEAN
    BY <1>f, <2>3 DEF EntriesAt, CacheEntries
  <2>6. /\ x \in ReaderStates /\ x.at = "agenda" /\ x.gen = q.gen /\ x.ver = q.ver
        /\ x.content = c /\ x.built = b /\ x.fromDb = db
    BY <2>5 DEF ReaderStates
  <2> HIDE DEF x
  <2>7. \A k \in Counters : KeyOf(x, k) = KeyOf(q, k)
    BY <2>6 DEF KeyOf
  <2>8. ReaderHolds(x, time, counters, known)
    <3>1. CASE c = content /\ b = time /\ db = TRUE
      <4>1. Shadowed(x, x.built + SlotsTTL, counters, known)
        BY <1>f, <2>6, <3>1 DEF Shadowed
      <4>2. Backed(x, x.built + SlotsTTL, counters)
        <5> SUFFICES ASSUME NEW k \in Counters, KeyOf(q, k) # 0
                     PROVE  /\ KeyOf(q, k) <= counters[k].value
                            /\ x.built + SlotsTTL <= counters[k].expires
          BY <2>7 DEF Backed
        <5>1. /\ KeyOf(q, k) <= counters[k].value
              /\ q.since + 2 * SlotsTTL - 1 <= counters[k].expires /\ time < q.since + SlotsTTL
          BY <2>2 DEF ReaderHolds, Backed
        <5>2. counters[k].expires \in Nat
          BY <1>f DEF CounterTable
        <5>3. QED
          BY <1>f, <2>2, <2>6, <3>1, <5>1, <5>2
      <4>3. QED
        BY <1>f, <2>6, <3>1, <4>1, <4>2 DEF ReaderHolds
    <3>2. ASSUME NEW e \in EntriesAt("agenda", q.gen, q.ver), c = e.content, b = e.built, db = FALSE
          PROVE  ReaderHolds(x, time, counters, known)
      <4>1. e \in entries /\ e.gen = q.gen /\ e.ver = q.ver /\ EntryHolds(e, time, counters, known)
        BY <1>0, <3>2 DEF EntriesAt, UnderKeys, EntriesHold
      <4>2. \A k \in Counters : KeyOf(x, k) = KeyOf(e, k)
        BY <2>6, <4>1 DEF KeyOf
      <4>3. x.built + SlotsTTL = e.expires /\ x.content = e.content /\ x.built = e.built
        BY <2>6, <3>2, <4>1 DEF EntryHolds
      <4>4. Backed(x, x.built + SlotsTTL, counters) /\ Shadowed(x, x.built + SlotsTTL, counters, known)
        BY <4>1, <4>2, <4>3 DEF EntryHolds, Backed, Shadowed
      <4>5. QED
        BY <2>6, <3>2, <4>1, <4>3, <4>4 DEF EntryHolds, ReaderHolds
    <3>3. QED
      BY <2>3, <3>1, <3>2
  <2>9. QED
    BY <1>f, <1>g, <2>2, <2>4, <2>6, <2>8, ReaderMoves
<1>5. ASSUME NEW r \in CacheReaders, WriteCache(r) PROVE CacheInv'
  <2>1. PICK q \in ReaderStates : q = reader[r]
    BY <1>f
  <2>2. /\ q.at = "agenda" /\ ReaderHolds(q, time, counters, known)
        /\ reader' = [reader EXCEPT ![r] = IdleReader]
        /\ UNCHANGED <<time, content, known, counters, writer, outages>>
    BY <1>0, <1>5, <2>1 DEF WriteCache, ReadersHold
  <2>3. q.gen \in Nat /\ q.ver \in Nat /\ q.content \in Nat /\ q.built \in Nat
    BY DEF ReaderStates
  <2>4. q.built <= time /\ time < q.built + SlotsTTL /\ (q.fromDb => q.built = time)
    BY <2>2 DEF ReaderHolds
  <2>5. time + RemainingTTL(q.built) = q.built + SlotsTTL
    BY <1>f, <2>3, <2>4 DEF RemainingTTL
  <2>6. PICK one, two :
          /\ one = [level |-> "slots", gen |-> q.gen, ver |-> q.ver, content |-> q.content,
                    built |-> q.built, expires |-> time + RemainingTTL(q.built)]
          /\ two = [level |-> "agenda", gen |-> q.gen, ver |-> q.ver, content |-> q.content,
                    built |-> q.built, expires |-> time + SlotsTTL]
    OBVIOUS
  <2>7. \A e \in entries' : e \in entries \/ e = one \/ (q.fromDb /\ e = two)
    <3>1. entries' = IF q.fromDb THEN WithEntry(WithEntry(entries, one), two)
                     ELSE WithEntry(entries, one)
      BY <1>5, <2>1, <2>6 DEF WriteCache
    <3>2. \A es, e : WithEntry(es, e) \subseteq es \cup {e}
      BY DEF WithEntry
    <3>3. /\ WithEntry(entries, one) \subseteq entries \cup {one}
          /\ WithEntry(WithEntry(entries, one), two) \subseteq WithEntry(entries, one) \cup {two}
      BY <3>2
    <3>4. QED
      BY <3>1, <3>3
  <2>a. ASSUME NEW e, e = one \/ (q.fromDb /\ e = two)
        PROVE  e \in CacheEntries /\ EntryHolds(e, time, counters, known)
    <3>1. /\ e.built = q.built /\ e.expires = q.built + SlotsTTL /\ e.content = q.content
          /\ e.gen = q.gen /\ e.ver = q.ver
      BY <2>4, <2>5, <2>6, <2>a
    <3>2. e \in CacheEntries
      BY <1>f, <2>3, <2>4, <2>5, <2>6, <2>a DEF CacheEntries
    <3>3. \A k \in Counters : KeyOf(e, k) = KeyOf(q, k)
      BY <3>1 DEF KeyOf
    <3>4. Backed(e, e.expires, counters) /\ Shadowed(e, e.expires, counters, known)
      BY <2>2, <3>1, <3>3 DEF ReaderHolds, Backed, Shadowed
    <3>5. EntryHolds(e, time, counters, known)
      BY <2>4, <3>1, <3>4 DEF EntryHolds
    <3>6. QED
      BY <3>2, <3>5
  <2>8. \A e \in entries' : e \in CacheEntries /\ EntryHolds(e, time, counters, known)
    BY <1>0, <1>f, <2>7, <2>a DEF EntriesHold
  <2>9. CacheTypeOK'
    BY <1>0, <1>f, <2>2, <2>8 DEF CacheTypeOK
  <2>10. ASSUME NEW p \in CacheReaders PROVE ReaderHolds(reader'[p], time, counters, known)
    BY <1>0, <1>f, <2>2 DEF CacheTypeOK, ReadersHold, ReaderHolds
  <2>11. QED
    BY <1>0, <2>2, <2>8, <2>9, <2>10 DEF CacheInv, CommitsAreKnown, EntriesHold, ReadersHold
<1>6. ASSUME NEW w \in CacheWriters, NEW k \in Counters, CommitChange(w, k) PROVE CacheInv'
  <2> DEFINE x == [at |-> "committed", bumps |-> k, commit |-> content + 1]
  <2>1. /\ content' = content + 1 /\ writer' = [writer EXCEPT ![w] = x]
        /\ UNCHANGED <<time, known, counters, entries, reader, outages>>
    BY <1>6 DEF CommitChange
  <2>2. x \in WriterStates /\ x.commit = content + 1
    BY <1>f DEF WriterStates
  <2> HIDE DEF x
  <2>3. CacheTypeOK'
    BY <1>0, <1>f, <2>1, <2>2 DEF CacheTypeOK
  <2>4. \A v \in CacheWriters : writer[v].commit \in Nat
    BY <1>0 DEF CacheTypeOK, WriterStates
  <2>5. CommitsAreKnown'
    BY <1>0, <1>f, <2>1, <2>2, <2>4 DEF CacheTypeOK, CommitsAreKnown
  <2>6. QED
    BY <1>0, <2>1, <2>3, <2>5 DEF CacheInv, EntriesHold, ReadersHold
<1>7. ASSUME NEW w \in CacheWriters, InvalidationLost(w) PROVE CacheInv'
  <2>1. /\ writer' = [writer EXCEPT ![w] = IdleWriter] /\ outages' = outages + 1
        /\ UNCHANGED <<time, content, known, counters, entries, reader>>
    BY <1>7 DEF InvalidationLost
  <2>2. CacheTypeOK' /\ CommitsAreKnown'
    BY <1>0, <1>f, <2>1 DEF CacheTypeOK, CommitsAreKnown
  <2>3. QED
    BY <1>0, <2>1, <2>2 DEF CacheInv, EntriesHold, ReadersHold
<1>8. ASSUME NEW w \in CacheWriters, Invalidate(w) PROVE CacheInv'
  <2>1. PICK b : b = writer[w].bumps
    OBVIOUS
  <2>2. /\ b \in Counters /\ writer[w].commit \in Nat /\ writer[w].commit <= content
    BY <1>0, <2>1 DEF CacheTypeOK, WriterStates, CommitsAreKnown
  <2> DEFINE x == [value |-> counters[b].value + 1, expires |-> time + VersionTTL]
  <2>3. /\ counters' = [counters EXCEPT ![b] = x]
        /\ known' = IF writer[w].commit > known THEN writer[w].commit ELSE known
        /\ writer' = [writer EXCEPT ![w] = IdleWriter]
        /\ UNCHANGED <<time, content, entries, reader, outages>>
    BY <1>8, <2>1 DEF Invalidate, BumpCounter
  <2>4. counters[b].value \in Nat /\ x \in [value : Nat, expires : Nat]
        /\ x.value = counters[b].value + 1 /\ x.expires = time + VersionTTL
    BY <1>f, <2>2 DEF CounterTable
  <2> HIDE DEF x
  <2>5. /\ counters' \in CounterTable /\ GoesOn(counters, counters', time)
        /\ counters'[b].value = counters[b].value + 1 /\ counters'[b].expires = time + VersionTTL
    BY <1>f, <2>2, <2>3, <2>4 DEF CounterTable, GoesOn
  <2>6. CacheTypeOK' /\ CommitsAreKnown'
    BY <1>0, <1>f, <2>2, <2>3, <2>5 DEF CacheTypeOK, CounterTable, CommitsAreKnown
  <2>7. ASSUME NEW e \in entries PROVE EntryHolds(e, time, counters', known')
    <3>1. e \in CacheEntries /\ EntryHolds(e, time, counters, known)
      BY <1>0, <1>f DEF EntriesHold
    <3>2. EntryHolds(e, time, counters', known)
      BY <1>f, <2>5, <3>1, EntryGoesOn
    <3>3. e.built \in Nat /\ e.expires \in Nat
      BY <3>1 DEF CacheEntries
    <3>4. Backed(e, e.expires, counters) /\ e.expires <= time + VersionTTL
      BY <1>f, <3>1, <3>3 DEF EntryHolds
    <3>5. Shadowed(e, e.expires, counters', known')
      BY <1>f, <2>2, <2>5, <3>1, <3>4, KeysAreNat, BumpShadows
    <3>6. QED
      BY <3>2, <3>5 DEF EntryHolds
  <2>8. ASSUME NEW r \in CacheReaders PROVE ReaderHolds(reader[r], time, counters', known')
    <3>1. PICK q \in ReaderStates : q = reader[r]
      BY <1>f
    <3>2. ReaderHolds(q, time, counters, known) /\ q.built \in Nat
      BY <1>0, <3>1 DEF ReadersHold, ReaderStates
    <3>3. ReaderHolds(q, time, counters', known)
      BY <1>f, <2>5, <3>2, ReaderGoesOn
    <3>4. ASSUME q.at = "agenda" PROVE Shadowed(q, q.built + SlotsTTL, counters', known')
      <4>1. Backed(q, q.built + SlotsTTL, counters) /\ q.built + SlotsTTL <= time + VersionTTL
        BY <1>f, <3>2, <3>4 DEF ReaderHolds
      <4>2. QED
        BY <1>f, <2>2, <2>5, <4>1, KeysAreNat, BumpShadows
    <3>5. QED
      BY <3>1, <3>3, <3>4 DEF ReaderHolds
  <2>9. QED
    BY <2>3, <2>6, <2>7, <2>8 DEF CacheInv, EntriesHold, ReadersHold
<1>9. CASE UNCHANGED cacheVars
  BY <1>0, <1>9 DEF cacheVars, CacheInv, CacheTypeOK, CommitsAreKnown, EntriesHold, ReadersHold
<1>10. QED
  BY <1>1, <1>2, <1>3, <1>4, <1>5, <1>6, <1>7, <1>8, <1>9 DEF CacheNext

(* For any readers, writers and times to live in which the counters outlast what is written  *)
(* under them: what is served is neither older than the last invalidation nor than its TTL.   *)
THEOREM CacheStaysFresh == CacheSpec => []CacheIsFresh
<1>1. CacheInv => CacheIsFresh
  <2> SUFFICES ASSUME CacheInv PROVE CacheIsFresh
    OBVIOUS
  <2>1. CacheTypeOK /\ EntriesHold
    BY DEF CacheInv
  <2>2. ASSUME NEW e \in Served PROVE e.content >= known
    <3>1. e \in entries /\ e.gen = counters["gen"].value /\ e.ver = counters["ver"].value
      BY DEF Served, EntriesAt, UnderKeys
    <3>2. \A k \in Counters : KeyOf(e, k) = counters[k].value /\ counters[k].value \in Nat
      BY <2>1, <3>1 DEF KeyOf, Counters, CacheTypeOK
    <3>3. e.content \in Nat /\ known \in Nat
      BY <2>1, <3>1 DEF CacheTypeOK, CacheEntries
    <3>4. ~ (e.content < known)
      BY <2>1, <3>1, <3>2 DEF EntriesHold, EntryHolds, Shadowed
    <3>5. QED
      BY <3>3, <3>4
  <2>3. ASSUME NEW e \in entries PROVE time < e.built + SlotsTTL
    BY <2>1 DEF EntriesHold, EntryHolds
  <2>4. QED
    BY <2>2, <2>3 DEF CacheIsFresh, NothingOlderThanInvalidated, StaleIsBounded
<1>2. QED
  BY <1>1, InitCacheInv, NextCacheInv, PTL DEF CacheSpec

-----------------------------------------------------------------------------
(* Who waits for whom in the agenda.                                       *)

(* What a request holds while it waits. Rows of professionals: a booking goes up by  *)
(* Turn, a writer of blocks by id, a reschedule wants only one. A reschedule holds its *)
(* appointment, a writer of blocks appointments of the professionals it holds.          *)
WaitsOf(q) ==
    /\ \A s \in Staff : staffLock[s] = q =>
          /\ pc[q] # "idle"
          /\ job[q].kind \in {"book", "move"} =>
                target[q] # Nobody /\ \A w \in wants[q] : Turn[s] < Turn[w]
          /\ job[q].kind = "move" => wants[q] = {}
          /\ job[q].kind \in {"close", "edit"} => \A w \in wants[q] : s < w
    /\ job[q].kind = "move" =>
          /\ apptLock[job[q].moved] = q
          /\ pc[q] = "staff" => \E s \in Staff : wants[q] = {s}
          /\ pc[q] # "staff" => wants[q] = {}
    /\ \A a \in Appts : apptLock[a] = q =>
          \/ job[q].kind = "move"
          \/ /\ job[q].kind \in {"close", "edit"} /\ pc[q] = "appts"
             /\ Active(a) /\ appt[a].staff \in job[q].members

WaitsInv == \A q \in Requests : WaitsOf(q)

(* A step of q leaves the other requests where they are. *)
OnlyMoves(q) ==
    \A p \in Requests \ {q} : /\ pc'[p] = pc[p] /\ job'[p] = job[p]
                              /\ wants'[p] = wants[p] /\ target'[p] = target[p]

(* What a step of q may do to the appointments: those another request holds stay. *)
LockedStay(q) ==
    \A a \in Appts : apptLock[a] # Nobody /\ apptLock[a] # q /\ Active(a) =>
        Active(a)' /\ appt'[a].staff = appt[a].staff

(* What another request waits for, when the locks it has stay and it gets none. *)
LEMMA OthersWait ==
    ASSUME SlotsInv, WaitsInv, NEW q \in Requests, OnlyMoves(q), LockedStay(q), WaitsOf(q)',
           \A s \in Staff : staffLock'[s] = staffLock[s] \/ staffLock'[s] \in {q, Nobody},
           \A a \in Appts : \/ apptLock'[a] = apptLock[a]
                            \/ apptLock[a] \in {q, Nobody} /\ apptLock'[a] \in {q, Nobody}
    PROVE  WaitsInv'
<1>1. SUFFICES ASSUME NEW p \in Requests \ {q} PROVE WaitsOf(p)'
  BY DEF WaitsInv
<1>2. p # Nobody /\ WaitsOf(p)
  BY SlotsAssumption DEF WaitsInv
<1>3. pc'[p] = pc[p] /\ job'[p] = job[p] /\ wants'[p] = wants[p] /\ target'[p] = target[p]
  BY DEF OnlyMoves
<1>4. \A s \in Staff : staffLock'[s] = p => staffLock[s] = p
  BY <1>2
<1>5. \A a \in Appts : apptLock'[a] = p <=> apptLock[a] = p
  BY <1>2
<1>6. \A a \in Appts : apptLock[a] = p /\ Active(a) => Active(a)' /\ appt'[a].staff = appt[a].staff
  BY <1>2 DEF LockedStay
<1>7. job[p].kind = "move" => job[p].moved \in Appts
  BY MoveJob DEF SlotsInv, TypeOK
<1>8. QED
  BY <1>2, <1>3, <1>4, <1>5, <1>6, <1>7 DEF WaitsOf

(* The end of a transaction keeps what the others wait for. *)
LEMMA FinishWaits ==
    ASSUME SlotsInv, WaitsInv, NEW q \in Requests, Finish(q), LockedStay(q)
    PROVE  WaitsInv'
<1> USE SlotsAssumption DEF SlotsInv
<1>1. OnlyMoves(q)
  BY DEF OnlyMoves, Finish, TypeOK
<1>2. job'[q].kind = "none" /\ pc'[q] = "idle"
  BY DEF Finish, TypeOK
<1>3. ASSUME NEW s \in Staff
      PROVE  staffLock'[s] # q /\ (staffLock'[s] = staffLock[s] \/ staffLock'[s] = Nobody)
  <2>1. staffLock'[s] = IF staffLock[s] = q THEN Nobody ELSE staffLock[s]
    BY DEF Finish
  <2>2. q # Nobody
    OBVIOUS
  <2>3. QED
    BY <2>1, <2>2
<1>4. ASSUME NEW a \in Appts
      PROVE  /\ apptLock'[a] # q
             /\ apptLock'[a] = apptLock[a] \/ (apptLock[a] = q /\ apptLock'[a] = Nobody)
  <2>1. apptLock'[a] = IF apptLock[a] = q THEN Nobody ELSE apptLock[a]
    BY DEF Finish
  <2>2. q # Nobody
    OBVIOUS
  <2>3. QED
    BY <2>1, <2>2
<1>5. WaitsOf(q)'
  BY <1>2, <1>3, <1>4 DEF WaitsOf
<1>6. QED
  BY <1>1, <1>3, <1>4, <1>5, OthersWait

(* A set of natural numbers that is not empty has a least element. *)
LEMMA Least ==
  ASSUME NEW T \in SUBSET Nat, T # {} PROVE \E x \in T : \A y \in T : x <= y
<1> DEFINE Below == OpToRel(<, Nat)
<1>1. \A x, y \in Nat : y < x => <<y, x>> \in Below
  BY DEF OpToRel
<1>2. IsWellFoundedOn(Below, Nat)
  BY NatLessThanWellFounded
<1> HIDE DEF Below
<1>3. PICK x \in T : \A y \in T : ~ (<<y, x>> \in Below)
  BY <1>2, WFMin
<1>4. ASSUME NEW y \in T PROVE x <= y
  <2>1. ~ (<<y, x>> \in Below)
    BY <1>3
  <2>2. x \in Nat /\ y \in Nat
    OBVIOUS
  <2>3. ~ (y < x)
    BY <1>1, <2>1, <2>2
  <2>4. QED
    BY <2>2, <2>3
<1>5. QED BY <1>4

(* Whoever locked all that its query answers holds every one of them. *)
LEMMA AllAreLocked ==
    ASSUME TypeOK, NEW q \in Requests, AllLocked(q)
    PROVE  \A a \in Affected(q) : apptLock[a] = q
<1> DEFINE left == {a \in Affected(q) : apptLock[a] # q}
           starts == {appt[a].from : a \in left}
<1>1. SUFFICES ASSUME left # {} PROVE FALSE
  OBVIOUS
<1>2. \A a \in left : appt[a].from \in Nat
  BY DEF Affected, TypeOK
<1>3. starts \in SUBSET Nat /\ starts # {}
  BY <1>1, <1>2
<1> HIDE DEF starts
<1>4. PICK x \in starts : \A y \in starts : x <= y
  BY <1>3, Least
<1>5. PICK a \in left : x = appt[a].from
  BY <1>4 DEF starts
<1>6. \A c \in left : appt[a].from <= appt[c].from
  BY <1>4, <1>5 DEF starts
<1>7. a \in NextAffected(q)
  BY <1>5, <1>6 DEF NextAffected
<1>8. QED
  BY <1>7 DEF AllLocked

(* In a finite set somebody is not below anybody. *)
LEMMA SomeHighest ==
    ASSUME NEW K, IsFiniteSet(K), K # {}, NEW rank \in [K -> Nat]
    PROVE  \E q \in K : \A p \in K : rank[p] <= rank[q]
<1> DEFINE Climbs(T) == T # {} /\ \A q \in T : \E p \in T : rank[q] < rank[p]
           Sizes == {n \in Nat : \E T \in SUBSET K : Climbs(T) /\ Cardinality(T) = n}
<1>1. SUFFICES ASSUME Climbs(K) PROVE FALSE
  OBVIOUS
<1>2. Cardinality(K) \in Sizes
  BY <1>1, FS_CardinalityType
<1> HIDE DEF Sizes
<1>3. PICK n \in Sizes : \A m \in Sizes : n <= m
  BY <1>2, Least DEF Sizes
<1>4. PICK T \in SUBSET K : Climbs(T) /\ Cardinality(T) = n
  BY <1>3 DEF Sizes
<1>5. {rank[q] : q \in T} \in SUBSET Nat /\ {rank[q] : q \in T} # {}
  BY <1>4
<1>6. PICK low \in {rank[q] : q \in T} : \A y \in {rank[q] : q \in T} : low <= y
  BY <1>5, Least
<1>7. PICK m \in T : rank[m] = low /\ \A p \in T : rank[m] <= rank[p]
  BY <1>6
<1>8. Climbs(T \ {m})
  <2>1. \A q \in T : \E p \in T \ {m} : rank[q] < rank[p]
    <3>1. SUFFICES ASSUME NEW q \in T PROVE \E p \in T \ {m} : rank[q] < rank[p]
      OBVIOUS
    <3>2. PICK p \in T : rank[q] < rank[p]
      BY <1>4
    <3>3. rank[p] \in Nat /\ rank[q] \in Nat /\ rank[m] \in Nat /\ rank[m] <= rank[q]
      BY <1>4, <1>7
    <3>4. p # m
      BY <3>2, <3>3
    <3>5. QED
      BY <3>2, <3>4
  <2>2. T \ {m} # {}
    BY <1>7, <2>1
  <2>3. QED
    BY <2>1, <2>2
<1>9. IsFiniteSet(T) /\ Cardinality(T) \in Nat
  BY <1>4, FS_Subset, FS_CardinalityType
<1>10. Cardinality(T \ {m}) = n - 1 /\ n \in Nat
  BY <1>4, <1>7, <1>9, FS_RemoveElement
<1>11. IsFiniteSet(T \ {m}) /\ Cardinality(T \ {m}) \in Nat
  BY <1>9, FS_Subset, FS_CardinalityType
<1>12. n - 1 \in Sizes
  <2>1. n - 1 \in Nat /\ T \ {m} \in SUBSET K /\ Cardinality(T \ {m}) = n - 1
    BY <1>4, <1>10, <1>11
  <2>2. QED
    BY <1>8, <2>1 DEF Sizes
<1>13. QED
  BY <1>3, <1>10, <1>12

(* Every step keeps what the requests wait for in order. *)
LEMMA NextWaits ==
    ASSUME SlotsInv, WaitsInv, Next
    PROVE  WaitsInv'
<1> DEFINE Goal == WaitsInv'
<1> SUFFICES Goal
  OBVIOUS
<1> USE SlotsAssumption DEF SlotsInv
<1>0. ASSUME NEW q \in Requests PROVE WaitsOf(q)
  BY DEF WaitsInv
<1>1. ASSUME NEW q \in Requests, Finish(q), UNCHANGED appt
      PROVE  Goal
  BY <1>1, FinishWaits DEF LockedStay, Active
<1>2. ASSUME NEW q \in Requests, UNCHANGED <<appt, staffLock, apptLock>>, OnlyMoves(q), WaitsOf(q)'
      PROVE  Goal
  BY <1>2, OthersWait DEF LockedStay, Active
<1>3. ASSUME NEW q \in Requests, pc[q] = "idle", UNCHANGED <<appt, staffLock, apptLock>>,
             OnlyMoves(q), job'[q].kind # "move"
      PROVE  Goal
  <2>1. \A s \in Staff : staffLock[s] # q
    BY <1>0, <1>3 DEF WaitsOf
  <2>2. \A a \in Appts : apptLock[a] # q
    BY <1>0, <1>3 DEF WaitsOf, HoldInv
  <2>3. WaitsOf(q)'
    BY <1>3, <2>1, <2>2 DEF WaitsOf
  <2>4. QED
    BY <1>2, <1>3, <2>3
<1>4. ASSUME NEW q \in Requests, NEW a \in Appts, NEW x \in Slots, AskMove(q, a, x)
      PROVE  Goal
  <2>1. \A s \in Staff : staffLock[s] # q
    BY <1>0, <1>4 DEF AskMove, WaitsOf
  <2>2. appt[a].staff \in Staff
    BY <1>4 DEF AskMove, RowsInv
  <2>3. /\ pc'[q] = "staff" /\ wants'[q] = {appt[a].staff}
        /\ job'[q].kind = "move" /\ job'[q].moved = a /\ apptLock'[a] = q
        /\ UNCHANGED <<appt, staffLock>>
    BY <1>4 DEF AskMove, TypeOK, tableVars
  <2>4. OnlyMoves(q)
    BY <1>4 DEF AskMove, TypeOK, OnlyMoves
  <2>8. LockedStay(q)
    BY <2>3 DEF LockedStay, Active
  <2>5. \A c \in Appts : apptLock'[c] = apptLock[c] \/ (apptLock[c] = Nobody /\ apptLock'[c] = q)
    BY <1>4 DEF AskMove, TypeOK
  <2>6. WaitsOf(q)'
    BY <2>1, <2>2, <2>3 DEF WaitsOf
  <2>7. QED
    BY <2>3, <2>4, <2>5, <2>6, <2>8, OthersWait
<1>5. ASSUME NEW q \in Requests, NEW s \in Staff, LockCandidate(q, s)
      PROVE  Goal
  <2>1. /\ \A t \in wants[q] : Turn[s] <= Turn[t]
        /\ s \in wants[q] /\ wants[q] \subseteq Staff
        /\ pc[q] = "staff" /\ job[q].kind \in {"book", "move"}
    BY <1>5 DEF LockCandidate, NextCandidate, TypeOK
  <2>2. \A t \in wants[q] \ {s} : Turn[s] < Turn[t]
    <3>1. SUFFICES ASSUME NEW t \in wants[q] \ {s} PROVE Turn[s] < Turn[t]
      OBVIOUS
    <3>2. Turn[s] \in Nat /\ Turn[t] \in Nat /\ Turn[s] # Turn[t] /\ Turn[s] <= Turn[t]
      BY <2>1
    <3>3. QED
      BY <3>2
  <2>3. /\ pc'[q] = "locked" /\ wants'[q] = wants[q] \ {s} /\ target'[q] = s /\ s # Nobody
        /\ UNCHANGED <<appt, apptLock, job>>
        /\ \A t \in Staff : staffLock'[t] = staffLock[t] \/ (t = s /\ staffLock'[t] = q)
    <3>1. pc'[q] = "locked" /\ wants'[q] = wants[q] \ {s} /\ target'[q] = s
      BY <1>5 DEF LockCandidate, TypeOK
    <3>2. UNCHANGED <<appt, apptLock, job>> /\ staffLock' = [staffLock EXCEPT ![s] = q]
      BY <1>5 DEF LockCandidate, tableVars
    <3>3. \A t \in Staff : staffLock'[t] = staffLock[t] \/ (t = s /\ staffLock'[t] = q)
      BY <3>2 DEF TypeOK
    <3>4. QED
      BY <3>1, <3>2, <3>3
  <2>4. OnlyMoves(q)
    BY <1>5 DEF LockCandidate, TypeOK, OnlyMoves
  <2>7. LockedStay(q)
    BY <2>3 DEF LockedStay, Active
  <2>5. WaitsOf(q)'
    <3>1. \A t \in Staff : staffLock'[t] = q => \A w \in wants'[q] : Turn[t] < Turn[w]
      BY <1>0, <2>1, <2>2, <2>3 DEF WaitsOf
    <3>2. job[q].kind = "move" => apptLock[job[q].moved] = q /\ wants[q] \ {s} = {}
      BY <1>0, <2>1 DEF WaitsOf
    <3>3. \A a \in Appts : apptLock[a] = q => job[q].kind = "move"
      BY <1>0, <2>1 DEF WaitsOf
    <3>4. QED
      BY <2>1, <2>3, <3>1, <3>2, <3>3 DEF WaitsOf
  <2>6. QED
    BY <2>3, <2>4, <2>5, <2>7, OthersWait
<1>6. ASSUME NEW q \in Requests, Take(q) \/ Skip(q)
      PROVE  Goal
  <2>1. /\ UNCHANGED <<appt, staffLock, apptLock, job, wants, target>> /\ OnlyMoves(q)
        /\ pc[q] = "locked" /\ pc'[q] \in {"staff", "decided"}
        /\ pc'[q] = "staff" => wants[q] # {}
    BY <1>6 DEF Take, Skip, TypeOK, lockVars, tableVars, OnlyMoves
  <2>2. job[q].kind \in {"book", "move"}
    BY <2>1 DEF HoldInv
  <2>3. WaitsOf(q)'
    BY <1>0, <2>1, <2>2 DEF WaitsOf
  <2>4. QED
    BY <1>2, <2>1, <2>3
<1>7. ASSUME NEW q \in Requests, NEW s \in Staff, LockMember(q, s)
      PROVE  Goal
  <2>1. /\ \A t \in wants[q] : s <= t
        /\ s \in wants[q] /\ wants[q] \subseteq Staff
        /\ pc[q] = "staff" /\ job[q].kind \in {"close", "edit"}
    BY <1>7 DEF LockMember, NextMember, TypeOK
  <2>2. \A t \in wants[q] \ {s} : s < t
    <3>1. SUFFICES ASSUME NEW t \in wants[q] \ {s} PROVE s < t
      OBVIOUS
    <3>2. s \in Nat /\ t \in Nat /\ s # t /\ s <= t
      BY <2>1
    <3>3. QED
      BY <3>2
  <2>3. /\ pc'[q] # "idle" /\ wants'[q] = wants[q] \ {s}
        /\ UNCHANGED <<appt, apptLock, job>>
        /\ \A t \in Staff : staffLock'[t] = staffLock[t] \/ (t = s /\ staffLock'[t] = q)
    <3>1. pc'[q] # "idle" /\ wants'[q] = wants[q] \ {s}
      BY <1>7 DEF LockMember, TypeOK
    <3>2. UNCHANGED <<appt, apptLock, job>> /\ staffLock' = [staffLock EXCEPT ![s] = q]
      BY <1>7 DEF LockMember, tableVars
    <3>3. \A t \in Staff : staffLock'[t] = staffLock[t] \/ (t = s /\ staffLock'[t] = q)
      BY <3>2 DEF TypeOK
    <3>4. QED
      BY <3>1, <3>2, <3>3
  <2>4. OnlyMoves(q)
    BY <1>7 DEF LockMember, TypeOK, OnlyMoves
  <2>7. LockedStay(q)
    BY <2>3 DEF LockedStay, Active
  <2>5. WaitsOf(q)'
    <3>1. \A t \in Staff : staffLock'[t] = q => \A w \in wants'[q] : t < w
      BY <1>0, <2>1, <2>2, <2>3 DEF WaitsOf
    <3>2. \A a \in Appts : apptLock[a] # q
      BY <1>0, <2>1 DEF WaitsOf
    <3>3. QED
      BY <2>1, <2>3, <3>1, <3>2 DEF WaitsOf
  <2>6. QED
    BY <2>3, <2>4, <2>5, <2>7, OthersWait
<1>8. ASSUME NEW q \in Requests, NEW a \in Appts, LockAffected(q, a)
      PROVE  Goal
  <2>1. /\ pc[q] = "appts" /\ Active(a) /\ appt[a].staff \in job[q].members
        /\ UNCHANGED <<appt, staffLock, pc, job, wants, target>>
        /\ \A c \in Appts : apptLock'[c] = apptLock[c] \/ (c = a /\ apptLock[c] = Nobody /\ apptLock'[c] = q)
    <3>1. pc[q] = "appts" /\ a \in Affected(q) /\ apptLock[a] = Nobody
      BY <1>8 DEF LockAffected, NextAffected
    <3>2. UNCHANGED <<appt, staffLock, pc, job, wants, target>> /\ apptLock' = [apptLock EXCEPT ![a] = q]
      BY <1>8 DEF LockAffected, reqVars, tableVars
    <3>3. \A c \in Appts : apptLock'[c] = apptLock[c] \/ (c = a /\ apptLock[c] = Nobody /\ apptLock'[c] = q)
      BY <3>1, <3>2 DEF TypeOK
    <3>4. QED
      BY <3>1, <3>2, <3>3 DEF Affected
  <2>2. job[q].kind \in {"close", "edit"}
    BY <2>1 DEF HoldInv
  <2>3. OnlyMoves(q) /\ LockedStay(q)
    BY <2>1 DEF OnlyMoves, LockedStay, Active
  <2>4. WaitsOf(q)'
    BY <1>0, <2>1, <2>2 DEF WaitsOf, Active
  <2>5. QED
    BY <2>1, <2>3, <2>4, OthersWait
<1>9. ASSUME NEW q \in Requests, \/ \E x \in Slots, cs \in SUBSET Staff : AskSlot(q, x, cs)
             \/ \E ms \in SUBSET Staff, xs \in SUBSET Closures : AskClose(q, ms, xs)
             \/ \E b \in Blocks, st \in {"on", "off"}, x \in Closures : AskEdit(q, b, st, x)
      PROVE  Goal
  <2>1. /\ pc[q] = "idle" /\ UNCHANGED <<appt, staffLock, apptLock>> /\ OnlyMoves(q)
        /\ job'[q].kind # "move"
    <3>1. CASE \E x \in Slots, cs \in SUBSET Staff : AskSlot(q, x, cs)
      BY <3>1 DEF AskSlot, TypeOK, OnlyMoves, lockVars, tableVars
    <3>2. CASE \E ms \in SUBSET Staff, xs \in SUBSET Closures : AskClose(q, ms, xs)
      BY <3>2 DEF AskClose, TypeOK, OnlyMoves, lockVars, tableVars
    <3>3. ASSUME NEW b \in Blocks, NEW st \in {"on", "off"}, NEW x \in Closures, AskEdit(q, b, st, x)
          PROVE  /\ pc[q] = "idle" /\ UNCHANGED <<appt, staffLock, apptLock>> /\ OnlyMoves(q)
                 /\ job'[q].kind # "move"
      <4>1. pc[q] = "idle" /\ UNCHANGED <<appt, staffLock, apptLock>>
        BY <3>3 DEF AskEdit, lockVars, tableVars
      <4>2. OnlyMoves(q)
        BY <3>3 DEF AskEdit, TypeOK, OnlyMoves
      <4>3. job'[q].kind = "edit"
        BY <3>3 DEF AskEdit, TypeOK
      <4>4. QED
        BY <4>1, <4>2, <4>3
    <3>4. QED
      BY <1>9, <3>1, <3>2, <3>3
  <2>2. QED
    BY <1>3, <2>1
<1>10. ASSUME NEW a \in Appts, Pay(a) \/ Refund(a) \/ Release(a)
       PROVE  Goal
  <2>1. UNCHANGED <<pc, job, wants, target, staffLock, apptLock>>
    BY <1>10 DEF Pay, Refund, Release, reqVars, lockVars
  <2>2. \A c \in Appts : apptLock[c] # Nobody /\ Active(c) =>
           Active(c)' /\ appt'[c].staff = appt[c].staff
    BY <1>10 DEF Pay, Refund, Release, TypeOK, Active
  <2>3. SUFFICES ASSUME NEW p \in Requests PROVE WaitsOf(p)'
    BY DEF WaitsInv
  <2>4. QED
    BY <1>0, <2>1, <2>2 DEF WaitsOf
<1>11. ASSUME NEW q \in Requests, NEW a \in Appts, NEW st \in {"open", "firm"},
             Insert(q, a, st)
       PROVE  Goal
  BY <1>11, FinishWaits DEF Insert, LockedStay, Active, TypeOK
<1>12. ASSUME NEW q \in Requests, NEW a \in Appts, NEW st \in {"open", "firm"},
             Swap(q, a, st)
       PROVE  Goal
  <2>1. job[q].kind = "move" /\ job[q].moved \in Appts /\ appt[a].st = "none"
    BY <1>12, MoveJob DEF Swap, TypeOK
  <2>2. apptLock[job[q].moved] = q
    BY <2>1 DEF WaitsInv, WaitsOf
  <2>3. LockedStay(q)
    BY <1>12, <2>1, <2>2 DEF Swap, LockedStay, Active, TypeOK
  <2>4. QED
    BY <1>12, <2>3, FinishWaits DEF Swap
<1>13. ASSUME NEW q \in Requests, NEW bs, CancelAffected(q, bs), Finish(q)
       PROVE  Goal
  <2>1. \A a \in Affected(q) : apptLock[a] = q
    BY <1>13, AllAreLocked DEF CancelAffected
  <2>2. LockedStay(q)
    BY <1>13, <2>1 DEF CancelAffected, LockedStay, Active, TypeOK
  <2>3. QED
    BY <1>13, <2>2, FinishWaits
<1> HIDE DEF Goal
<1>14. ASSUME NEW q \in Requests, Quiet(q) PROVE Goal
  BY <1>1, <1>4, <1>5, <1>6, <1>7, <1>8, <1>9, <1>14
  DEF Quiet, Refuse, RefuseClose, Abort, tableVars
<1>15. QED
  BY <1>10, <1>11, <1>12, <1>13, <1>14, NextCases DEF WriteBlocks, WriteEdit

(* A circle of requests has a writer of blocks, for bookings climb by Turn; and it has a  *)
(* reschedule or a booking that went on, for writers of blocks climb by id and hold the    *)
(* professionals of the appointments they want.                                              *)
LEMMA CircleIsKnown ==
    ASSUME SlotsInv, WaitsInv, NEW K \in SUBSET Requests, K # {},
           \A q \in K : Waits(q) \cap K # {}
    PROVE  /\ \E q \in K : job[q].kind \in {"close", "edit"}
           /\ \E q \in K : job[q].kind = "move" \/ (job[q].kind = "book" /\ target[q] # Nobody)
<1> USE SlotsAssumption
<1>0. ASSUME NEW q \in K
      PROVE  /\ WaitsOf(q) /\ q # Nobody /\ wants[q] \subseteq Staff
             /\ job[q].kind \in {"none", "book", "move", "close", "edit"}
             /\ pc[q] \in {"staff", "appts"}
             /\ pc[q] = "staff" => job[q].kind # "none"
             /\ pc[q] = "appts" => job[q].kind \in {"close", "edit"}
  BY DEF WaitsInv, SlotsInv, TypeOK, Job, HoldInv, Waits
<1>1. ASSUME NEW L \in SUBSET K, L # {}, NEW rank \in [L -> Nat],
             \A q \in L : \E p \in L : rank[q] < rank[p]
      PROVE  FALSE
  <2>1. IsFiniteSet(L)
    BY FS_Subset
  <2>2. PICK q \in L : \A p \in L : rank[p] <= rank[q]
    BY <1>1, <2>1, SomeHighest
  <2>3. PICK p \in L : rank[q] < rank[p]
    BY <1>1
  <2>4. rank[p] \in Nat /\ rank[q] \in Nat
    OBVIOUS
  <2>5. QED
    BY <2>2, <2>3, <2>4
<1>2. \E q \in K : job[q].kind \in {"close", "edit"}
  <2>1. SUFFICES ASSUME \A q \in K : job[q].kind \notin {"close", "edit"} PROVE FALSE
    OBVIOUS
  <2>2. ASSUME NEW q \in K
        PROVE  \E s \in wants[q], p \in K : staffLock[s] = p /\ \A t \in wants[q] : Turn[s] <= Turn[t]
    <3>1. pc[q] = "staff" /\ job[q].kind \in {"book", "move"}
      BY <1>0, <2>1
    <3>2. Waits(q) = {staffLock[s] : s \in NextCandidate(q)} \ {Nobody}
      BY <3>1 DEF Waits
    <3>3. PICK p \in K : p \in Waits(q)
      OBVIOUS
    <3>4. PICK s \in NextCandidate(q) : staffLock[s] = p
      BY <3>2, <3>3
    <3>5. s \in wants[q] /\ \A t \in wants[q] : Turn[s] <= Turn[t]
      BY <3>4 DEF NextCandidate
    <3>6. QED
      BY <3>4, <3>5
  <2> DEFINE rank == [q \in K |-> Turn[CHOOSE s \in wants[q] : \A t \in wants[q] : Turn[s] <= Turn[t]]]
  <2>3. ASSUME NEW q \in K
        PROVE  \E s \in wants[q] : rank[q] = Turn[s] /\ \A t \in wants[q] : Turn[s] <= Turn[t]
    BY <2>2
  <2>4. rank \in [K -> Nat]
    BY <1>0, <2>3
  <2> HIDE DEF rank
  <2>5. ASSUME NEW q \in K PROVE \E p \in K : rank[q] < rank[p]
    <3>1. PICK s \in wants[q], p \in K : staffLock[s] = p /\ \A t \in wants[q] : Turn[s] <= Turn[t]
      BY <2>2
    <3>2. PICK u \in wants[q] : rank[q] = Turn[u] /\ \A t \in wants[q] : Turn[u] <= Turn[t]
      BY <2>3
    <3>3. PICK w \in wants[p] : rank[p] = Turn[w]
      BY <2>3
    <3>4. s \in Staff /\ u \in Staff /\ w \in Staff
      BY <1>0
    <3>5. Turn[s] < Turn[w]
      BY <1>0, <2>1, <3>1, <3>4 DEF WaitsOf
    <3>6. Turn[u] <= Turn[s] /\ Turn[s] \in Nat /\ Turn[u] \in Nat /\ Turn[w] \in Nat
      BY <3>2, <3>4
    <3>7. QED
      BY <3>2, <3>3, <3>5, <3>6
  <2>6. QED
    BY <1>1, <2>4, <2>5
<1>3. \E q \in K : job[q].kind = "move" \/ (job[q].kind = "book" /\ target[q] # Nobody)
  <2>1. SUFFICES ASSUME \A q \in K : job[q].kind # "move" /\ (job[q].kind = "book" => target[q] = Nobody)
                 PROVE  FALSE
    OBVIOUS
  <2> DEFINE L == {q \in K : job[q].kind \in {"close", "edit"}}
  <2>2. ASSUME NEW p \in K, \/ \E s \in Staff : staffLock[s] = p
                            \/ \E a \in Appts : apptLock[a] = p
        PROVE  p \in L
    BY <1>0, <2>1, <2>2 DEF WaitsOf
  <2>3. ASSUME NEW q \in L PROVE pc[q] = "staff"
    <3>1. SUFFICES ASSUME pc[q] = "appts" PROVE FALSE
      BY <1>0
    <3>2. PICK a \in NextAffected(q), p \in K : apptLock[a] = p
      BY <3>1 DEF Waits
    <3>3. a \in Appts /\ appt[a].staff \in job[q].members /\ p # q
      BY <3>2 DEF NextAffected, Affected
    <3>4. p \in L
      BY <2>2, <3>2, <3>3
    <3>5. pc[p] = "appts" /\ appt[a].staff \in job[p].members
      BY <1>0, <2>1, <3>2, <3>3, <3>4 DEF WaitsOf
    <3>6. staffLock[appt[a].staff] = q /\ staffLock[appt[a].staff] = p
      BY <3>1, <3>3, <3>4, <3>5 DEF SlotsInv, HoldInv
    <3>7. QED
      BY <3>3, <3>6
  <2>4. ASSUME NEW q \in L
        PROVE  \E s \in wants[q], p \in L : staffLock[s] = p /\ \A t \in wants[q] : s <= t
    <3>1. PICK s \in NextMember(q), p \in K : staffLock[s] = p
      BY <2>3 DEF Waits
    <3>2. s \in wants[q] /\ s \in Staff /\ \A t \in wants[q] : s <= t
      BY <1>0, <3>1 DEF NextMember
    <3>3. p \in L
      BY <2>2, <3>1, <3>2
    <3>4. QED
      BY <3>1, <3>2, <3>3
  <2> DEFINE rank == [q \in L |-> CHOOSE s \in wants[q] : \A t \in wants[q] : s <= t]
  <2>5. ASSUME NEW q \in L PROVE rank[q] \in wants[q] /\ \A t \in wants[q] : rank[q] <= t
    BY <2>4
  <2>6. rank \in [L -> Nat]
    BY <1>0, <2>5
  <2> HIDE DEF rank
  <2>7. ASSUME NEW q \in L PROVE \E p \in L : rank[q] < rank[p]
    <3>1. PICK s \in wants[q], p \in L : staffLock[s] = p
      BY <2>4
    <3>2. rank[q] <= s /\ rank[p] \in wants[p]
      BY <2>5
    <3>3. s \in Staff
      BY <1>0
    <3>4. s < rank[p]
      BY <1>0, <3>1, <3>2, <3>3 DEF WaitsOf
    <3>5. s \in Nat /\ rank[q] \in Nat /\ rank[p] \in Nat
      BY <2>6, <3>3
    <3>6. QED
      BY <3>2, <3>4, <3>5
  <2>8. L # {}
    BY <1>2
  <2>9. QED
    BY <1>1, <2>6, <2>7, <2>8
<1>4. QED
  BY <1>2, <1>3

(* However many requests run, and whatever professionals, ranges and blocks they ask for, *)
(* they wait for each other in a circle only in the two ways of S-18.                       *)
THEOREM OnlyKnownDeadlocks == Spec => []DeadlockIsKnown
<1>1. Init => SlotsInv /\ WaitsInv
  <2>1. ASSUME Init PROVE WaitsInv
    BY <2>1, SlotsAssumption DEF Init, WaitsInv, WaitsOf
  <2>2. QED
    BY <2>1, InitSlots
<1>2. SlotsInv /\ WaitsInv /\ [Next]_vars => SlotsInv' /\ WaitsInv'
  <2>1. ASSUME SlotsInv, WaitsInv, UNCHANGED vars PROVE WaitsInv'
    BY <2>1 DEF WaitsInv, WaitsOf, Active, vars, tableVars, lockVars, reqVars
  <2>2. QED
    BY <2>1, NextSlots, NextWaits
<1>3. SlotsInv /\ WaitsInv => DeadlockIsKnown
  BY CircleIsKnown DEF DeadlockIsKnown
<1>4. QED
  BY <1>1, <1>2, <1>3, PTL DEF Spec

==============================================================================
